------------------------------ MODULE MCTaskRunner ------------------------------
EXTENDS TaskRunner
\* Two tasks of src/lab_console/jobs/allowed_tasks_v2.yaml, with a group and without.
CONSTANTS verify_v040_bundle, git_status, bundle_verifier

MCTasks == {verify_v040_bundle, git_status}
MCGroup == [t \in MCTasks |-> IF t = git_status THEN NoGroup ELSE bundle_verifier]
=============================================================================
