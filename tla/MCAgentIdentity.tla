-------------------------- MODULE MCAgentIdentity --------------------------
(* One daemon and two concurrent enrollments on one state file.            *)
EXTENDS AgentIdentity

CONSTANTS daemon, enroll1, enroll2

MCCallers == {daemon, enroll1, enroll2}
=============================================================================
