-------------------------- MODULE MCTestInvocation --------------------------
(* A model-checking instance of TestInvocation.                             *)
EXTENDS TestInvocation

CONSTANTS f1, f2

Asked     == {{f1, f2}, {f1}, {}}   \* a report is rebuilt, with other findings
Templates == {{}, {f1}}             \* its language is detected, or is not
=============================================================================
