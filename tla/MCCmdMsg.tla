------------------------------ MODULE MCCmdMsg ------------------------------
(***************************************************************************)
(* Instances of CmdMsg for TLC: two modules of different priority, and one   *)
(* or two sending threads.                                                   *)
(***************************************************************************)
EXTENDS CmdMsg, TLC

CONSTANTS s1, s2,   \* sending threads
          role, mdry \* a role module and a mandatory module

BothModules == {role, mdry}
ModuleQ     == <<<<role>>, <<>>, <<mdry>>>>

\* Both threads send for the role module to everybody.
SameSrc  == s1 :> role @@ s2 :> role
ToAll    == s1 :> BothModules @@ s2 :> BothModules

\* The first thread holds back the module's other events while its own is put off;
\* the second's messages wait for I/O, or nobody's do.
MixOpts  == s1 :> {"CLR_SNDR_MSG_IF_PENDING"} @@ s2 :> {"PENDING_DURING_CANNOT_IO"}
HoldOpts == s1 :> {"CLR_SNDR_MSG_IF_PENDING"} @@ s2 :> {}
=============================================================================
