-------------------------- MODULE MCPrepareTarget --------------------------
(* Values for PrepareTarget: one request for each method, and others that   *)
(* differ from them in one field.  An archive is, in turn, a tree under one *)
(* directory, several directories, and one that is refused.                 *)
EXTENDS PrepareTarget

Req(method, revision, subdirectory) ==
  [method |-> method, revision |-> revision, subdirectory |-> subdirectory]

MCRequests ==
  {Req("remote_git", 0, "."), Req("remote_git", 2, "app"), Req("local_checkout", 0, "app"),
   Req("source_archive", 0, "."), Req("source_archive", 0, "app")}
MCLayout == <<"directories", "one_directory", "unsafe">>
MCSubdirectories == <<{"app"}, {"app"}, {}>>
=============================================================================
