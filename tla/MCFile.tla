------------------------------- MODULE MCFile -------------------------------
(* Instances of File for TLC.                                              *)
EXTENDS File

\* The parent makes every call but write; the child it forks shares its files, opens one of
\* its own, writes and exits.
ParentAndChild ==
    <<{"close", "dup", "fork", "inode", "device", "pipe", "read", "stat"},
      {"close", "inode", "write", "exit"}>>
=============================================================================
