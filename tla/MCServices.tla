----------------------------- MODULE MCServices ----------------------------
(***************************************************************************)
(* Memory, the line editor with the shell, the files, and what FatFs keeps *)
(* on the card.  No two share state, so each is explored by itself: part   *)
(* says which, and the variables of the others keep their initial values.  *)
(* Only the first line typed may be longer than two characters.            *)
(***************************************************************************)
EXTENDS ChMem, RdLine, Files, FatFs

VARIABLE part

allvars == <<memvars, rdvars, filevars, fatvars, part>>

MCInit ==
    /\ part \in {"mem", "line", "files", "fat"}
    /\ MemInit /\ RdInit /\ FilesInit /\ FatInit

\* f_truncate does not free the sector that waits in the buffer of the file:
\* VolumeSound and SyncedSurvives fail when it does.
BufferKept ==
    \A f \in FILs : fil[f].dirty /\ fil'[f].open => fil'[f].fsize >= fil[f].fsize

\* A file grows by units 1, which units 2 may replace.
TwosReplace ==
    \A f \in FILs : fil[f].open =>
        \A i \in DOMAIN want'[f] \ DOMAIN want[f] : want'[f][i] # 2

MCNext ==
    /\ UNCHANGED part
    /\ \/ part = "mem" /\ MemNext
          /\ UNCHANGED <<rdvars, filevars, fatvars>>
       \/ part = "line" /\ RdNext
          /\ (len' > len /\ curr' = curr => hlen = 0 \/ len' <= 2)
          /\ UNCHANGED <<memvars, filevars, fatvars>>
       \/ part = "files" /\ FilesNext
          /\ UNCHANGED <<memvars, rdvars, fatvars>>
       \/ part = "fat" /\ FatNext /\ BufferKept /\ TwosReplace
          /\ UNCHANGED <<memvars, rdvars, filevars>>

MCSpec == MCInit /\ [][MCNext]_allvars
=============================================================================
