------------------------------- MODULE Files -------------------------------
(***************************************************************************)
(* Files on the SD card, from the descriptors of posix.c through the file  *)
(* objects of posix_fatfs_provider.c and the volume of FatFs (ff.c) to the *)
(* card driver (sdc.c), with the mount and umount commands.  The shell     *)
(* thread is the only user, so one call is one step: the FatFs worker      *)
(* thread serves it while the shell waits for the reply.                   *)
(*                                                                         *)
(* The card is external.  Insertions are numbered, card 0 is the empty     *)
(* slot.  A card that was removed has to be connected again before it      *)
(* answers.  Sectors cached in the volume answer without the card.         *)
(***************************************************************************)
EXTENDS Integers, FiniteSetsExt

CONSTANTS MaxFd,    \* POSIX_MAX_FD
          MaxCards, \* insertions
          MaxIds    \* mounts of a volume; Fsid is a 16 bit counter

ASSUME FilesAssumption == MaxFd \in Nat /\ MaxFd > 3 /\ {MaxCards, MaxIds} \subseteq Nat

Std  == 0..2                     \* stdin, stdout, stderr
Fd   == 0..(MaxFd - 1)
FIL  == 1..(MaxFd - 3)           \* FIL_ENTRIES
DIRS == {0}                      \* one of posix_dir_fd
NoStream == 0
Console  == -1
NoObject == [fs |-> FALSE, id |-> 0, on |-> 0]

VARIABLES card, alive,    \* the card inserted, and it is initialised
          state,          \* of SDCD1: "active" or "ready"
          mounted,        \* /SD1 is in front of the root in mountpoints
          fs,             \* the volume: fs_type is set, id, the card; ++Fsid
          obj,            \* FIL and DIR objects; on is the card opened on
          fd_list,        \* NoStream (vmt is NULL), Console, or its FIL
          heldfd, helddir   \* descriptors and directories of the user

filevars == <<card, alive, state, mounted, fs, obj, fd_list, heldfd, helddir>>

\* main: sdcStart, posix_init and the three streams of the console.
FilesInit ==
    /\ card = 0 /\ alive = FALSE /\ state = "active"
    /\ mounted = FALSE
    /\ fs = [type |-> FALSE, id |-> 0, on |-> 0, next |-> 1]
    /\ obj = [f \in FIL \cup DIRS |-> NoObject]
    /\ fd_list = [f \in Fd |-> IF f \in Std THEN Console ELSE NoStream]
    /\ heldfd = {} /\ helddir = {}

-----------------------------------------------------------------------------
(* The card and its driver. *)

\* A number nothing remembers.
NewCard == 1 + Max({fs.on} \cup {obj[f].on : f \in FIL \cup DIRS})

Slot ==
    /\ alive' = FALSE
    /\ \/ card # 0 /\ card' = 0
       \/ card = 0 /\ card' = NewCard /\ NewCard <= MaxCards
    /\ UNCHANGED <<state, mounted, fs, obj, fd_list, heldfd, helddir>>

\* sdcConnect: the state after it, and the card has been initialised.
sdcConnect ==
    \/ card # 0 /\ state' = "ready" /\ alive' = TRUE
    \/ state' = "active" /\ alive' = FALSE

\* disk_status without STA_NOINIT.
disk_status == state = "ready"

-----------------------------------------------------------------------------
(* FatFs. *)

\* Mutant: a volume that is still analysed is kept.
f_mount_KeepsType == fs

\* The old volume and the new one are the same object.
f_mount == [fs EXCEPT !.type = FALSE]

\* The object may be used: f_read, f_write, f_lseek, f_sync and f_readdir
\* return before they touch it otherwise.
validate(f) == obj[f].fs /\ fs.type /\ fs.id = obj[f].id /\ disk_status

\* chk_mounted: the volume after it; fat says whether the card can be read and
\* holds a FAT.
chk_mounted(fat) ==
    IF fs.type /\ disk_status THEN fs
    ELSE IF fat /\ disk_status /\ alive
         THEN [fs EXCEPT !.type = TRUE, !.id = fs.next, !.on = card, !.next = @ + 1]
         ELSE [fs EXCEPT !.type = FALSE]

\* f_open and f_opendir on an object, for the outcome ok; the volume may be
\* found and the path not.
Opened(f, ok) ==
    /\ \E fat \in BOOLEAN : fs' = chk_mounted(fat)
    /\ ok => fs'.type
    /\ obj' = [obj EXCEPT ![f] =
                 IF ok THEN [fs |-> TRUE, id |-> fs'.id, on |-> fs'.on]
                       ELSE [@ EXCEPT !.fs = FALSE]]

-----------------------------------------------------------------------------
(* The commands. *)

\* The path is mounted already: the card was connected again for nothing and
\* devdone disconnects it, under the mounted volume.
MountFails ==
    \/ /\ card # 0 /\ alive' = TRUE    \* connected, and disconnected
       /\ state' = "active"
    \/ alive' = FALSE /\ state' = "active"

cmd_mount ==
    /\ IF mounted
       THEN MountFails /\ UNCHANGED <<mounted, fs>>
       ELSE /\ sdcConnect
            /\ mounted' = (state' = "ready")
            /\ fs' = IF mounted' THEN f_mount ELSE fs
    /\ UNCHANGED <<card, obj, fd_list, heldfd, helddir>>

\* The volume stays registered in FatFs; sdcDisconnect ends in "active"
\* whatever the card answers.  umount of what is not mounted disconnects too.
cmd_unmount ==
    /\ mounted' = FALSE
    /\ state' = "active"
    /\ UNCHANGED <<card, alive, fs, obj, fd_list, heldfd, helddir>>

-----------------------------------------------------------------------------
(* The descriptors. *)

Free == {f \in Fd : fd_list[f] = NoStream}
new_fil == Min({f \in FIL : ~obj[f].fs})

\* With no descriptor left posix_get_streamfree returns 0, and the open would
\* go over stdin: an open has a descriptor left here.  On the root every open
\* fails before anything is taken.  A failed open returns the file object and
\* keeps the descriptor: vmt is set before the outcome is known.
posix_open(ok) ==
    /\ mounted /\ Free # {} /\ fs.next <= MaxIds
    /\ LET newfd == Min(Free) IN
       /\ Opened(new_fil, ok)
       /\ fd_list' = [fd_list EXCEPT ![newfd] = new_fil]
       /\ heldfd' = IF ok THEN heldfd \cup {newfd} ELSE heldfd
    /\ UNCHANGED <<card, alive, state, mounted, helddir>>

\* Mutant: only f_close returns the object, which it does not when the card is
\* gone.
release_fil_Closed(f) == IF validate(f) THEN [obj EXCEPT ![f].fs = FALSE] ELSE obj

\* f_close discards the object when it could be flushed, release_fil always.
release_fil(f) == [obj EXCEPT ![f].fs = FALSE]

posix_close(fd) ==
    /\ fd \in heldfd
    /\ obj' = release_fil(fd_list[fd])
    /\ fd_list' = [fd_list EXCEPT ![fd] = NoStream]
    /\ heldfd' = heldfd \ {fd}
    /\ UNCHANGED <<card, alive, state, mounted, fs, helddir>>

posix_opendir(ok) ==
    /\ mounted /\ fs.next <= MaxIds
    /\ \E d \in DIRS :
         /\ ~obj[d].fs
         /\ Opened(d, ok)
         /\ helddir' = IF ok THEN helddir \cup {d} ELSE helddir
    /\ UNCHANGED <<card, alive, state, mounted, fd_list, heldfd>>

posix_closedir ==
    /\ \E d \in helddir : obj' = release_fil(d) /\ helddir' = helddir \ {d}
    /\ UNCHANGED <<card, alive, state, mounted, fs, fd_list, heldfd>>

FilesNext ==
    \/ Slot \/ cmd_mount \/ cmd_unmount
    \/ \E ok \in BOOLEAN : posix_open(ok) \/ posix_opendir(ok)
    \/ \E fd \in Fd : posix_close(fd)
    \/ posix_closedir

FilesSpec == FilesInit /\ [][FilesNext]_filevars

-----------------------------------------------------------------------------
(* Properties. *)

FilesTypeOK ==
    /\ card \in 0..MaxCards /\ alive \in BOOLEAN
    /\ state \in {"active", "ready"} /\ mounted \in BOOLEAN
    /\ fs.type \in BOOLEAN /\ fs.id < fs.next /\ fs.on \in 0..MaxCards
    /\ \A f \in FIL \cup DIRS : obj[f].fs \in BOOLEAN /\ obj[f].id < fs.next
    /\ \A f \in Fd : fd_list[f] \in {NoStream, Console} \cup FIL
    /\ heldfd \subseteq Fd \ Std /\ helddir \subseteq DIRS

\* No access to another card: whatever was mounted, unmounted, mounted twice,
\* removed and inserted since, a file or directory that FatFs accepts belongs
\* to the volume it has analysed, and that is the volume of the card that
\* answers.  posix_unmount tells FatFs nothing; the numbers of the mounts, the
\* state of the driver and the reset in f_mount have to catch it together.
NoStaleAccess ==
    /\ \A f \in FIL \cup DIRS : validate(f) => obj[f].on = fs.on
    /\ fs.type /\ disk_status /\ alive => fs.on = card

\* Types, and: each descriptor the user holds has a file object of its own, and the
\* objects in use are those of descriptors in heldfd: a failed open or a close
\* on a card that is gone costs no file object.
FilesOK ==
    /\ FilesTypeOK
    /\ \A fd \in heldfd : fd_list[fd] \in FIL /\ obj[fd_list[fd]].fs
    /\ \A a, b \in heldfd : fd_list[a] = fd_list[b] => a = b
    /\ \A f \in FIL : obj[f].fs => \E fd \in heldfd : fd_list[fd] = f
=============================================================================
