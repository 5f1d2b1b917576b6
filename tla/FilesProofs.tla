----------------------------- MODULE FilesProofs ----------------------------
(***************************************************************************)
(* Proofs about Files: descriptors own file objects, and no object is used *)
(* on another card than the one it was opened on, for any number of        *)
(* descriptors, insertions and mounts.                                     *)
(***************************************************************************)
EXTENDS Files, FiniteSetTheorems, WellFoundedInduction, TLAPS

Cards   == 0 .. MaxCards
Objects == FIL \cup DIRS

FilesTyped ==
    /\ card \in Cards /\ alive \in BOOLEAN
    /\ state \in {"active", "ready"} /\ mounted \in BOOLEAN
    /\ fs \in [type : BOOLEAN, id : Nat, on : Cards, next : Nat]
    /\ obj \in [Objects -> [fs : BOOLEAN, id : Nat, on : Cards]]
    /\ fd_list \in [Fd -> {NoStream, Console} \cup FIL]
    /\ heldfd \subseteq Fd \ Std /\ helddir \subseteq DIRS

\* Numbers of mounts are not used twice: an object has the number of the
\* volume only if it was opened on it.
Numbered ==
    /\ fs.id < fs.next
    /\ \A f \in Objects : obj[f].id < fs.next
    /\ \A f \in Objects : obj[f].fs /\ obj[f].id = fs.id => obj[f].on = fs.on

\* A volume that is analysed, with the driver ready, is on the card that
\* answers.
Analysed == fs.type /\ state = "ready" /\ alive => fs.on = card

Owned ==
    /\ \A fd \in Std : fd_list[fd] = Console
    /\ \A fd \in heldfd : fd_list[fd] \in FIL /\ obj[fd_list[fd]].fs
    /\ \A a, b \in heldfd : fd_list[a] = fd_list[b] => a = b
    /\ \A f \in FIL : obj[f].fs => \E fd \in heldfd : fd_list[fd] = f

FilesIInv == FilesTyped /\ Numbered /\ Analysed /\ Owned

-----------------------------------------------------------------------------

\* Min of a set of numbers is one of them.
LEMMA FilesMin ==
    ASSUME NEW S \in SUBSET Nat, S # {}
    PROVE  Min(S) \in S
<1> DEFINE R == {ss \in Nat \X Nat : ss[1] < ss[2]}
<1>1. IsWellFoundedOn(R, Nat)
  BY NatLessThanWellFounded DEF OpToRel
<1>2. \A x, y \in Nat : y < x => <<y, x>> \in R
  OBVIOUS
<1> HIDE DEF R
<1>3. PICK x \in S : \A y \in S : ~ (<<y, x>> \in R)
  BY <1>1, WFMin, Zenon
<1>4. \A y \in S : x <= y
  <2>1. SUFFICES ASSUME NEW y \in S PROVE x <= y
    OBVIOUS
  <2>2. ~ (y < x)
    BY <1>2, <1>3, Zenon
  <2> QED
    BY <2>2
<1> QED
  BY <1>4, Zenon DEF Min

\* Max of a set of numbers up to n: the least of the distances from n.
LEMMA FilesMax ==
    ASSUME NEW n \in Nat, NEW S \in SUBSET (0 .. n), S # {}
    PROVE  Max(S) \in S
<1> DEFINE D == {d \in 0 .. n : n - d \in S}
           R == {ss \in Nat \X Nat : ss[1] < ss[2]}
<1>1. D \in SUBSET Nat
  OBVIOUS
<1>2. PICK s \in S : TRUE
  OBVIOUS
<1>3. n - s \in 0 .. n /\ n - (n - s) = s
  OBVIOUS
<1>4. n - s \in D
  BY <1>3
<1>5. IsWellFoundedOn(R, Nat)
  BY NatLessThanWellFounded DEF OpToRel
<1>6. \A x, y \in Nat : y < x => <<y, x>> \in R
  OBVIOUS
<1>7. PICK d \in D : \A e \in D : ~ (<<e, d>> \in R)
  <2> HIDE DEF R, D
  <2> QED BY <1>1, <1>4, <1>5, WFMin, Zenon
<1>8. ASSUME NEW y \in S PROVE n - d >= y
  <2>1. n - y \in 0 .. n /\ n - (n - y) = y
    OBVIOUS
  <2>2. n - y \in D
    BY <2>1
  <2>3. ~ (n - y < d)
    BY <1>6, <1>7, <2>2, <1>1
  <2> QED BY <2>3, <1>1
<1>9. n - d \in S
  OBVIOUS
<1> QED
  BY <1>8, <1>9, Zenon DEF Max

\* While a descriptor is free there is a file object for it: there are as many
\* objects as descriptors beside the three of the console, and every object in
\* use has a descriptor of its own.
LEMMA ObjectLeft ==
    ASSUME FilesTyped, Owned, Free # {}
    PROVE  new_fil \in FIL /\ ~ obj[new_fil].fs
<1> DEFINE U == {f \in FIL : ~ obj[f].fs}
           W == Fd \ Std
<1> USE FilesAssumption
<1>1. SUFFICES ASSUME U = {} PROVE FALSE
  <2>1. U \in SUBSET Nat
    BY DEF FIL
  <2>2. U # {} => Min(U) \in U
    BY <2>1, FilesMin, Zenon
  <2> QED BY <2>2 DEF new_fil
<1>2. PICK w \in Fd : fd_list[w] = NoStream
  BY DEF Free
<1>3. w \in W /\ w \notin heldfd
  BY <1>2 DEF Owned, FilesTyped, NoStream, Console, FIL
<1>4. W = 3 .. MaxFd - 1
  BY DEF Fd, Std
<1>5. IsFiniteSet(W) /\ Cardinality(W) = MaxFd - 3
  <2>1. /\ IsFiniteSet(3 .. MaxFd - 1)
        /\ Cardinality(3 .. MaxFd - 1) =
              IF 3 > MaxFd - 1 THEN 0 ELSE MaxFd - 1 - 3 + 1
    <3>1. 3 \in Int /\ MaxFd - 1 \in Int
      OBVIOUS
    <3> QED BY <3>1, FS_Interval, Zenon
  <2>2. IsFiniteSet(W) /\ Cardinality(W) = Cardinality(3 .. MaxFd - 1)
    BY <1>4, <2>1, Zenon
  <2> QED BY <2>1, <2>2
<1>6. IsFiniteSet(FIL) /\ Cardinality(FIL) = MaxFd - 3
  <2>1. /\ IsFiniteSet(1 .. MaxFd - 3)
        /\ Cardinality(1 .. MaxFd - 3) =
              IF 1 > MaxFd - 3 THEN 0 ELSE MaxFd - 3 - 1 + 1
    <3>1. 1 \in Int /\ MaxFd - 3 \in Int
      OBVIOUS
    <3> QED BY <3>1, FS_Interval, Zenon
  <2> QED BY <2>1 DEF FIL
<1>7. heldfd \in SUBSET W
  BY DEF FilesTyped
<1>8. IsFiniteSet(heldfd) /\ Cardinality(heldfd) <= Cardinality(W)
      /\ Cardinality(W) # Cardinality(heldfd)
  BY <1>3, <1>5, <1>7, FS_Subset
<1>9. Cardinality(heldfd) \in Nat
  BY <1>8, FS_CardinalityType
<1> DEFINE g == [fd \in heldfd |-> fd_list[fd]]
<1>10. g \in Surjection(heldfd, FIL)
  BY <1>1 DEF Owned, Surjection
<1>11. Cardinality(FIL) <= Cardinality(heldfd)
  BY <1>8, <1>10, FS_Surjection
<1> QED BY <1>5, <1>6, <1>8, <1>9, <1>11

\* What chk_mounted leaves of the volume.
LEMMA VolumeChecked ==
    ASSUME FilesTyped, NEW fat \in BOOLEAN
    PROVE  LET v == chk_mounted(fat)
           IN  /\ v \in [type : BOOLEAN, id : Nat, on : Cards, next : Nat]
               /\ \/ v = fs
                  \/ v.type = FALSE /\ v.id = fs.id /\ v.on = fs.on
                     /\ v.next = fs.next
                  \/ v.id = fs.next /\ v.on = card /\ v.next = fs.next + 1
<1>1. CASE fs.type /\ disk_status
  BY <1>1 DEF FilesTyped, chk_mounted
<1>2. CASE ~ (fs.type /\ disk_status) /\ fat /\ disk_status /\ alive
  <2>1. chk_mounted(fat) = [fs EXCEPT !.type = TRUE, !.id = fs.next,
                                      !.on = card, !.next = fs.next + 1]
    BY <1>2 DEF chk_mounted
  <2>2. fs.next + 1 \in Nat /\ fs.next \in Nat /\ card \in Cards
    BY DEF FilesTyped
  <2> QED BY <2>1, <2>2 DEF FilesTyped
<1>3. CASE ~ (fs.type /\ disk_status) /\ ~ (fat /\ disk_status /\ alive)
  BY <1>3 DEF FilesTyped, chk_mounted
<1> QED BY <1>1, <1>2, <1>3

\* An open, of a file or of a directory, keeps the numbers straight.
LEMMA OpenedKeeps ==
    ASSUME FilesTyped, Numbered, Analysed, NEW f \in Objects,
           NEW ok \in BOOLEAN, Opened(f, ok), UNCHANGED <<card, alive, state>>
    PROVE  /\ fs' \in [type : BOOLEAN, id : Nat, on : Cards, next : Nat]
           /\ obj' \in [Objects -> [fs : BOOLEAN, id : Nat, on : Cards]]
           /\ \A g \in Objects : obj'[g].fs = IF g = f THEN ok ELSE obj[g].fs
           /\ Numbered' /\ Analysed'
<1>1. PICK fat \in BOOLEAN : fs' = chk_mounted(fat)
  BY DEF Opened
<1>2. /\ fs' \in [type : BOOLEAN, id : Nat, on : Cards, next : Nat]
      /\ \/ fs' = fs
         \/ fs'.type = FALSE /\ fs'.id = fs.id /\ fs'.on = fs.on
            /\ fs'.next = fs.next
         \/ fs'.id = fs.next /\ fs'.on = card /\ fs'.next = fs.next + 1
  BY <1>1, VolumeChecked, Zenon
<1>3. /\ obj' \in [Objects -> [fs : BOOLEAN, id : Nat, on : Cards]]
      /\ \A g \in Objects :
            /\ obj'[g].fs = IF g = f THEN ok ELSE obj[g].fs
            /\ obj'[g].id = IF g = f /\ ok THEN fs'.id ELSE obj[g].id
            /\ obj'[g].on = IF g = f /\ ok THEN fs'.on ELSE obj[g].on
  BY <1>2 DEF Opened, FilesTyped
<1>4. Numbered'
  BY <1>2, <1>3 DEF Numbered, FilesTyped
<1>5. Analysed'
  BY <1>2 DEF Analysed, FilesTyped
<1> QED BY <1>2, <1>3, <1>4, <1>5

\* An open file has a descriptor and a file object that nobody had; one that
\* failed costs the descriptor only.
LEMMA OpenKeeps ==
    ASSUME FilesIInv, NEW ok \in BOOLEAN, posix_open(ok)
    PROVE  FilesIInv'
<1> USE FilesAssumption
<1> DEFINE n == Min(Free)
<1>1. Free # {} /\ FilesTyped /\ Numbered /\ Analysed /\ Owned
  BY DEF posix_open, FilesIInv
<1>2. n \in Fd /\ fd_list[n] = NoStream
  <2>1. Free \in SUBSET Nat
    BY DEF Free, Fd
  <2>2. n \in Free
    BY <1>1, <2>1, FilesMin, Zenon
  <2> QED BY <2>2 DEF Free
<1>3. new_fil \in FIL /\ ~ obj[new_fil].fs
  BY <1>1, ObjectLeft
<1>4. /\ Opened(new_fil, ok)
      /\ fd_list' = [fd_list EXCEPT ![n] = new_fil]
      /\ heldfd' = IF ok THEN heldfd \cup {n} ELSE heldfd
      /\ UNCHANGED <<card, alive, state, mounted, helddir>>
  BY DEF posix_open
<1> HIDE DEF n
<1>5. new_fil \in Objects
  BY <1>3 DEF Objects
<1>6. /\ fs' \in [type : BOOLEAN, id : Nat, on : Cards, next : Nat]
      /\ obj' \in [Objects -> [fs : BOOLEAN, id : Nat, on : Cards]]
      /\ \A g \in Objects :
            obj'[g].fs = IF g = new_fil THEN ok ELSE obj[g].fs
      /\ Numbered' /\ Analysed'
  BY <1>1, <1>4, <1>5, OpenedKeeps
<1>7. n \notin Std /\ n \notin heldfd
  BY <1>1, <1>2 DEF Owned, NoStream, Console, FIL
<1>8. /\ fd_list' \in [Fd -> {NoStream, Console} \cup FIL]
      /\ \A fd \in Fd : fd_list'[fd] = IF fd = n THEN new_fil ELSE fd_list[fd]
  BY <1>1, <1>2, <1>3, <1>4 DEF FilesTyped
<1>9. FilesTyped'
  BY <1>1, <1>2, <1>4, <1>6, <1>7, <1>8 DEF FilesTyped
<1>10. Owned'
  <2>1. heldfd \subseteq Fd /\ Std \subseteq Fd /\ FIL \subseteq Objects
    BY <1>1 DEF FilesTyped, Std, Fd, Objects
  <2>2. \A fd \in Std : fd_list'[fd] = Console
    BY <1>1, <1>7, <1>8, <2>1 DEF Owned
  <2>3. \A fd \in heldfd : fd_list[fd] \in FIL /\ fd_list[fd] # new_fil
                           /\ fd_list'[fd] = fd_list[fd] /\ obj[fd_list[fd]].fs
    BY <1>1, <1>3, <1>7, <1>8, <2>1 DEF Owned
  <2>4. \A fd \in heldfd' : fd_list'[fd] \in FIL /\ obj'[fd_list'[fd]].fs
    BY <1>2, <1>3, <1>4, <1>6, <1>8, <2>1, <2>3
  <2>5. \A a, b \in heldfd' : fd_list'[a] = fd_list'[b] => a = b
    BY <1>1, <1>2, <1>4, <1>8, <2>3 DEF Owned
  <2>6. \A f \in FIL : obj'[f].fs => \E fd \in heldfd' : fd_list'[fd] = f
    BY <1>1, <1>2, <1>4, <1>6, <1>8, <2>1, <2>3 DEF Owned
  <2> QED BY <2>2, <2>4, <2>5, <2>6 DEF Owned
<1> QED BY <1>6, <1>9, <1>10 DEF FilesIInv

LEMMA CloseKeeps ==
    ASSUME FilesIInv, NEW d \in Fd, posix_close(d)
    PROVE  FilesIInv'
<1> USE FilesAssumption
<1>1. FilesTyped /\ Numbered /\ Analysed /\ Owned /\ d \in heldfd
  BY DEF posix_close, FilesIInv
<1>2. fd_list[d] \in FIL /\ FIL \subseteq Objects
  BY <1>1 DEF Owned, Objects
<1>3. /\ obj' = [obj EXCEPT ![fd_list[d]].fs = FALSE]
      /\ fd_list' = [fd_list EXCEPT ![d] = NoStream]
      /\ heldfd' = heldfd \ {d}
      /\ UNCHANGED <<card, alive, state, mounted, fs, helddir>>
  BY DEF posix_close, release_fil
<1>4. /\ obj' \in [Objects -> [fs : BOOLEAN, id : Nat, on : Cards]]
      /\ \A g \in Objects :
            /\ obj'[g].fs = IF g = fd_list[d] THEN FALSE ELSE obj[g].fs
            /\ obj'[g].id = obj[g].id /\ obj'[g].on = obj[g].on
  BY <1>1, <1>2, <1>3 DEF FilesTyped
<1>5. /\ fd_list' \in [Fd -> {NoStream, Console} \cup FIL]
      /\ \A fd \in Fd : fd_list'[fd] = IF fd = d THEN NoStream ELSE fd_list[fd]
  BY <1>1, <1>3 DEF FilesTyped
<1>6. FilesTyped'
  BY <1>1, <1>3, <1>4, <1>5 DEF FilesTyped
<1>7. Numbered' /\ Analysed'
  BY <1>1, <1>3, <1>4 DEF Numbered, Analysed
<1>8. Owned'
  <2>1. heldfd \subseteq Fd /\ Std \subseteq Fd /\ d \notin Std
    BY <1>1 DEF FilesTyped, Std, Fd
  <2> QED BY <1>1, <1>2, <1>3, <1>4, <1>5, <2>1 DEF Owned
<1> QED BY <1>6, <1>7, <1>8 DEF FilesIInv

LEMMA OpendirKeeps ==
    ASSUME FilesIInv, NEW ok \in BOOLEAN, posix_opendir(ok)
    PROVE  FilesIInv'
<1>1. FilesTyped /\ Numbered /\ Analysed /\ Owned
  BY DEF FilesIInv
<1>2. PICK d \in DIRS : /\ Opened(d, ok)
                        /\ helddir' = IF ok THEN helddir \cup {d} ELSE helddir
  BY DEF posix_opendir
<1>3. UNCHANGED <<card, alive, state, mounted, fd_list, heldfd>>
  BY DEF posix_opendir
<1>4. d \in Objects /\ d \notin FIL /\ FIL \subseteq Objects
  BY DEF Objects, DIRS, FIL
<1>5. /\ fs' \in [type : BOOLEAN, id : Nat, on : Cards, next : Nat]
      /\ obj' \in [Objects -> [fs : BOOLEAN, id : Nat, on : Cards]]
      /\ \A g \in Objects : obj'[g].fs = IF g = d THEN ok ELSE obj[g].fs
      /\ Numbered' /\ Analysed'
  BY <1>1, <1>2, <1>3, <1>4, OpenedKeeps
<1>6. FilesTyped'
  BY <1>1, <1>2, <1>3, <1>5 DEF FilesTyped
<1>7. Owned'
  BY <1>1, <1>3, <1>4, <1>5 DEF Owned
<1> QED BY <1>5, <1>6, <1>7 DEF FilesIInv

LEMMA ClosedirKeeps ==
    ASSUME FilesIInv, posix_closedir
    PROVE  FilesIInv'
<1>1. FilesTyped /\ Numbered /\ Analysed /\ Owned
  BY DEF FilesIInv
<1>2. PICK d \in helddir : obj' = release_fil(d) /\ helddir' = helddir \ {d}
  BY DEF posix_closedir
<1>3. UNCHANGED <<card, alive, state, mounted, fs, fd_list, heldfd>>
  BY DEF posix_closedir
<1>4. d \in Objects /\ d \notin FIL /\ FIL \subseteq Objects
  BY <1>1 DEF Objects, DIRS, FIL, FilesTyped
<1>5. /\ obj' \in [Objects -> [fs : BOOLEAN, id : Nat, on : Cards]]
      /\ \A g \in Objects :
            /\ obj'[g].fs = IF g = d THEN FALSE ELSE obj[g].fs
            /\ obj'[g].id = obj[g].id /\ obj'[g].on = obj[g].on
  BY <1>1, <1>2, <1>4 DEF FilesTyped, release_fil
<1>6. FilesTyped'
  BY <1>1, <1>2, <1>3, <1>5 DEF FilesTyped
<1>7. Numbered' /\ Analysed'
  BY <1>1, <1>3, <1>5 DEF Numbered, Analysed
<1>8. Owned'
  BY <1>1, <1>3, <1>4, <1>5 DEF Owned
<1> QED BY <1>6, <1>7, <1>8 DEF FilesIInv

\* The card and the commands: a volume is analysed only after the driver was
\* connected to a card, and the reset in f_mount makes it be analysed again.
LEMMA CardKeeps ==
    ASSUME FilesIInv, Slot \/ cmd_mount \/ cmd_unmount
    PROVE  FilesIInv'
<1> USE FilesAssumption
<1>1. FilesTyped /\ Numbered /\ Analysed /\ Owned
  BY DEF FilesIInv
<1>2. UNCHANGED <<obj, fd_list, heldfd, helddir>>
  BY DEF Slot, cmd_mount, cmd_unmount
<1>3. Owned'
  BY <1>1, <1>2 DEF Owned
<1>4. /\ card' \in Cards /\ alive' \in BOOLEAN
      /\ state' \in {"active", "ready"} /\ mounted' \in BOOLEAN
      /\ fs' \in [type : BOOLEAN, id : Nat, on : Cards, next : Nat]
      /\ fs'.id = fs.id /\ fs'.next = fs.next /\ fs'.on = fs.on
      /\ Analysed'
  <2>1. CASE Slot
    <3>1. card' = 0 \/ (card' = NewCard /\ NewCard <= MaxCards)
      BY <2>1 DEF Slot
    <3>2. NewCard \in Nat
      <4> DEFINE S == {fs.on} \cup {obj[f].on : f \in Objects}
      <4>1. S \in SUBSET (0 .. MaxCards) /\ S # {} /\ MaxCards \in Nat
        BY <1>1 DEF FilesTyped, Cards
      <4> HIDE DEF S
      <4>2. Max(S) \in Nat
        <5>1. Max(S) \in S
          BY <4>1, FilesMax, Zenon
        <5>2. \A x \in 0 .. MaxCards : x \in Nat
          OBVIOUS
        <5> QED BY <4>1, <5>1, <5>2, Zenon
      <4>3. NewCard = 1 + Max(S)
        BY Zenon DEF NewCard, S, Objects
      <4> QED BY <4>2, <4>3
    <3>3. card' \in Cards
      BY <3>1, <3>2 DEF Cards
    <3> QED BY <1>1, <2>1, <3>3 DEF Slot, FilesTyped, Analysed
  <2>2. CASE cmd_mount
    <3>1. CASE mounted
      BY <1>1, <2>2, <3>1 DEF cmd_mount, MountFails, FilesTyped, Analysed
    <3>2. CASE ~ mounted
      <4>1. /\ state' \in {"active", "ready"} /\ alive' \in BOOLEAN
            /\ mounted' = (state' = "ready") /\ card' = card
            /\ fs' = IF mounted' THEN [fs EXCEPT !.type = FALSE] ELSE fs
        BY <2>2, <3>2, Zenon DEF cmd_mount, sdcConnect, f_mount
      <4> QED BY <1>1, <4>1 DEF FilesTyped, Analysed
    <3> QED BY <3>1, <3>2
  <2>3. CASE cmd_unmount
    BY <1>1, <2>3 DEF cmd_unmount, FilesTyped, Analysed
  <2> QED BY <2>1, <2>2, <2>3
<1>5. FilesTyped' /\ Numbered'
  BY <1>1, <1>2, <1>4 DEF FilesTyped, Numbered
<1> QED BY <1>3, <1>4, <1>5 DEF FilesIInv

LEMMA FilesStart ==
    ASSUME FilesInit
    PROVE  FilesIInv
<1> USE FilesAssumption
<1>1. FilesTyped
  <2>1. obj \in [Objects -> [fs : BOOLEAN, id : Nat, on : Cards]]
    BY DEF FilesInit, NoObject, Objects, Cards
  <2>2. fs \in [type : BOOLEAN, id : Nat, on : Cards, next : Nat]
    BY DEF FilesInit, Cards
  <2> QED BY <2>1, <2>2 DEF FilesInit, FilesTyped, Cards
<1>2. Numbered /\ Analysed
  BY DEF FilesInit, Numbered, Analysed, NoObject, Objects
<1>3. Owned
  BY DEF FilesInit, Owned, NoObject, Std, Fd, DIRS
<1> QED BY <1>1, <1>2, <1>3 DEF FilesIInv

LEMMA FilesStep ==
    ASSUME FilesIInv, [FilesNext]_filevars
    PROVE  FilesIInv'
<1>1. CASE Slot \/ cmd_mount \/ cmd_unmount
  BY <1>1, CardKeeps
<1>2. CASE \E ok \in BOOLEAN : posix_open(ok)
  BY <1>2, OpenKeeps
<1>3. CASE \E ok \in BOOLEAN : posix_opendir(ok)
  BY <1>3, OpendirKeeps
<1>4. CASE \E fd \in Fd : posix_close(fd)
  BY <1>4, CloseKeeps
<1>5. CASE posix_closedir
  BY <1>5, ClosedirKeeps
<1>6. CASE UNCHANGED filevars
  BY <1>6 DEF filevars, FilesIInv, FilesTyped, Numbered, Analysed, Owned
<1> QED BY <1>1, <1>2, <1>3, <1>4, <1>5, <1>6 DEF FilesNext

\* For any number of descriptors, insertions of cards and mounts: each
\* descriptor the user of posix.c holds has a file object of its own, and
\* posix_open, posix_close and a card that is pulled lose none of them.
THEOREM DescriptorsCorrect == FilesSpec => []FilesOK
<1>1. FilesIInv => FilesOK
  BY FilesAssumption DEF FilesIInv, FilesTyped, Numbered, Owned, FilesOK,
                         FilesTypeOK, Cards, Objects
<1> QED BY <1>1, FilesStart, FilesStep, PTL DEF FilesSpec

\* For any number of descriptors, insertions of cards and mounts: a file or
\* directory that validate() of ff.c accepts was opened on the volume that is
\* analysed, and that volume is on the card that answers.
THEOREM AccessCorrect == FilesSpec => []NoStaleAccess
<1>1. FilesIInv => NoStaleAccess
  BY DEF FilesIInv, Numbered, Analysed, NoStaleAccess, validate, disk_status,
         Objects
<1> QED BY <1>1, FilesStart, FilesStep, PTL DEF FilesSpec
=============================================================================
