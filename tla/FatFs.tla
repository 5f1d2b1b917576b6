------------------------------- MODULE FatFs -------------------------------
(***************************************************************************)
(* The write side of FatFs (ff.c): the FAT, the root directory of a FAT32  *)
(* volume and open files, above a card whose power may fail at any sector  *)
(* write.  One call is one step, for the volume is locked during a call,   *)
(* and leaves a trail: what was on the card before each of its writes.     *)
(* Reads and writes fail only with the power, so that FR_DISK_ERR and what *)
(* the code does about it are left out.                                    *)
(*                                                                         *)
(* A cluster is one sector of two units of data, a sector of the FAT has   *)
(* FatPer entries and one of a directory a single entry.  Names are in 8.3 *)
(* form and paths have one segment.  A cluster number is its sector, and   *)
(* -1, -2, ... are the sectors of the FAT; the copies of the FAT are never *)
(* read and left out.  Nobody opens a file twice, or removes or renames    *)
(* one that is open (_FS_SHARE is 0).                                      *)
(***************************************************************************)
EXTENDS Integers, Sequences, FiniteSets, SequencesExt

CONSTANTS NFat,         \* n_fatent
          FatPer,       \* entries of the FAT in a sector
          Names,        \* strings
          FILs,         \* file objects
          Units,        \* positive numbers: what a unit of data holds
          Lens,         \* lengths of reads and writes
          Offsets,      \* positions to seek
          MaxSize,      \* bound on the size of a file
          MaxCalls      \* bound on the number of calls

ASSUME FatAssumption == NFat \in Nat /\ NFat > 3 /\ FatPer \in Nat \ {0}

SS        == 2                  \* units in a sector, and in a cluster
Clusters  == 2..(NFat - 1)
Root      == 2                  \* dirbase
Eoc       == NFat               \* 0x0FFFFFFF: not below n_fatent

Entry(n, c, s, d) == [name |-> n, cl |-> c, size |-> s, dir |-> d]
End       == Entry("end", 0, 0, FALSE)      \* the name starts with 0
Deleted   == Entry("deleted", 0, 0, FALSE)  \* or with DDE
Junk      == Entry("junk", 0, 0, FALSE)     \* a sector that is no directory
Dots      == Entry("dots", 0, 0, TRUE)      \* . and .. of a new directory
Zeroes     == <<0, 0>>

VARIABLES vol,      \* the card and the volume above it
          fil,      \* the file objects
          want,     \* of open files: what has been written to them
          kept,     \* of names: what FatFs has reported to be on the card
          lost,     \* the power: "no", "yes", or "bad" in a critical section
          calls     \* calls made

fatvars == <<vol, fil, want, kept, lost, calls>>

NoFil == [open |-> FALSE, name |-> "", w |-> FALSE, err |-> FALSE,
          written |-> FALSE, dirty |-> FALSE, sclust |-> 0, clust |-> 0,
          fptr |-> 0, fsize |-> 0, dsect |-> 0, buf |-> Zeroes, dir |-> 0]

\* What is known of a name: "gone", "dir", "file" with its data, "unsure".
Is(st, d) == [st |-> st, data |-> d]
Unsure    == Is("unsure", <<>>)

FreeOf(img) == {c \in Clusters : img.fat[c] = 0}

\* The end of chk_mounted.
Mounted(img) ==
    [card |-> img, seen |-> img, sect |-> 0, dirty |-> FALSE,
     free |-> Cardinality(FreeOf(img)), last |-> Root, fsi |-> FALSE,
     crit |-> {}, res |-> "OK", ret |-> 0, fp |-> NoFil, trail |-> <<>>,
     out |-> <<>>]

\* An empty card.
FatInit ==
    /\ vol = Mounted([fat  |-> [c \in Clusters |-> IF c = Root THEN Eoc ELSE 0],
                      tab  |-> [c \in Clusters |-> IF c = Root THEN End ELSE Junk],
                      data |-> [c \in Clusters |-> Zeroes]])
    /\ fil = [f \in FILs |-> NoFil]
    /\ want = [f \in FILs |-> <<>>]
    /\ kept = [n \in Names |-> Is("gone", <<>>)]
    /\ lost = "no"
    /\ calls = 0

-----------------------------------------------------------------------------
(* The card and the window.  seen is the card with the window in front of  *)
(* it; they differ in sector sect at most.  res is the outcome of the call *)
(* so far, ret the value of the last function, fp the file object, out the *)
(* data read.                                                              *)

Ok(v)        == v.res = "OK"
Fail(v, r)   == [v EXCEPT !.res = r]
Return(v, x) == [v EXCEPT !.ret = x]

disk_write(v, img) ==
    [v EXCEPT !.card = img, !.trail = Append(@, [card |-> v.card, crit |-> v.crit])]

\* Sector 0 only writes the window back.
move_window(v, s) ==
    LET w == IF v.dirty THEN disk_write(v, v.seen) ELSE v
    IN CASE v.sect = s -> v
         [] s = 0 -> [w EXCEPT !.dirty = FALSE]
         [] OTHER -> [w EXCEPT !.dirty = FALSE, !.sect = s, !.seen = w.card]

\* FSInfo, which holds hints only, is written through the window.
sync(v) ==
    LET w == move_window(v, 0)
        u == disk_write(w, w.card)
    IN IF w.fsi THEN [u EXCEPT !.sect = 0, !.seen = u.card, !.fsi = FALSE] ELSE w

\* The directory sector in the window becomes e.
PutEntry(v, e) == [v EXCEPT !.seen.tab[v.sect] = e, !.dirty = TRUE]

\* A data sector is written past the window.
WriteData(v, c, d) ==
    LET w == disk_write(v, [v.card EXCEPT !.data[c] = d, !.tab[c] = Junk])
    IN IF v.sect # c
       THEN [w EXCEPT !.seen.data[c] = d, !.seen.tab[c] = Junk] ELSE w

-----------------------------------------------------------------------------
(* The FAT. *)

FatSect(c) == -1 - (c \div FatPer)

get_fat(v, c) ==
    LET w == move_window(v, FatSect(c))
    IN IF c \in Clusters THEN Return(w, w.seen.fat[c]) ELSE Return(v, 1)

put_fat(v, c, x) ==
    LET w == move_window(v, FatSect(c))
    IN [w EXCEPT !.seen.fat[c] = x, !.dirty = TRUE]

Count(v, d) == [v EXCEPT !.free = @ + d, !.fsi = TRUE]

RECURSIVE FreeFrom(_, _), SearchFree(_, _, _)

FreeFrom(v, c) ==
    LET w == get_fat(v, c)
    IN CASE c >= NFat -> v
         [] w.ret = 0 -> w
         [] w.ret = 1 -> Fail(w, "INT_ERR")
         [] OTHER     -> FreeFrom(Count(put_fat(w, c, 0), 1), w.ret)

remove_chain(v, c) == IF c \in Clusters THEN FreeFrom(v, c) ELSE Fail(v, "INT_ERR")

\* The search goes on after n, in a circle that ends at scl; 0 when it fails.
SearchFree(v, scl, n) ==
    LET wrap == n + 1 >= NFat
        ncl  == IF wrap THEN 2 ELSE n + 1
        w    == get_fat(v, ncl)
    IN CASE wrap /\ 2 > scl -> Return(v, 0)
         [] w.ret = 0  -> Return(w, ncl)
         [] ncl = scl  -> Return(w, 0)
         [] OTHER      -> SearchFree(w, scl, ncl)

\* Mutant: the new cluster is linked before it is marked.
Linked_First(v, c, ncl) == put_fat(IF c = 0 THEN v ELSE put_fat(v, c, ncl), ncl, Eoc)

\* The new cluster is marked as the last, then linked to the chain that ends
\* in c.
Linked(v, c, ncl) ==
    LET w == put_fat(v, ncl, Eoc)
    IN IF c = 0 THEN w ELSE put_fat(w, c, ncl)

\* The free cluster s.ret, if one was found, follows c from now on.
Claimed(s, c) ==
    IF s.ret = 0 THEN s
    ELSE [Count(Linked(s, c, s.ret), -1) EXCEPT !.last = s.ret, !.ret = s.ret]

\* ret is the new cluster, or the one that follows c already, or 0 when the
\* card is full.
create_chain(v, c) ==
    LET first   == IF v.last \in 1..(NFat - 1) THEN v.last ELSE 1
        Next(g) == CASE g.ret < 2 -> Fail(g, "INT_ERR")
                     [] g.ret < NFat -> g
                     [] OTHER -> Claimed(SearchFree(g, c, c), c)
    IN IF c = 0 THEN Claimed(SearchFree(v, first, first), 0) ELSE Next(get_fat(v, c))

\* For the callers to whom a full card is an error.
Allocated(v, c) ==
    LET Denied(a) == IF Ok(a) /\ a.ret = 0 THEN Fail(a, "DENIED") ELSE a
    IN Denied(create_chain(v, c))

-----------------------------------------------------------------------------
(* The directory.  A position is the cluster of the entry. *)

RECURSIVE FindFrom(_, _, _), RegisterFrom(_, _, _), SeekFrom(_, _, _)

FindFrom(v, n, c) ==
    LET w == move_window(v, c)
        g == get_fat(w, c)
    IN CASE w.seen.tab[c].name = n -> Return(w, c)
         [] w.seen.tab[c].name = End.name -> Fail(w, "NO_FILE")
         [] g.ret <= 1 -> Fail(g, "INT_ERR")
         [] g.ret >= NFat -> Fail(g, "NO_FILE")
         [] OTHER -> FindFrom(g, n, g.ret)

dir_find(v, n) == FindFrom(v, n, Root)

\* The chain is followed from the root to the entry at p.
SeekFrom(v, p, c) ==
    LET g == get_fat(v, c)
    IN IF c = p THEN v ELSE SeekFrom(g, p, g.ret)

dir_sdi(v, p) == SeekFrom(v, p, Root)

\* The end of dir_next: the table grows by a cluster, which is cleared after
\* it has been linked.
Stretch(v, c) ==
    LET Cleared(f, new) ==
            LET n == [f EXCEPT !.crit = @ \cup {"stretch"}, !.sect = new, !.seen = f.card]
            IN [move_window(PutEntry(n, End), 0) EXCEPT !.ret = new, !.crit = @ \ {"stretch"}]
        Grown(a) == IF Ok(a) THEN Cleared(move_window(a, 0), a.ret) ELSE a
    IN Grown(Allocated(v, c))

RegisterFrom(v, n, c) ==
    LET Goes(s) == IF Ok(s) THEN RegisterFrom(s, n, s.ret) ELSE s
        Next(g) == CASE g.ret <= 1 -> Fail(g, "INT_ERR")
                     [] g.ret >= NFat -> Goes(Stretch(g, c))
                     [] OTHER -> Goes(g)
        At(w)   == IF w.seen.tab[c].name \in {Deleted.name, End.name}
                   THEN Return(PutEntry(w, Entry(n, 0, 0, FALSE)), c)
                   ELSE Next(get_fat(w, c))
    IN At(move_window(v, c))

dir_register(v, n) == RegisterFrom(v, n, Root)

dir_remove(v, p) ==
    LET w == move_window(dir_sdi(v, p), p)
    IN PutEntry(w, Deleted)

-----------------------------------------------------------------------------
(* Open files. *)

Abort(v) == IF Ok(v) THEN v ELSE [v EXCEPT !.fp.err = TRUE]

\* The sector in the buffer of the file is written if it has changed.
WriteBack(v) ==
    IF ~v.fp.dirty THEN v
    ELSE [WriteData(v, v.fp.dsect, v.fp.buf) EXCEPT !.fp.dirty = FALSE]

\* Sector c comes into the buffer of the file; it is read if told so.
Load(v, c, read) ==
    [v EXCEPT !.fp.dsect = c,
              !.fp.buf = IF read /\ v.fp.dsect # c THEN v.card.data[c] ELSE @]

\* f_open empties the file at p.
Emptied(v, p) ==
    LET e == v.seen.tab[p]
        w == PutEntry(v, [e EXCEPT !.cl = 0, !.size = 0])
    IN IF e.cl = 0 THEN w
       ELSE move_window([remove_chain(w, e.cl) EXCEPT !.last = e.cl - 1], p)

f_open(v, n, mode) ==
    LET Opened(t, p, new) ==
            [t EXCEPT !.fp = [NoFil EXCEPT
                !.open = TRUE, !.name = n, !.w = mode # "READ", !.written = new,
                !.sclust = t.seen.tab[p].cl, !.fsize = t.seen.tab[p].size, !.dir = p]]
        Created(r) == IF Ok(r) THEN Opened(Emptied(r, r.ret), r.ret, TRUE) ELSE r
        Found(d) ==
            CASE d.seen.tab[d.ret].dir ->
                    Fail(d, IF mode = "READ" THEN "NO_FILE" ELSE "DENIED")
              [] mode = "CREATE_NEW"    -> Fail(d, "EXIST")
              [] mode = "CREATE_ALWAYS" -> Created(d)
              [] OTHER -> Opened(d, d.ret, FALSE)
        Looked(d) ==
            CASE d.res = "NO_FILE" /\ mode # "READ" ->
                    Created(dir_register([d EXCEPT !.res = "OK"], n))
              [] Ok(d) -> Found(d)
              [] OTHER -> d
    IN Looked(dir_find(v, n))

RECURSIVE WriteUnits(_, _), ReadUnits(_, _), Follow(_, _)

\* The cluster f_write goes on with at a cluster boundary; 0: the card is full.
NextForWrite(v) ==
    LET First(g) == IF Ok(g) THEN [g EXCEPT !.fp.sclust = g.ret] ELSE g
    IN CASE v.fp.fptr # 0   -> create_chain(v, v.fp.clust)
         [] v.fp.sclust # 0 -> Return(v, v.fp.sclust)
         [] OTHER           -> First(create_chain(v, 0))

\* The loop of f_write: d is what is left to be written.  A whole sector goes
\* to the card, less into the buffer.
WriteUnits(v, d) ==
    LET at == v.fp.fptr % SS
        m  == IF SS - at < Len(d) THEN SS - at ELSE Len(d)
        Put(buf)    == [i \in 1..SS |-> IF i - at \in 1..m THEN d[i - at] ELSE buf[i]]
        Buffered(u) == WriteUnits([u EXCEPT !.fp.fptr = @ + m, !.fp.dirty = TRUE,
                                            !.fp.buf = Put(@)],
                                  SubSeq(d, m + 1, Len(d)))
        Whole(p, c) == WriteUnits([p EXCEPT !.fp.fptr = @ + SS,
                                            !.fp.buf = IF p.fp.dsect = c
                                                       THEN SubSeq(d, 1, SS) ELSE @],
                                  SubSeq(d, SS + 1, Len(d)))
        Into(b, c)  == IF Len(d) >= SS THEN Whole(WriteData(b, c, SubSeq(d, 1, SS)), c)
                       ELSE Buffered(Load(b, c, v.fp.fptr < v.fp.fsize))
        Next(g)     == IF Ok(g) /\ g.ret # 0
                       THEN Into(WriteBack([g EXCEPT !.fp.clust = g.ret]), g.ret) ELSE g
    IN CASE d = <<>> -> v
         [] at = 0   -> Next(NextForWrite(v))
         [] OTHER    -> Buffered(v)

f_write(v, d) ==
    LET Sized(w) == IF Ok(w)
                    THEN [w EXCEPT !.fp.written = TRUE,
                                   !.fp.fsize = IF w.fp.fptr > @ THEN w.fp.fptr ELSE @]
                    ELSE w
    IN CASE v.fp.err  -> Fail(v, "INT_ERR")
         [] ~v.fp.w   -> Fail(v, "DENIED")
         [] OTHER     -> Sized(Abort(WriteUnits(v, d)))

\* Mutant: what the buffer holds for the card is forgotten.
ReadDirect_Card(v, s) == v.card.data[s]

\* A whole sector is read past the buffer, and replaced by what the buffer
\* still has to write to it.
ReadDirect(v, s) ==
    IF v.fp.dirty /\ v.fp.dsect = s THEN v.fp.buf ELSE v.card.data[s]

\* The loop of f_read: n units are left to be read.  A whole sector comes from
\* the card, less from the buffer.
ReadUnits(v, n) ==
    LET at == v.fp.fptr % SS
        m  == IF SS - at < n THEN SS - at ELSE n
        Got(u, d)   == ReadUnits([u EXCEPT !.fp.fptr = @ + Len(d), !.out = @ \o d],
                                 n - Len(d))
        Buffered(u) == Got(u, SubSeq(u.fp.buf, at + 1, at + m))
        From(c, s)  == IF n >= SS THEN Got(c, ReadDirect(c, s))
                       ELSE Buffered(Load(IF v.fp.dsect = s THEN c ELSE WriteBack(c), s, TRUE))
        Next(g)     == IF g.ret \in Clusters THEN From([g EXCEPT !.fp.clust = g.ret], g.ret)
                       ELSE Fail(g, "INT_ERR")
    IN CASE n = 0  -> v
         [] at # 0 -> Buffered(v)
         [] v.fp.fptr = 0 -> Next(Return(v, v.fp.sclust))
         [] OTHER  -> Next(get_fat(v, v.fp.clust))

f_read(v, n) ==
    LET left == v.fp.fsize - v.fp.fptr
    IN IF v.fp.err THEN Fail(v, "INT_ERR")
       ELSE Abort(ReadUnits(v, IF n < left THEN n ELSE left))

\* The loop of f_lseek; ret is what is left of ofs within the last cluster.
Follow(v, ofs) ==
    LET Next(g) ==
            CASE ~Ok(g) -> g
              [] v.fp.w /\ g.ret = 0 -> Return(g, SS)
              [] g.ret \notin Clusters -> Fail(g, "INT_ERR")
              [] OTHER -> Follow([g EXCEPT !.fp.clust = g.ret, !.fp.fptr = @ + SS], ofs - SS)
    IN CASE ofs <= SS -> Return(v, ofs)
         [] v.fp.w    -> Next(create_chain(v, v.fp.clust))
         [] OTHER     -> Next(get_fat(v, v.fp.clust))

\* The seek starts at the current cluster or at the first, which is allocated
\* if there is none.
SeekStart(v, near) ==
    LET From(h) == [h EXCEPT !.fp.fptr = 0, !.fp.sclust = h.ret, !.fp.clust = h.ret]
    IN CASE near -> [v EXCEPT !.fp.fptr = ((@ - 1) \div SS) * SS]
         [] v.fp.sclust = 0 -> From(create_chain(v, 0))
         [] OTHER -> From(Return(v, v.fp.sclust))

f_lseek(v, to) ==
    LET ofs  == IF to > v.fp.fsize /\ ~v.fp.w THEN v.fp.fsize ELSE to
        near == v.fp.fptr > 0 /\ (ofs - 1) \div SS >= (v.fp.fptr - 1) \div SS
        Loaded(p)  == IF p.fp.fptr % SS # 0 /\ p.fp.clust # p.fp.dsect
                      THEN Load(WriteBack(p), p.fp.clust, TRUE) ELSE p
        Reached(t) == IF Ok(t) THEN Loaded([t EXCEPT !.fp.fptr = @ + t.ret]) ELSE t
        Goes(s)    == IF Ok(s) /\ s.fp.clust # 0    \* else the card is full
                      THEN Reached(Follow(s, ofs - s.fp.fptr)) ELSE s
        Sized(u)   == CASE ~Ok(u) -> Abort(u)
                        [] u.fp.fptr > u.fp.fsize ->
                              [u EXCEPT !.fp.fsize = u.fp.fptr, !.fp.written = TRUE]
                        [] OTHER -> u
    IN CASE v.fp.err -> Fail(v, "INT_ERR")
         [] ofs = 0  -> [v EXCEPT !.fp.fptr = 0]
         [] OTHER    -> Sized(Goes(SeekStart(v, near)))

\* Mutant: the entry is left in the window.
f_sync_NoFlush(v) ==
    LET m == move_window(WriteBack(v), v.fp.dir)
        e == [m.seen.tab[v.fp.dir] EXCEPT !.size = v.fp.fsize, !.cl = v.fp.sclust]
    IN IF v.fp.written
       THEN [PutEntry(m, e) EXCEPT !.fp.written = FALSE, !.crit = @ \ {v.fp.name}] ELSE v

f_sync(v) ==
    LET m == move_window(WriteBack(v), v.fp.dir)
        e == [m.seen.tab[v.fp.dir] EXCEPT !.size = v.fp.fsize, !.cl = v.fp.sclust]
    IN IF v.fp.written
       THEN [sync(PutEntry(m, e)) EXCEPT !.fp.written = FALSE, !.crit = @ \ {v.fp.name}]
       ELSE v

f_close(v) == [f_sync(v) EXCEPT !.fp = NoFil]

\* The clusters go at once and the entry with the next f_sync.
f_truncate(v) ==
    LET fp == v.fp
        z  == [v EXCEPT !.fp.fsize = fp.fptr, !.fp.written = TRUE, !.crit = @ \cup {fp.name}]
        g  == get_fat(z, fp.clust)
        t  == CASE fp.fptr = 0 -> [remove_chain(z, fp.sclust) EXCEPT !.fp.sclust = 0]
                [] g.ret < NFat -> remove_chain(put_fat(g, fp.clust, Eoc), g.ret)
                [] OTHER -> g
    IN CASE fp.err -> Fail(v, "INT_ERR")
         [] ~fp.w  -> Fail(v, "DENIED")
         [] fp.fsize > fp.fptr -> Abort(t)
         [] OTHER  -> v

-----------------------------------------------------------------------------
(* Calls with a path. *)

\* A directory is looked at before it goes; paths of one segment leave it
\* empty.
f_unlink(v, n) ==
    LET Gone(d, e) ==
            LET x == dir_remove(IF e.dir THEN move_window(d, e.cl) ELSE d, d.ret)
            IN sync(IF e.cl = 0 THEN x ELSE remove_chain(x, e.cl))
        Looked(d) == IF Ok(d) THEN Gone(d, d.seen.tab[d.ret]) ELSE d
    IN Looked(dir_find(v, n))

\* The new table is written through the window, which is cleared behind it
\* for the sectors to follow.
f_mkdir(v, n) ==
    LET Entered(r, c) ==
            IF Ok(r) THEN sync(PutEntry(r, Entry(n, c, 0, TRUE)))
            ELSE Fail(remove_chain([r EXCEPT !.res = "OK"], c), r.res)
        Made(f, c) ==
            LET t == move_window(PutEntry([f EXCEPT !.sect = c, !.seen = f.card], Dots), 0)
            IN Entered(dir_register([t EXCEPT !.seen.tab[c] = End], n), c)
        Taken(a)   == IF Ok(a) THEN Made(move_window(a, 0), a.ret) ELSE a
        Looked(d)  == CASE Ok(d) -> Fail(d, "EXIST")
                        [] d.res = "NO_FILE" -> Taken(Allocated([d EXCEPT !.res = "OK"], 0))
                        [] OTHER -> d
    IN Looked(dir_find(v, n))

\* Both names stay in the root directory.
f_rename(v, n, m) ==
    LET Moved(r, e, p) ==
            [IF Ok(r) THEN sync(dir_remove(PutEntry(r, [e EXCEPT !.name = m]), p)) ELSE r
                EXCEPT !.crit = @ \ {"rename"}]
        Free(d, e, p) ==
            CASE Ok(d) -> Fail(d, "EXIST")
              [] d.res = "NO_FILE" ->
                    Moved(dir_register([d EXCEPT !.res = "OK", !.crit = @ \cup {"rename"}], m),
                          e, p)
              [] OTHER -> d
        Looked(o) == IF Ok(o) THEN Free(dir_find(o, m), o.seen.tab[o.ret], o.ret) ELSE o
    IN Looked(dir_find(v, n))

-----------------------------------------------------------------------------
(* The calls as steps. *)

OpenNames == {fil[f].name : f \in {g \in FILs : fil[g].open}}

\* The power is lost with x on the card; what is known of the names at risk is
\* not known any more.
Lost(x, risk) ==
    /\ lost' = IF x.crit = {} THEN "yes" ELSE "bad"
    /\ vol' = Mounted(x.card)
    /\ fil' = [f \in FILs |-> NoFil]
    /\ want' = [f \in FILs |-> <<>>]
    /\ kept' = [n \in Names |-> IF n \in risk THEN Unsure ELSE kept[n]]
    /\ calls' = MaxCalls

\* The call ends as v, with file objects fs, contents w and knowledge k, or
\* the power is lost before one of its writes.
Ends(v, fs, w, k, risk) ==
    /\ calls < MaxCalls
    /\ \/ /\ vol' = [v EXCEPT !.res = "OK", !.ret = 0, !.fp = NoFil, !.trail = <<>>,
                             !.out = <<>>]
          /\ fil' = fs /\ want' = w /\ kept' = k
          /\ calls' = calls + 1
          /\ UNCHANGED lost
       \/ \E i \in DOMAIN v.trail : Lost(v.trail[i], risk)

On(f) == [vol EXCEPT !.fp = fil[f]]

\* The data of the file at p.
DataAt(img, p) ==
    LET e  == img.tab[p]
        Cluster[i \in Nat] == IF i = 0 THEN e.cl ELSE img.fat[Cluster[i - 1]]
    IN [i \in 1..e.size |-> img.data[Cluster[(i - 1) \div SS]][1 + ((i - 1) % SS)]]

CallOpen(f, name, mode) ==
    LET Opened(v) ==
            Ends(v, [fil EXCEPT ![f] = v.fp],
                 [want EXCEPT ![f] = IF v.fp.open THEN DataAt(v.seen, v.fp.dir) ELSE <<>>],
                 [kept EXCEPT ![name] = IF v.fp.open /\ v.fp.written THEN Unsure ELSE @],
                 IF mode = "READ" THEN {} ELSE {name})
    IN /\ ~fil[f].open /\ name \notin OpenNames
       /\ Opened(f_open(vol, name, mode))

\* A call on the open file f that ends as v, with contents w.  What was known
\* of the file is not true any more once it has been changed.
Changes(f, v, w) ==
    /\ fil[f].open
    /\ LET name == fil[f].name
       IN Ends(v, [fil EXCEPT ![f] = v.fp], [want EXCEPT ![f] = w],
               [kept EXCEPT ![name] =
                   CASE v.fp.open /\ v.fp.written -> Unsure
                     [] fil[f].written -> Is("file", want[f])
                     [] OTHER -> @],
               IF fil[f].w THEN {name} ELSE {})

CallWrite(f, len, x) ==
    LET a == fil[f].fptr
        Wrote(v, b) ==
            Changes(f, v, [i \in 1..(IF b > Len(want[f]) THEN b ELSE Len(want[f])) |->
                               IF i \in (a + 1)..b /\ fil[f].w THEN x ELSE want[f][i]])
        Write(v) == Wrote(v, v.fp.fptr)
    IN /\ a + len <= MaxSize
       /\ Write(f_write(On(f), [i \in 1..len |-> x]))

CallRead(f, len) == Changes(f, f_read(On(f), len), want[f])

\* What lies between the old end of the file and the new one is left open.
CallSeek(f, to) ==
    LET Sought(v) == Changes(f, v, [i \in 1..v.fp.fsize |->
                                       IF i <= Len(want[f]) THEN want[f][i] ELSE 0])
    IN Sought(f_lseek(On(f), to))

CallSync(f) == Changes(f, f_sync(On(f)), want[f])

CallClose(f) == Changes(f, f_close(On(f)), <<>>)

\* f_truncate leaves FA__DIRTY set although the sector in the buffer may be one
\* of those it frees.
CallTruncate(f) ==
    LET v == f_truncate(On(f))
    IN Changes(f, v, SubSeq(want[f], 1, v.fp.fsize))

\* A call with a path that ends as v, with knowledge k.
Paths(names, v, k) ==
    /\ names \cap OpenNames = {}
    /\ Ends(v, fil, want, IF Ok(v) THEN k ELSE kept, names)

CallUnlink(name) ==
    Paths({name}, f_unlink(vol, name), [kept EXCEPT ![name] = Is("gone", <<>>)])

CallMkdir(name) ==
    Paths({name}, f_mkdir(vol, name), [kept EXCEPT ![name] = Is("dir", <<>>)])

CallRename(old, new) ==
    /\ old # new
    /\ Paths({old, new}, f_rename(vol, old, new),
             [kept EXCEPT ![new] = kept[old], ![old] = Is("gone", <<>>)])

PowerLoss == Lost(vol, {})

\* The volume has to be checked before it is used again.
Stopped == lost # "no" /\ UNCHANGED fatvars

Modes == {"READ", "OPEN_ALWAYS", "CREATE_ALWAYS", "CREATE_NEW"}

CallOnFile(f) ==
    \/ \E name \in Names, mode \in Modes : CallOpen(f, name, mode)
    \/ \E len \in Lens : CallRead(f, len) \/ \E x \in Units : CallWrite(f, len, x)
    \/ \E to \in Offsets : CallSeek(f, to)
    \/ CallSync(f) \/ CallClose(f) \/ CallTruncate(f)

CallOnPath ==
    \E name \in Names :
        \/ CallUnlink(name) \/ CallMkdir(name)
        \/ \E new \in Names : CallRename(name, new)

FatNext ==
    \/ /\ lost = "no"
       /\ CallOnPath \/ PowerLoss \/ \E f \in FILs : CallOnFile(f)
    \/ Stopped

FatSpec == FatInit /\ [][FatNext]_fatvars

-----------------------------------------------------------------------------
(* Properties. *)

\* The chain that starts at c, with the value that ends it.
ChainTo(img, c) ==
    LET Next[s \in Seq(Nat)] ==
            IF Last(s) \in Clusters /\ Len(s) <= NFat
            THEN Next[Append(s, img.fat[Last(s)])] ELSE s
    IN Next[<<c>>]

Proper(ch)  == Last(ch) = Eoc
Members(ch) == ToSet(Front(ch))

\* Where the entries in use are.
Live(img) == {p \in Members(ChainTo(img, Root)) : img.tab[p].name \notin {Deleted.name, End.name}}

Holds(img, e) == IF e.cl = 0 THEN {} ELSE Members(ChainTo(img, e.cl))

FatTypeOK ==
    /\ vol.sect \in {FatSect(c) : c \in Clusters} \cup {0} \cup Clusters
    /\ vol.free \in 0..NFat /\ vol.last \in 0..NFat
    /\ \A f \in FILs : fil[f].fptr \in 0..MaxSize /\ fil[f].fsize = Len(want[f])
    /\ lost \in {"no", "yes", "bad"}

\* Whenever the power fails, what is on the card is a sound volume: every
\* chain that an entry starts is whole, long enough for the file and shared
\* with nobody.  Only three sections are critical: f_rename, f_truncate up to
\* the next f_sync, and dir_next between the link to a new cluster of the
\* directory and its clearing.  The order of the writes is that of the moves
\* of one window.
CardSound ==
    LET img  == vol.card
        live == Live(img)
    IN vol.crit = {} /\ lost # "bad" =>
         /\ Proper(ChainTo(img, Root))
         /\ \A p \in live :
              LET e == img.tab[p] IN
              /\ e.name \in Names
              /\ e.cl # 0 => Proper(ChainTo(img, e.cl))
              /\ e.size <= SS * Cardinality(Holds(img, e))
              /\ e.dir => img.tab[e.cl] = Dots
              /\ Holds(img, e) \cap Members(ChainTo(img, Root)) = {}
         /\ \A p, q \in live : p # q =>
              /\ img.tab[p].name # img.tab[q].name
              /\ Holds(img, img.tab[p]) \cap Holds(img, img.tab[q]) = {}

\* What f_sync, f_close, f_unlink, f_mkdir and f_rename have reported done is
\* on the card and stays there, whatever is done to other names and whenever
\* the power fails then.  f_truncate is the exception when it frees the sector
\* that waits in the buffer: the buffer is written later, over what has taken
\* that cluster.
SyncedSurvives ==
    lost # "bad" => \A n \in Names :
        LET img == vol.card
            at  == {p \in Live(img) : img.tab[p].name = n}
        IN CASE kept[n].st = "unsure" -> TRUE
             [] kept[n].st = "gone"   -> at = {}
             [] kept[n].st = "dir"    -> \E p \in at : img.tab[p].dir
             [] OTHER -> \E p \in at :
                    /\ ~img.tab[p].dir /\ img.tab[p].size = Len(kept[n].data)
                    /\ \A i \in DOMAIN kept[n].data :
                         kept[n].data[i] \in {0, DataAt(img, p)[i]}

\* A program reads what it wrote: at any time, from where an open file stands
\* and for any length, f_read returns what was last written there up to the end
\* of the file, from the buffer, from the card or from both.
ReadsBack ==
    \A f \in {g \in FILs : fil[g].open} : \A n \in 1..MaxSize :
        LET v    == f_read(On(f), n)
            at   == fil[f].fptr
            left == Len(want[f]) - at
        IN /\ Ok(v) /\ Len(v.out) = IF n < left THEN n ELSE left
           /\ \A i \in DOMAIN v.out : want[f][at + i] \in {0, v.out[i]}

\* As long as the power stays on no cluster is lost: what is not free belongs
\* to the directory, to an open file or to one that is not open, and the count
\* of the free clusters is right.
ClustersAccounted ==
    lost = "no" =>
        LET img   == vol.seen
            names == {p \in Live(img) : img.tab[p].name \notin OpenNames}
        IN /\ vol.free = Cardinality(FreeOf(img))
           /\ Clusters \ FreeOf(img) =
                 Members(ChainTo(img, Root))
                 \cup UNION {Holds(img, img.tab[p]) : p \in names}
                 \cup UNION {Members(ChainTo(img, fil[f].sclust)) : f \in {g \in FILs : fil[g].sclust # 0}}

\* The volume is sound, on the card at every write and in use.
VolumeSound == FatTypeOK /\ CardSound /\ ClustersAccounted
=============================================================================
