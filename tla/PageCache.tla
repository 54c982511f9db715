----------------------------- MODULE PageCache -----------------------------
(***************************************************************************)
(* The page cache of lib/cache.cc (struct File, class LRUCache) driven by  *)
(* the FUSE handlers read, write, truncate, unlink, release, utime, chmod *)
(* and chown of lib/gdfs.cc, with the permission check GDrive::file_access *)
(* each of them makes.                                                     *)
(*                                                                         *)
(* A byte is represented by where it came from: RemoteByte(v, i) is byte i *)
(* of version v of the Drive file, WrittenByte(i) is what the user wrote   *)
(* at offset i, Zero is a byte cleared by memset and Junk one nobody       *)
(* wrote (an uninitialised or overrun buffer).  A byte copied to the wrong *)
(* offset, or read from a buffer that never received it, therefore shows  *)
(* up in the data a read returns.                                          *)
(*                                                                         *)
(* A buffer is a sequence of bytes, indexed from 0 by At.  A Page is        *)
(* [start, stop, size] as in struct Page, with its memory: the allocation  *)
(* alloc it points into, at index off (Page(buf + k, ...) gives off = k).  *)
(* Undefined behaviour is recorded in ub and the step completes as the     *)
(* build normally would; a call that never returns sets halt.              *)
(***************************************************************************)
EXTENDS Integers, Sequences, FiniteSets, SequencesExt, FiniteSetsExt

CONSTANTS
    Files,     \* file ids
    MaxSize,   \* offsets are 0 .. MaxSize-1
    MaxOps,    \* bound on FUSE calls and remote changes
    MaxVer,    \* bound on remote versions
    CacheMax,  \* GDFS_CACHE_MAX_SIZE
    MaxNetFail, \* bound on failed downloads
    InitLens,  \* lengths a Drive file may have when the model starts
    Callers,   \* the [uid, gid] of the processes calling into the mount
    MountUser, \* GDrive's uid and gid: the owner of every listed file
    Modes      \* the permission bits chmod is given

ASSUME MountUser \in Callers

Offsets == 0..(MaxSize - 1)

(* Permission bits (sys/stat.h) and GDFS_DEF_FILE_MODE, the mode          *)
(* get_children gives a listed file.                                       *)
S_IRUSR == 256
S_IWUSR == 128
S_IRGRP == 32
S_IWGRP == 16
S_IROTH == 4
S_IWOTH == 2
GDFS_DEF_FILE_MODE == S_IRUSR + S_IWUSR + S_IRGRP + S_IROTH

HasBit(mode, bit) == (mode \div bit) % 2 = 1

(* GDrive::file_access(uid, gid, R_OK or W_OK, entry): the owner's bit    *)
(* for the owner and for uid 0, else the group's bit for the group and     *)
(* for gid 0, else the others' bit.  A caller that fails the owner test    *)
(* still passes with the group or others bit.                              *)
FileAccess(c, e, mask) ==
    LET bits == IF mask = "R" THEN <<S_IRUSR, S_IRGRP, S_IROTH>>
                ELSE <<S_IWUSR, S_IWGRP, S_IWOTH>>
    IN \/ (c.uid = e.uid \/ c.uid = 0) /\ HasBit(e.mode, bits[1])
       \/ (c.gid = e.gid \/ c.gid = 0) /\ HasBit(e.mode, bits[2])
       \/ HasBit(e.mode, bits[3])
Zero == 0
Junk == -1
RemoteByte(v, i) == v * MaxSize + i + 1
WrittenByte(i) == -(i + 2)

(* b + k, read: a byte outside the allocation is Junk. *)
InBuf(b, k) == k \in 0..(Len(b) - 1)
At(b, k) == IF InBuf(b, k) THEN b[k + 1] ELSE Junk

(* Page(buf + k, start, stop) *)
NewPage(buf, k, start, stop) ==
    [start |-> start, stop |-> stop, size |-> stop - start + 1,
     alloc |-> buf, off |-> k]

PByte(p, x) == At(p.alloc, p.off + x - p.start)

(* memcpy(p->mem + d, src + k, n): the page's allocation after the copy   *)
(* and the undefined behaviour of the copy.                                *)
Memcpy(p, d, src, k, n) ==
    [page |-> [p EXCEPT !.alloc =
                 [i \in DOMAIN p.alloc |->
                    IF i - 1 - p.off - d \in 0..(n - 1)
                    THEN At(src, k + i - 1 - p.off - d) ELSE p.alloc[i]]],
     ub   |-> (IF \E j \in 0..(n - 1) : ~InBuf(p.alloc, p.off + d + j)
               THEN {"write_oob"} ELSE {})
              \cup (IF \E j \in 0..(n - 1) : ~InBuf(src, k + j)
                    THEN {"read_oob"} ELSE {})]

(* delete p: delete[] mem is an invalid free unless mem starts its block. *)
FreeUB(P) == IF \E p \in P : p.off # 0 THEN {"bad_free"} ELSE {}

EmptyFile == [pages |-> {}, size |-> 0, mtime |-> 0]

(* std::set<Page*, page_cmp>: ordered by start, and emplace is a no-op   *)
(* when a page with the same start is present.                            *)
Sorted(P) == SetToSortSeq(P, LAMBDA a, b : a.start < b.start)
Emplace(P, p) == IF \E q \in P : q.start = p.start THEN P ELSE P \cup {p}
PagesSize(P) == MapThenSumSet(LAMBDA p : p.size, P)

(* File::delete_pages *)
DeletePages(f, now) == [pages |-> {}, size |-> 0, mtime |-> now]

(* The walk of File::put over the pages in start order.  S holds the      *)
(* pages as updated so far, start_ the first byte not yet placed.  The    *)
(* result names the page put returns and how it changes File::size.       *)
RECURSIVE PutWalk(_, _, _, _, _, _, _)
PutWalk(S, i, buf, start, stop, start_, ub) ==
    IF i > Len(S)
    THEN [S |-> S, p |-> NewPage(buf, start_ - start, start_, stop),
          grow |-> "add", ub |-> ub]
    ELSE LET p == S[i] IN
      IF p.stop < start_ THEN PutWalk(S, i + 1, buf, start, stop, start_, ub)
      ELSE IF p.start > stop
      THEN [S |-> S, p |-> NewPage(buf, 0, start, stop), grow |-> "set", ub |-> ub]
      ELSE LET last == p.stop >= stop
               m    == Memcpy(p, start_ - p.start, buf, start_ - start,
                              IF last THEN stop - start_ + 1 ELSE p.stop - start_ + 1)
               S2   == [S EXCEPT ![i] = m.page]
           IN IF last THEN [S |-> S2, p |-> m.page, grow |-> "none", ub |-> ub \cup m.ub]
              ELSE PutWalk(S2, i + 1, buf, start, stop, p.stop + 1, ub \cup m.ub)

(* File::put(buf, start, stop, entry) *)
FilePut(f, buf, start, stop, emtime) ==
    IF f.pages = {}
    THEN LET p == NewPage(buf, 0, start, stop)
         IN [f |-> [pages |-> {p}, size |-> p.size, mtime |-> emtime],
             p |-> p, ub |-> {}]
    ELSE LET r == PutWalk(Sorted(f.pages), 1, buf, start, stop, start, {})
             P == Range(r.S)
         IN [f |-> [pages |-> IF r.grow = "none" THEN P ELSE Emplace(P, r.p),
                    size  |-> CASE r.grow = "add" -> f.size + r.p.size
                                [] r.grow = "set" -> r.p.size
                                [] OTHER          -> f.size,
                    mtime |-> emtime],
             p |-> r.p, ub |-> r.ub]

(* File::read_file(entry, buf, start, stop): a ranged download into buf.  *)
(* On success the server sends the bytes of [start, stop] it has, they   *)
(* are copied to buf and stop (a reference) becomes the last byte read;   *)
(* a range past the end is an error.  On failure buf and stop are left    *)
(* alone (503 is retried until it is another answer).                     *)
ReadFile(rem, buf, start, stop, netOk) ==
    LET n == Min({stop, Len(rem.data) - 1}) - start + 1
    IN IF netOk /\ start < Len(rem.data)
       THEN [buf  |-> [i \in DOMAIN buf |->
                         IF i <= n THEN rem.data[start + i] ELSE buf[i]],
             stop |-> start + Max({n, 0}) - 1]
       ELSE [buf |-> buf, stop |-> stop]

(* The pages of l refreshed from the set after a put copied into them;    *)
(* the last one is the page put returned.                                  *)
Refresh(l, P) ==
    [i \in 1..Len(l) |->
        IF i < Len(l) /\ \E q \in P : q.start = l[i].start
        THEN CHOOSE q \in P : q.start = l[i].start ELSE l[i]]

(* The second loop of File::get: cached pages that end within stop are    *)
(* taken while they follow on; a gap between two of them is fetched with  *)
(* File::lock held, and put() locks it again.                              *)
RECURSIVE GetWalk(_, _, _, _, _)
GetWalk(S, i, l, size, stop) ==
    IF i > Len(S) THEN [l |-> l, size |-> size, relock |-> FALSE]
    ELSE IF stop < S[i].stop THEN [l |-> l, size |-> size, relock |-> FALSE]
    ELSE IF Last(l).stop + 1 # S[i].start
         THEN [l |-> l, size |-> size, relock |-> TRUE]
    ELSE GetWalk(S, i + 1, Append(l, S[i]), size + S[i].size, stop)

(* What File::get returns at out: the file, the page list l, the size it *)
(* returns, entry's new file_size (the sum of the cached page sizes), ub  *)
(* and halt.                                                               *)
GetOut(f, l, size, ub) ==
    [f |-> f, l |-> l, size |-> size, fsize |-> PagesSize(f.pages), ub |-> ub, halt |-> "none"]
GetHalt(f, e, ub, why) ==
    [f |-> f, l |-> <<>>, size |-> 0, fsize |-> e.fsize, ub |-> ub, halt |-> why]

(* put(buf, start, stop) after read_file(entry, buf, _, stop) set stop. *)
PutRead(f, r, start, emtime) == FilePut(f, r.buf, start, r.stop, emtime)

GetDownloaded(pr, ub0) == GetOut(pr.f, <<pr.p>>, pr.p.size, ub0 \cup pr.ub)

GetTail(w, pr, ub0) ==
    GetOut(pr.f, Refresh(Append(w.l, pr.p), pr.f.pages), w.size + pr.p.size, ub0 \cup pr.ub)

(* After the second loop: a gap means the relock; a list short of stop   *)
(* is completed by fetching [start_, stop] into an uninitialised buffer,  *)
(* which read_file fills and put stores at start, not start_.             *)
GetWalked(f1, e, rem, start, stop, ub0, netOk, w) ==
    IF w.relock THEN GetHalt(f1, e, ub0, "relock")
    ELSE IF Last(w.l).stop >= stop THEN GetOut(f1, w.l, w.size, ub0)
    ELSE LET start_ == Last(w.l).stop + 1
         IN GetTail(w, PutRead(f1, ReadFile(rem, [k \in 1..(stop - start_ + 1) |-> Junk],
                                            start_, stop, netOk),
                               start, e.mtime), ub0)

(* File::get from the page lookup on: S is the sorted page set of f1,    *)
(* stop is clipped, ub0 is what invalidating the pages did.              *)
FileGetFrom(f1, S, e, rem, start, stop, ub0, netOk) ==
    LET hit   == {i \in 1..Len(S) : S[i].start <= start /\ S[i].stop >= start}
        l0    == IF hit = {} THEN <<>> ELSE <<S[Min(hit)]>>
        next  == IF hit = {} THEN Len(S) + 1 ELSE Min(hit) + 1
        \* size is set from the one page only when the lookup loop reached end()
        size0 == IF next > Len(S) /\ l0 # <<>> THEN l0[1].size ELSE 0
    IN
    IF next > Len(S) /\ l0 # <<>> /\ l0[1].stop >= stop
    THEN GetOut(f1, l0, size0, ub0)
    ELSE IF l0 = <<>>
    THEN \* page not found: download [start, stop] into a zeroed buffer
         IF stop - start + 1 < 0 THEN GetHalt(f1, e, ub0, "abort")  \* new char[] throws bad_alloc
         ELSE GetDownloaded(PutRead(f1, ReadFile(rem, [k \in 1..(stop - start + 1) |-> Zero],
                                                     start, stop, netOk),
                                    start, e.mtime), ub0)
    ELSE GetWalked(f1, e, rem, start, stop, ub0, netOk, GetWalk(S, next, l0, size0, stop))

(* File::get(l, start, stop, entry) for a file that is not a Google Doc:  *)
(* pages older than the entry are dropped, stop is clipped to file_size.  *)
FileGet(f0, e, rem, start, stop0, now, netOk) ==
    LET inval == e.mtime > 0 /\ f0.mtime # 0 /\ e.mtime > f0.mtime
        fsize == IF inval THEN 0 ELSE e.fsize
        f1    == IF e.mtime > 0 /\ f0.mtime = 0 THEN [f0 EXCEPT !.mtime = e.mtime]
                 ELSE IF inval THEN DeletePages(f0, now) ELSE f0
    IN FileGetFrom(f1, Sorted(f1.pages), e, rem, start,
                   IF fsize > 0 THEN Min({stop0, fsize - 1}) ELSE stop0,
                   IF inval THEN FreeUB(f0.pages) ELSE {}, netOk)

(* The reverse walk of File::resize over the pages in start order.        *)
(* Erasing through std::next(it).base() leaves it on the next lower page, *)
(* which ++it then steps over; erasing the first page steps it past       *)
(* rend().                                                                 *)
RECURSIVE ResizeWalk(_, _, _, _, _, _)
ResizeWalk(S, i, offset, P, size, ub) ==
    IF i < 1 THEN [P |-> P, size |-> size, ub |-> ub]
    ELSE LET p == S[i] IN
      IF p.start > offset
      THEN IF i = 1
           THEN [P |-> P \ {p}, size |-> size - p.size, ub |-> ub \cup FreeUB({p}) \cup {"iter"}]
           ELSE ResizeWalk(S, i - 2, offset, P \ {p}, size - p.size, ub \cup FreeUB({p}))
      ELSE IF p.stop = offset THEN [P |-> P, size |-> size, ub |-> ub]
      ELSE IF p.stop > offset /\ p.start < offset
      THEN LET n  == offset - p.start + 1
               p2 == [p EXCEPT !.stop = offset, !.size = n,
                               !.alloc = [i2 \in DOMAIN p.alloc |->
                                            IF i2 = p.off + n + 1 THEN Zero ELSE p.alloc[i2]]]
           IN [P |-> (P \ {p}) \cup {p2}, size |-> size - (p.size - n),
               ub |-> ub \cup (IF InBuf(p.alloc, p.off + n) THEN {} ELSE {"write_oob"})]
      ELSE IF p.start = offset
      THEN [P |-> (P \ {p}) \cup {[p EXCEPT !.stop = offset, !.size = 1]},
            size |-> size - (p.size - 1), ub |-> ub]
      ELSE ResizeWalk(S, i - 1, offset, P, size, ub)

(* File::resize(new_size), new_size > 0 *)
FileResize(f, newSize) ==
    LET S == Sorted(f.pages)
        r == ResizeWalk(S, Len(S), newSize - 1, f.pages, f.size, {})
    IN [f |-> [f EXCEPT !.pages = r.P, !.size = r.size], ub |-> r.ub]

-----------------------------------------------------------------------------
VARIABLES
    files,     \* LRUCache::cache's File objects, by id
    lru,       \* LRUCache::cache as a list of ids, most recently used first
    csize,     \* LRUCache::size (a size_t: a negative value stands for a wrapped one)
    entry,     \* GDFSEntry fields the handlers read and write: mtime, fsize, write, mode, uid, gid
    remote,    \* the Drive file: version and length
    content,   \* the bytes a POSIX reader should see (model only)
    lastOp,    \* the last call and what it returned (model only)
    ub,        \* undefined behaviour that has happened
    halt,      \* "none", or why the process stopped answering: relock, spin, abort
    gone,      \* ids unlinked
    now,       \* time(NULL)
    netFails,  \* failed downloads so far
    ops

vars == <<files, lru, csize, entry, remote, content, lastOp, ub, halt, gone, now, netFails, ops>>

S0 == [files |-> files, lru |-> lru, csize |-> csize, ub |-> ub, halt |-> halt]

(* size_ + need < GDFS_CACHE_MAX_SIZE on size_t values *)
FitsBelow(v) == v >= 0 /\ v < CacheMax

(* LRUCache::free_cache(size_): empties the file at the tail of the list; *)
(* the tail never changes, so if that was not enough the loop spins.      *)
FreeCache(s, need) ==
    IF need > CacheMax \/ FitsBelow(s.csize + need) \/ s.lru = <<>> THEN s
    ELSE LET t  == Last(s.lru)
             s1 == [s EXCEPT !.csize = @ - s.files[t].size,
                             !.files[t] = DeletePages(@, now),
                             !.ub = @ \cup FreeUB(s.files[t].pages)]
         IN IF FitsBelow(s1.csize + need) THEN s1 ELSE [s1 EXCEPT !.halt = "spin"]

(* The lookup moving the id to the front without erasing its old place. *)
TouchKeepsOld(s, id) ==
    [s EXCEPT !.lru = <<id>> \o @,
              !.files[id] = IF id \in Range(s.lru) THEN @ ELSE EmptyFile]

(* The map lookup of get/put: a miss creates an empty File; either way    *)
(* the file becomes most recently used.                                   *)
Touch(s, id) ==
    [s EXCEPT !.lru = <<id>> \o Remove(@, id),
              !.files[id] = IF id \in Range(s.lru) THEN @ ELSE EmptyFile]

(* Bytes n of page p from offset x, as memcpy reads them. *)
Chunk(p, x, n) == [j \in 1..Max({n, 0}) |-> PByte(p, x + j - 1)]
ChunkUB(p, x, n) ==
    IF n < 0 THEN {"read_oob"}
    ELSE IF \E j \in 0..(n - 1) : ~InBuf(p.alloc, p.off + x - p.start + j)
         THEN {"read_oob"} ELSE {}

(* The copy of LRUCache::get from the page list into the caller's buffer. *)
CopyOut(l, start, sizeRead) ==
    IF Len(l) = 1
    THEN [data |-> Chunk(l[1], start, sizeRead), ub |-> ChunkUB(l[1], start, sizeRead)]
    ELSE LET first == l[1].stop - start + 1
             mid   == SubSeq(l, 2, Len(l) - 1)
             midN  == FoldLeft(LAMBDA a, p : a + p.stop - p.start + 1, 0, mid)
             lastN == sizeRead - first - midN
         IN [data |-> Chunk(l[1], start, first)
                      \o FoldLeft(LAMBDA a, p : a \o Chunk(p, p.start, p.stop - p.start + 1), <<>>, mid)
                      \o Chunk(Last(l), Last(l).start, lastN),
             ub   |-> ChunkUB(l[1], start, first) \cup ChunkUB(Last(l), Last(l).start, lastN)]

(* LRUCache::get after File::get returned g on the touched state s1: the *)
(* copy to the caller's buffer, free_cache(added) and size += added.      *)
LruGetCopy(s1, id, sizeBegin, g, offset, len, cap) ==
    IF g.halt # "none"
    THEN [s |-> [s1 EXCEPT !.files[id] = g.f, !.halt = g.halt, !.ub = @ \cup g.ub],
          n |-> 0, data |-> <<>>, fsize |-> g.fsize]
    ELSE LET c     == CopyOut(g.l, offset, g.size)
             added == g.f.size - sizeBegin
             s3    == [s1 EXCEPT !.files[id] = g.f,
                                 !.ub = @ \cup g.ub \cup c.ub
                                      \cup (IF Len(c.data) > cap THEN {"write_oob"} ELSE {})]
             s4    == IF added < 0 THEN s3 ELSE FreeCache(s3, added)
         IN [s |-> IF s4.halt = "none" THEN [s4 EXCEPT !.csize = @ + added] ELSE s4,
             n |-> g.size,
             data |-> SubSeq(c.data, 1, Min({len, Len(c.data)})), fsize |-> g.fsize]

(* LRUCache::get(file_id, buffer, offset, len, node); cap is the size of *)
(* the caller's buffer.                                                   *)
LruGet(s, id, offset, len, cap, netOk) ==
    LruGetCopy(Touch(s, id), id, IF id \in Range(s.lru) THEN s.files[id].size ELSE 0,
               FileGet(Touch(s, id).files[id], entry[id], remote[id], offset,
                       offset + len - 1, now, netOk),
               offset, len, cap)

(* The end of LRUCache::put once free_cache(len) ran on s3: File::put,  *)
(* and size += len whatever put added.                                    *)
LruPutStore(s3, id, hasBuf, buf, offset, len, emtime) ==
    IF hasBuf /\ len > 0 /\ s3.halt = "none"
    THEN LET pr == FilePut(s3.files[id], buf, offset, offset + len - 1, emtime)
         IN [s3 EXCEPT !.files[id] = pr.f, !.csize = @ + len, !.ub = @ \cup pr.ub]
    ELSE s3

(* LRUCache::put(file_id, buffer, offset, len, node, to_delete); hasBuf   *)
(* is buffer != NULL.                                                     *)
LruPut(s, id, hasBuf, buf, offset, len, toDelete, emtime) ==
    LET s2 == IF id \in Range(s.lru) /\ toDelete
              THEN [Touch(s, id) EXCEPT !.csize = @ - s.files[id].size,
                                        !.files[id] = DeletePages(@, now),
                                        !.ub = @ \cup FreeUB(s.files[id].pages)]
              ELSE Touch(s, id)
    IN LruPutStore(IF len > 0 THEN FreeCache(s2, len) ELSE s2,
                   id, hasBuf, buf, offset, len, emtime)

LruResize(s, id, n) ==
    IF id \notin Range(s.lru) THEN [s EXCEPT !.halt = "abort"]
    ELSE LET r == FileResize(s.files[id], n)
         IN [s EXCEPT !.files[id] = r.f, !.csize = @ - (s.files[id].size - r.f.size),
                      !.ub = @ \cup r.ub]

(* LRUCache::set_time(file_id, mtime): asserts the file is cached. *)
LruSetTime(s, id, t) ==
    IF id \notin Range(s.lru) THEN [s EXCEPT !.halt = "abort"]
    ELSE [s EXCEPT !.files[id].mtime = t]

(* LRUCache::remove(file_id) *)
LruRemove(s, id) ==
    IF id \notin Range(s.lru) THEN s
    ELSE [s EXCEPT !.files[id] = DeletePages(@, now), !.lru = Remove(@, id),
                   !.ub = @ \cup FreeUB(s.files[id].pages)]

Commit(s) ==
    /\ files' = s.files /\ lru' = s.lru /\ csize' = s.csize
    /\ ub' = s.ub /\ halt' = s.halt

-----------------------------------------------------------------------------
(* What POSIX says the file holds and a read of it returns. *)
Bytes(v, n) == [k \in 1..n |-> RemoteByte(v, k - 1)]
Written(off, n) == [k \in 1..n |-> WrittenByte(off + k - 1)]
Expected(c, off, len) ==
    IF off >= Len(c) THEN <<>> ELSE SubSeq(c, off + 1, Min({off + len, Len(c)}))
Overwrite(c, off, b) ==
    [k \in 1..Max({Len(c), off + Len(b)}) |->
        IF k - 1 >= off /\ k - 1 < off + Len(b) THEN b[k - off]
        ELSE IF k <= Len(c) THEN c[k] ELSE Zero]
Resized(c, n) == [k \in 1..n |-> IF k <= Len(c) THEN c[k] ELSE Zero]

Init ==
    /\ files = [id \in Files |-> EmptyFile]
    /\ lru = <<>>
    /\ csize = 0
    /\ \E len0 \in [Files -> InitLens] :
         /\ remote = [id \in Files |-> [ver |-> 0, data |-> Bytes(0, len0[id])]]
         /\ entry = [id \in Files |-> [mtime |-> 1, fsize |-> len0[id], write |-> FALSE,
                                       mode |-> GDFS_DEF_FILE_MODE,
                                       uid |-> MountUser.uid, gid |-> MountUser.gid]]
         /\ content = [id \in Files |-> Bytes(0, len0[id])]
    /\ lastOp = [op |-> "none"]
    /\ ub = {}
    /\ halt = "none"
    /\ gone = {}
    /\ now = 1
    /\ netFails = 0
    /\ ops = 0

(* A FUSE call on a file that is not unlinked, while the process answers. *)
Call(id) ==
    /\ id \notin gone /\ halt = "none" /\ ops < MaxOps
    /\ ops' = ops + 1 /\ now' = now + 1

(* The check a handler makes before it touches the entry: file_access    *)
(* with the handler's mask, or for chmod and chown that the caller is     *)
(* root or the owner.                                                     *)
OwnerOrRoot(c, e) == c.uid = 0 \/ c.uid = e.uid
Permitted(op, c, e) ==
    CASE op \in {"read", "release"}  -> FileAccess(c, e, "R")
      [] op \in {"write", "truncate"} -> FileAccess(c, e, "W")
      [] OTHER                        -> OwnerOrRoot(c, e)

(* read, truncate, release, chmod or chown refused by that check: the     *)
(* handler returns -EACCES or -EPERM and changes nothing; a refused       *)
(* release leaves write set.                                               *)
GdfsDenied(id, c, op) ==
    /\ Call(id)
    /\ ~Permitted(op, c, entry[id])
    /\ lastOp' = [op |-> "denied", id |-> id]
    /\ UNCHANGED <<files, lru, csize, entry, remote, content, ub, halt, gone, netFails>>

(* gdfs_read(path, buf, size, offset) of a caller with read permission.  *)
(* The kernel reads below the size getattr reported (its EOF check), so  *)
(* the handler's zero-size branch is not reached and offset < file_size.  *)
GdfsRead(id, c, off, len) ==
    /\ Call(id)
    /\ Permitted("read", c, entry[id])
    /\ off < entry[id].fsize
    /\ \E netOk \in IF netFails < MaxNetFail THEN BOOLEAN ELSE {TRUE} :
         \E r \in {LruGet(S0, id, off, Min({len, entry[id].fsize}), len, netOk)} :
            /\ Commit(r.s)
            /\ entry' = [entry EXCEPT ![id].fsize = r.fsize]
            /\ netFails' = IF netOk THEN netFails ELSE netFails + 1
            /\ lastOp' = [op |-> "read", id |-> id, n |-> r.n, data |-> r.data,
                          expect |-> Expected(content[id], off, len)]
    /\ UNCHANGED <<remote, content, gone>>

(* gdfs_write(path, buf, size, offset) of a caller with write permission: *)
(* mtime, file_size, then the cache.                                       *)
GdfsWrite(id, c, off, len) ==
    /\ Call(id)
    /\ Permitted("write", c, entry[id])
    /\ Commit(LruPut(S0, id, TRUE, Written(off, len), off, len, FALSE, now))
    /\ entry' = [entry EXCEPT ![id].mtime = now,
                              ![id].fsize = Max({@, off + len}), ![id].write = TRUE]
    /\ content' = [content EXCEPT ![id] = Overwrite(@, off, Written(off, len))]
    /\ lastOp' = [op |-> "write", id |-> id, n |-> len]
    /\ UNCHANGED <<remote, gone, netFails>>

(* gdfs_write refused by file_access: ret is -EACCES but the handler      *)
(* returns size, so the caller is told the bytes were written.             *)
GdfsWriteDenied(id, c, off, len) ==
    /\ Call(id)
    /\ ~Permitted("write", c, entry[id])
    /\ content' = [content EXCEPT ![id] = Overwrite(@, off, Written(off, len))]
    /\ lastOp' = [op |-> "write", id |-> id, n |-> len]
    /\ UNCHANGED <<files, lru, csize, entry, remote, ub, halt, gone, netFails>>

(* gdfs_truncate(path, newsize) of a caller with write permission.        *)
(* Growing passes a NULL buffer: the buffer of zeros is only allocated    *)
(* when start > file_size, and start is file_size there.                  *)
GdfsTruncate(id, c, n) ==
    /\ Call(id)
    /\ Permitted("truncate", c, entry[id])
    /\ LET e == entry[id] IN
       \E s1 \in {IF n = 0 THEN LruPut(S0, id, FALSE, <<>>, 0, 0, TRUE, e.mtime)
                  ELSE IF n > e.fsize THEN LruPut(S0, id, FALSE, <<>>, e.fsize, n - e.fsize, FALSE, e.mtime)
                  ELSE IF n < e.fsize THEN LruResize(S0, id, n)
                  ELSE S0} :
          /\ Commit(IF s1.halt = "none" THEN LruSetTime(s1, id, now) ELSE s1)
          /\ entry' = [entry EXCEPT ![id].mtime = now, ![id].fsize = n,
                                    ![id].write = n # 0 \/ e.write]
    /\ content' = [content EXCEPT ![id] = Resized(@, n)]
    /\ lastOp' = [op |-> "truncate", id |-> id, n |-> n]
    /\ UNCHANGED <<remote, gone, netFails>>

(* gdfs_unlink(path) of a file with one link: delete_file drops it from   *)
(* the cache.  Its permission check is on the parent directory, which    *)
(* this module does not hold.                                              *)
GdfsUnlink(id) ==
    /\ Call(id)
    /\ Commit(LruRemove(S0, id))
    /\ gone' = gone \cup {id}
    /\ lastOp' = [op |-> "unlink", id |-> id]
    /\ UNCHANGED <<entry, remote, content, netFails>>

(* GDrive::write_file(node): the file (below GDFS_UPLOAD_CHUNK_SIZE) is   *)
(* read back with cache.get into a buffer whose file_size bytes were     *)
(* cleared, and uploaded in one chunk.  upOk is the upload session and     *)
(* the chunk succeeding.                                                   *)
UploadChunk(r, e, upOk) ==
    [s |-> r.s, fsize |-> r.fsize, ok |-> upOk /\ r.s.halt = "none",
     data |-> [k \in 1..e.fsize |-> IF k <= Len(r.data) THEN r.data[k] ELSE Zero]]

WriteFile(id, e, netOk, upOk) ==
    UploadChunk(LruGet(S0, id, 0, e.fsize, MaxSize + MaxSize, netOk), e, upOk)

(* gdfs_release(path) of a caller with read permission: write_file for a *)
(* non-empty file written to; write is cleared even when it threw.        *)
GdfsRelease(id, c) ==
    /\ Call(id)
    /\ Permitted("release", c, entry[id])
    /\ LET e == entry[id] IN
       IF e.fsize > 0 /\ e.write
       THEN \E netOk, upOk \in IF netFails < MaxNetFail THEN BOOLEAN ELSE {TRUE} :
              \E w \in {WriteFile(id, e, netOk, upOk)} :
                 /\ Commit(w.s)
                 /\ entry' = [entry EXCEPT ![id].fsize = w.fsize, ![id].write = FALSE]
                 /\ remote' = IF w.ok THEN [remote EXCEPT ![id].data = w.data] ELSE remote
                 /\ netFails' = netFails + (IF netOk THEN 0 ELSE 1) + (IF upOk THEN 0 ELSE 1)
                 /\ lastOp' = [op |-> "release", id |-> id, ok |-> w.ok]
       ELSE /\ entry' = [entry EXCEPT ![id].write = FALSE]
            /\ lastOp' = [op |-> "release", id |-> id, ok |-> FALSE]
            /\ UNCHANGED <<files, lru, csize, ub, halt, remote, netFails>>
    /\ UNCHANGED <<content, gone>>

(* gdfs_utime(path, ubuf): any caller sets mtime (and atime, not held     *)
(* here) to the times given; set_utime sends nothing to Drive.  A time    *)
(* from the epoch up to one second ahead of time(NULL).                   *)
GdfsUtime(id, t) ==
    /\ Call(id)
    /\ entry' = [entry EXCEPT ![id].mtime = t]
    /\ lastOp' = [op |-> "utime", id |-> id]
    /\ UNCHANGED <<files, lru, csize, remote, content, ub, halt, gone, netFails>>

(* gdfs_chmod(path, mode) by root or the owner: file_mode becomes mode. *)
GdfsChmod(id, c, m) ==
    /\ Call(id)
    /\ Permitted("chmod", c, entry[id])
    /\ entry' = [entry EXCEPT ![id].mode = m]
    /\ lastOp' = [op |-> "chmod", id |-> id]
    /\ UNCHANGED <<files, lru, csize, remote, content, ub, halt, gone, netFails>>

(* gdfs_chown(path, uid, gid) by root or the owner, to any uid and gid.  *)
GdfsChown(id, c, u) ==
    /\ Call(id)
    /\ Permitted("chown", c, entry[id])
    /\ entry' = [entry EXCEPT ![id].uid = u.uid, ![id].gid = u.gid]
    /\ lastOp' = [op |-> "chown", id |-> id]
    /\ UNCHANGED <<files, lru, csize, remote, content, ub, halt, gone, netFails>>

(* Another client changes the Drive file, and send_get_req applies the    *)
(* newer modifiedTime and size to the entry.  Only a file without local   *)
(* writes, so that what it should hold is the new remote content.          *)
RemoteChange(id) ==
    /\ Call(id)
    /\ ~entry[id].write
    /\ remote[id].ver < MaxVer
    /\ \E len \in 1..MaxSize :
         /\ remote' = [remote EXCEPT ![id] = [ver |-> @.ver + 1,
                                               data |-> Bytes(@.ver + 1, len)]]
         /\ entry' = [entry EXCEPT ![id].mtime = now, ![id].fsize = len]
         /\ content' = [content EXCEPT ![id] = Bytes(remote[id].ver + 1, len)]
    /\ lastOp' = [op |-> "remote", id |-> id]
    /\ UNCHANGED <<files, lru, csize, ub, halt, gone, netFails>>

(* The process stopped answering, every file is unlinked, or the bound on calls is reached. *)
Stopped == (halt # "none" \/ ops = MaxOps \/ gone = Files) /\ UNCHANGED vars

Next ==
    \/ \E id \in Files, c \in Callers :
         \/ \E off \in Offsets, len \in 1..MaxSize : GdfsRead(id, c, off, len)
         \/ \E off \in Offsets : \E len \in 1..(MaxSize - off) :
              GdfsWrite(id, c, off, len) \/ GdfsWriteDenied(id, c, off, len)
         \/ \E n \in 0..MaxSize : GdfsTruncate(id, c, n)
         \/ GdfsRelease(id, c)
         \/ \E op \in {"read", "truncate", "release", "chmod", "chown"} : GdfsDenied(id, c, op)
         \/ \E m \in Modes : GdfsChmod(id, c, m)
         \/ \E u \in Callers : GdfsChown(id, c, u)
    \/ \E id \in Files : GdfsUnlink(id)
    \/ \E id \in Files, t \in 0..(now + 1) : GdfsUtime(id, t)
    \/ \E id \in Files : RemoteChange(id)
    \/ Stopped

Spec == Init /\ [][Next]_vars

-----------------------------------------------------------------------------
Byte == {Zero, Junk} \cup {RemoteByte(v, i) : v \in 0..MaxVer, i \in Offsets}
                     \cup {WrittenByte(i) : i \in Offsets}
Halts == {"none", "relock", "spin", "abort"}
UBKinds == {"write_oob", "read_oob", "bad_free", "iter"}

TypeOK ==
    /\ lru \in Seq(Files) /\ Len(lru) = Cardinality(Range(lru))
    /\ \A id \in Files :
         /\ files[id].size \in Int /\ files[id].mtime \in Nat
         /\ \A p \in files[id].pages :
              /\ {p.start, p.stop, p.size, p.off} \subseteq Int
              /\ \A i \in DOMAIN p.alloc : p.alloc[i] \in Byte
    /\ csize \in Int
    /\ entry \in [Files -> [mtime : Nat, fsize : Nat, write : BOOLEAN,
                            mode : Modes \cup {GDFS_DEF_FILE_MODE},
                            uid : {u.uid : u \in Callers}, gid : {u.gid : u \in Callers}]]
    /\ \A id \in Files : remote[id].ver \in 0..MaxVer /\ remote[id].data \in Seq(Byte)
    /\ ub \subseteq UBKinds /\ halt \in Halts /\ gone \subseteq Files

CachedBytes == MapThenSumSet(LAMBDA id : PagesSize(files[id].pages), Range(lru))

(* Spec 8 round trip and POSIX read: a read returns the bytes the file    *)
(* holds, as many as are there up to the size asked for.                  *)
ReadReturnsContent ==
    (lastOp.op = "read" /\ halt = "none") =>
        /\ lastOp.n = Len(lastOp.expect)
        /\ lastOp.data = lastOp.expect

(* Every call into the cache returns, and without undefined behaviour:   *)
(* no assert fails (set_time, resize), File::get does not lock File::lock *)
(* twice, free_cache terminates, and no memcpy, delete[] or iterator step *)
(* leaves the memory it owns.                                              *)
CallsReturnSafely == halt = "none" /\ ub = {}

(* Spec 4.2 and 8: before LRUCache::get or put adds bytes, free_cache    *)
(* evicts least recently used files until size + need is below          *)
(* GDFS_CACHE_MAX_SIZE, so the pages cached never exceed the budget by   *)
(* more than one in-flight chunk.                                          *)
BudgetRespected == CachedBytes <= CacheMax + MaxSize

ReleaseUploadsContent ==
    (lastOp.op = "release" /\ lastOp.ok) => remote[lastOp.id].data = content[lastOp.id]
====
