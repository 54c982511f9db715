---------------------------- MODULE RequestQueue ----------------------------
(***************************************************************************)
(* The remote mirror of GDFS: the FUSE handlers that change the tree      *)
(* (lib/gdfs.cc), the GDrive operations they call (lib/gdapi.cc), the     *)
(* request queue and worker pool that carry the changes to Google Drive   *)
(* (lib/threadpool.cc), and the Drive server that answers the workers.    *)
(*                                                                         *)
(* One directory, the mount root, holds every file; its children map is   *)
(* a DirTree.  A request body is abstracted to the two fields the merge   *)
(* logic tells apart: whether it carries the file id and the name it      *)
(* sets.  A server modifiedTime is a per-object version.  FUSE handlers   *)
(* are atomic with respect to each other; the workers interleave with     *)
(* them and with each other.                                               *)
(***************************************************************************)
EXTENDS Integers, Sequences, FiniteSets, SequencesExt, Bitwise, DirTree

CONSTANTS
    Ids,         \* server-issued file ids taken from the id pool file_id_q
    ServerIds,   \* ids the server gives objects it creates on its own
    SpecialIds,  \* gdfs_name_prefix + rand_str() ids of local-only nodes
    Workers,     \* threads of the worker pool
    MaxOps,      \* bound on FUSE operations
    MaxNetFail,  \* bound on transport failures
    MaxRemoteOps, \* bound on changes another Drive client makes
    NoName,      \* a body that sets no name
    NoId,        \* the empty id of a GENERATE_ID item
    NoItem,      \* a worker holding no request
    Phantom,     \* the default-constructed req_item of an empty pop
    MknodModes   \* the file types gdfs_mknod is asked for

ASSUME /\ Ids # {} /\ Names # {} /\ Workers # {}
       /\ MaxOps \in Nat /\ MaxNetFail \in Nat /\ MaxRemoteOps \in Nat
       /\ ServerIds \cap Ids = {}
       /\ SpecialIds \cap (Ids \cup ServerIds) = {}

VARIABLES
    local,     \* local[id]: the GDFSEntry/GDFSNode pair of id
    idPool,    \* file_id_q: the generated ids not taken yet
    children,  \* the root's children map: key -> id
    remote,    \* remote[id]: the object id on the Drive server
    stale,     \* Drive's startPageToken differs from GDrive::change_id
    queue,     \* req_queue
    sem,       \* req_item_sem
    pc,        \* pc[w]: where worker w is in gdfs_worker
    item,      \* item[w]: the request worker w holds
    reply,     \* reply[w]: the server's answer to w's request
    netFails,  \* transport failures so far
    ops,       \* FUSE operations so far
    remoteOps, \* changes made by another client so far
    crashed    \* the daemon died (abort on a failed assert, or a wild pointer)

vars == <<local, idPool, children, remote, stale, queue, sem, pc, item, reply,
          netFails, ops, remoteOps, crashed>>

Objs == Ids \cup ServerIds

(* Every id a node can have; a special (sentinel) id never reaches Drive. *)
LocalIds == Objs \cup SpecialIds

Sentinel(id) == id \in SpecialIds

(* Every server-side change bumps modifiedTime; changes are made by       *)
(* applied INSERTs and UPDATEs, each from an operation or a re-send.      *)
MaxVer == MaxOps + MaxNetFail + MaxRemoteOps

AllNames == Names \cup ConflictNames(Cardinality(Objs))

ReqTypes == {"GET", "INSERT", "UPDATE", "DELETE", "GENERATE_ID"}
Body == [hasId : BOOLEAN, name : Names \cup {NoName}]
NoBody == [hasId |-> FALSE, name |-> NoName]
Item == [id : Objs \cup {NoId}, type : ReqTypes, body : Body]
Reply == [code : {"none", "ok", "e404", "e409", "neterr"},
          ver : 0..MaxVer, name : Names \cup {NoName}]
NoReply == [code |-> "none", ver |-> 0, name |-> NoName]
Answer(c) == [NoReply EXCEPT !.code = c]

(* "unused": no node has the id (a pool id not yet taken, or an object   *)
(* the client has not listed); "live": a node of the tree; "dirty":       *)
(* detached by delete_file with a DELETE pending; "freed": destroyed by   *)
(* send_delete_req, which also erased it from file_id_node; "dropped":    *)
(* destroyed by get_children, which leaves it in file_id_node.  After    *)
(* freed or dropped only dangling pointers remain.  mtime is the last     *)
(* server modifiedTime the entry took (0: none yet).                       *)
LocalEntry == [st : {"unused", "live", "dirty", "freed", "dropped"},
               name : AllNames, pendingCreate : BOOLEAN, dir : BOOLEAN,
               mtime : 0..MaxVer]
RemoteObject == [st : {"absent", "present", "deleted"}, name : Names,
                 ver : 0..MaxVer, dir : BOOLEAN]

IsReq(x) == x \notin {Phantom, NoItem}

Alive(id) == local[id].st \in {"live", "dirty"}

Destroyed(id) == local[id].st \in {"freed", "dropped"}
-----------------------------------------------------------------------------
(***************************************************************************)
(* The Drive server (the environment, not code of this repository).  A    *)
(* create under an id already used is refused (409); an update, delete or *)
(* get of an object that does not exist is answered 404; a create without *)
(* an id makes an object under an id the server chooses (one beyond       *)
(* ServerIds is not tracked by the model); generateIds changes nothing.   *)
(* An answer carries the object's modifiedTime and name.  Every change    *)
(* moves the account's startPageToken.  The folder mimeType of make_dir's *)
(* body is the entry's is_dir.                                             *)
(***************************************************************************)
FreeServerIds == {o \in ServerIds : remote[o].st = "absent"}

Serve(it) ==
    LET o == remote[it.id]
        untracked == it.type = "INSERT" /\ ~it.body.hasId /\ FreeServerIds = {}
        ok(r, v, n) == [remote |-> r, stale |-> r # remote \/ stale \/ untracked,
                        r |-> [code |-> "ok", ver |-> v, name |-> n]]
        err(c) == [remote |-> remote, stale |-> stale, r |-> Answer(c)]
        made == [st |-> "present", name |-> it.body.name, ver |-> 1,
                 dir |-> local[it.id].dir]
        upd == [o EXCEPT !.name = it.body.name, !.ver = @ + 1]
    IN CASE it.type = "GENERATE_ID" -> ok(remote, 0, NoName)
         [] untracked -> ok(remote, 1, it.body.name)
         [] it.type = "INSERT" /\ ~it.body.hasId ->
              ok([remote EXCEPT ![CHOOSE x \in FreeServerIds : TRUE] = made],
                 1, it.body.name)
         [] it.type = "INSERT" /\ o.st = "absent" ->
              ok([remote EXCEPT ![it.id] = made], 1, it.body.name)
         [] it.type = "INSERT" -> err("e409")
         [] o.st # "present" -> err("e404")
         [] it.type = "UPDATE" -> ok([remote EXCEPT ![it.id] = upd],
                                     upd.ver, upd.name)
         [] it.type = "DELETE" ->
              ok([remote EXCEPT ![it.id].st = "deleted"], o.ver, o.name)
         [] OTHER -> ok(remote, o.ver, o.name)

(* Another client of the same Drive account creates, renames or deletes   *)
(* an object in the mount's root folder.                                  *)
OtherClient ==
    /\ remoteOps < MaxRemoteOps
    /\ \/ \E o \in FreeServerIds, n \in Names :
             remote' = [remote EXCEPT ![o] = [st |-> "present", name |-> n,
                                              ver |-> 1, dir |-> FALSE]]
       \/ \E o \in Objs, n \in Names :
             /\ remote[o].st = "present" /\ remote[o].name # n
             /\ remote' = [remote EXCEPT ![o].name = n, ![o].ver = @ + 1]
       \/ \E o \in Objs :
             /\ remote[o].st = "present"
             /\ remote' = [remote EXCEPT ![o].st = "deleted"]
    /\ stale' = TRUE
    /\ remoteOps' = remoteOps + 1
    /\ UNCHANGED <<local, idPool, children, queue, sem, pc, item, reply, netFails,
                   ops, crashed>>
-----------------------------------------------------------------------------
(***************************************************************************)
(* merge_requests(a, b): a is the new body, b the pending one.  The id is *)
(* read from a only; every other field from a, else from b.               *)
(***************************************************************************)
Merge(a, b) ==
    [hasId |-> a.hasId, name |-> IF a.name # NoName THEN a.name ELSE b.name]

NewItem(id, t, b) == [id |-> id, type |-> t, body |-> b]

(***************************************************************************)
(* The state a FUSE handler works on: the entries (l), file_id_q (pool),  *)
(* the root's children map (ch), req_queue (q), req_item_sem (sem), whether change_id *)
(* lags the startPageToken (stale), the ids a listing saw (seen) and      *)
(* whether an assert failed or a freed node was read (crash).  GDrive     *)
(* operations are functions of it, so a handler calling several of them  *)
(* in sequence is their composition.                                       *)
(***************************************************************************)
Cur == [l |-> local, pool |-> idPool, ch |-> children, q |-> queue, sem |-> sem,
        stale |-> stale, seen |-> {}, crash |-> FALSE]

Commit(s) ==
    /\ local' = s.l /\ idPool' = s.pool /\ children' = s.ch /\ queue' = s.q /\ sem' = s.sem
    /\ stale' = s.stale /\ crashed' = s.crash

(***************************************************************************)
(* Threadpool::build_request(id, t, node, url, query): the first queued   *)
(* request for id decides.  A fresh request is appended and posted; a     *)
(* request replacing a pending one is appended without a post; a pending *)
(* INSERT cancelled by a DELETE is erased without consuming a post.       *)
(***************************************************************************)
BuildRequest(s, id, t, b) ==
    LET q == s.q
        i == SelectInSeq(q, LAMBDA x : IsReq(x) /\ x.id = id)
        p == q[i]
    IN  IF i = 0
        THEN [s EXCEPT !.q = Append(q, NewItem(id, t, b)), !.sem = @ + 1]
        ELSE CASE p.type = t ->
                    IF t = "UPDATE" THEN [s EXCEPT !.q[i].body = Merge(b, p.body)]
                                    ELSE s
               [] p.type = "INSERT" /\ t = "UPDATE" ->
                    [s EXCEPT !.q[i].body = Merge(b, p.body)]
               [] p.type = "INSERT" /\ t = "DELETE" ->
                    [s EXCEPT !.q = RemoveAt(q, i)]
               [] \/ p.type = "GET" /\ t \in {"DELETE", "UPDATE"}
                  \/ p.type = "UPDATE" /\ t = "DELETE" ->
                    [s EXCEPT !.q = Append(RemoveAt(q, i), NewItem(id, t, b))]
               [] OTHER -> s
-----------------------------------------------------------------------------
(* The daemon after initGDFS: an empty root, an empty id pool, the        *)
(* GENERATE_ID item of initGDFS's generate_file_id posted, and every      *)
(* worker blocked in sem_wait.                                             *)
Init ==
    /\ local = [id \in LocalIds |-> [st |-> "unused", name |-> CHOOSE n \in Names : TRUE,
                                    pendingCreate |-> FALSE, dir |-> FALSE, mtime |-> 0]]
    /\ idPool = {}
    /\ children = <<>>
    /\ remote = [id \in Objs |-> [st |-> "absent", name |-> CHOOSE n \in Names : TRUE,
                                  ver |-> 0, dir |-> FALSE]]
    /\ stale = TRUE
    /\ queue = <<NewItem(NoId, "GENERATE_ID", NoBody)>>
    /\ sem = 1
    /\ pc = [w \in Workers |-> "wait"]
    /\ item = [w \in Workers |-> NoItem]
    /\ reply = [w \in Workers |-> NoReply]
    /\ netFails = 0
    /\ ops = 0
    /\ remoteOps = 0
    /\ crashed = FALSE
-----------------------------------------------------------------------------
(***************************************************************************)
(* GDrive operations (lib/gdapi.cc).  Creation time is older than any     *)
(* server modifiedTime (mtime 0).                                          *)
(***************************************************************************)
NewEntry(n, isDir) ==
    [st |-> "live", name |-> n, pendingCreate |-> ~isDir, dir |-> isDir, mtime |-> 0]

(* generate_file_id: file_id_q never holds more than 100 ids here, so a   *)
(* GENERATE_ID item (id "", no node) is requested every time.              *)
GenerateFileId(s) == BuildRequest(s, NoId, "GENERATE_ID", NoBody)

(* The id make_file and make_dir take from file_id_q: any pooled id (they *)
(* are interchangeable), or NoId for an empty queue.                      *)
PoolChoices == IF idPool = {} THEN {NoId} ELSE idPool

(* make_file: generate_file_id, throw on an empty file_id_q, else take    *)
(* the id, insert the node into the parent and file_id_node, set          *)
(* pending_create, enqueue the INSERT with the id.                        *)
MakeFile(s, id, n) ==
    LET g == GenerateFileId(s)
    IN  IF id = NoId THEN g
        ELSE BuildRequest([g EXCEPT !.l[id] = NewEntry(n, FALSE), !.pool = @ \ {id},
                                    !.ch = Insert(@, n, id)],
                          id, "INSERT", [hasId |-> TRUE, name |-> n])

(* make_dir: as make_file, but file_id_q.front() is read without the      *)
(* emptiness check (front of an empty std::queue reads an element never   *)
(* constructed: the model takes the crash) and pending_create is never    *)
(* set.                                                                    *)
MakeDir(s, id, n) ==
    LET g == GenerateFileId(s)
    IN  IF id = NoId THEN [g EXCEPT !.crash = TRUE]
        ELSE BuildRequest([g EXCEPT !.l[id] = NewEntry(n, TRUE), !.pool = @ \ {id},
                                    !.ch = Insert(@, n, id)],
                          id, "INSERT", [hasId |-> TRUE, name |-> n])

(* The type bits of the mode gdfs_mknod is given (sys/stat.h).           *)
S_IFIFO == 4096
S_IFCHR == 8192
S_IFBLK == 24576
S_IFREG == 32768
S_IFSOCK == 49152

FileTypes == {S_IFREG, S_IFCHR, S_IFBLK, S_IFIFO, S_IFSOCK}

ASSUME MknodModes \subseteq FileTypes

(* gdfs_mknod tests the single bit S_IFREG rather than mode & S_IFMT, so   *)
(* a socket (S_IFSOCK holds that bit) is made a regular Drive file: the  *)
(* creation path each mode takes.                                          *)
MknodKind == [mode \in MknodModes |-> IF (mode & S_IFREG) # 0 THEN "mknod"
                                                             ELSE "special"]

(* gdfs_mknod of a regular file calls make_file outside any try block:    *)
(* its throw on an empty file_id_q is uncaught and ends the process.      *)
MknodFile(s, id, n) ==
    LET m == MakeFile(s, id, n)
    IN  IF id = NoId THEN [m EXCEPT !.crash = TRUE] ELSE m

(* gdfs_mknod of a device or fifo, and gdfs_symlink: a node under a new   *)
(* sentinel id, inserted into the parent and file_id_node; no request.    *)
MakeSpecial(s, x, n) ==
    [s EXCEPT !.l[x] = [NewEntry(n, FALSE) EXCEPT !.pendingCreate = FALSE],
              !.ch = Insert(@, n, x)]

(* delete_file(node) of a node with ref_count 1 (or an empty directory): *)
(* remove_child from the parent by the node's file_name (the assert       *)
(* aborts when nothing is filed under it); then mark it dirty and enqueue *)
(* DELETE, or, for a special file, erase it from file_id_node and delete  *)
(* it at once.                                                             *)
DeleteFile(s, id) ==
    LET rc == RemoveChild(s.ch, s.l[id].name)
    IN  CASE ~rc.ok -> [s EXCEPT !.crash = TRUE]
          [] Sentinel(id) -> [s EXCEPT !.ch = rc.ch, !.l[id].st = "freed"]
          [] OTHER -> BuildRequest([s EXCEPT !.ch = rc.ch, !.l[id].st = "dirty"],
                                   id, "DELETE", NoBody)

(* rename_file(node, name): set node->file_name, then rename_child from  *)
(* the old file_name, which re-files (and renames) whichever node is     *)
(* filed under it; unless the file is special, enqueue an UPDATE whose    *)
(* body holds only the new name.                                           *)
RenameFile(s, id, n) ==
    LET rc == RenameChild(s.ch, s.l[id].name, n)
        t == [s EXCEPT !.ch = rc.ch, !.l[id].name = n, !.l[rc.moved].name = n]
    IN  CASE ~rc.ok -> [s EXCEPT !.crash = TRUE]
          [] Sentinel(id) -> t
          [] OTHER -> BuildRequest(t, id, "UPDATE", [hasId |-> FALSE, name |-> n])

(* update_node(node) once the entry's cached_time is older than           *)
(* GDFS_CACHE_TIMEOUT: enqueue a GET of the metadata.                      *)
UpdateNode(s, id) == BuildRequest(s, id, "GET", NoBody)

(***************************************************************************)
(* get_children(root).  The startPageToken is asked first; when it equals *)
(* change_id the children map is kept.  Otherwise change_id takes it and  *)
(* the listing is walked in the server's order (orderBy=name; the model's *)
(* names are unordered, so every order).  A child not listed whose node   *)
(* is neither special, dirty nor pending_create is removed and destroyed *)
(* (no file is open: open and release are not modelled), but its id is    *)
(* left in file_id_node.                                                   *)
(***************************************************************************)
Listing == {o \in Objs : remote[o].st = "present"}

(* The orders of a set (SetToSeqs filters every function into it; this   *)
(* builds only the orders).                                                *)
RECURSIVE Orders(_)
Orders(S) == IF S = {} THEN {<<>>}
             ELSE UNION {{<<x>> \o p : p \in Orders(S \ {x})} : x \in S}

ListOrders == IF stale THEN Orders(Listing) ELSE {<<>>}

(* Mutant: a live node whose name changed on the server is not put in s1. *)
IngestChildNoSeenOnRename(s, o) ==
    LET e == s.l[o]
        r == remote[o]
        n == RemoveNameConflict(s.ch, r.name)
        renamed == r.name # e.name
    IN  CASE s.crash \/ e.st = "dirty" -> s
          [] e.st = "dropped" -> [s EXCEPT !.crash = TRUE]
          [] e.st = "live" ->
               [s EXCEPT !.l[o].mtime = r.ver,
                         !.l[o].name = IF renamed /\ ~IsOldNameConflict(r.name, e.name)
                                       THEN n ELSE e.name,
                         !.seen = IF renamed THEN @ ELSE @ \cup {o}]
          [] OTHER ->
               [s EXCEPT !.l[o] = [NewEntry(n, r.dir) EXCEPT !.pendingCreate = FALSE,
                                                                 !.mtime = r.ver],
                         !.ch = Insert(@, n, o), !.seen = @ \cup {o}]

(* The loop body for one listed child.  A known id is found through      *)
(* file_id_node: a dirty node is skipped; a live one takes modifiedTime  *)
(* and, for a name that changed and is not an old conflict name, the     *)
(* remove_name_conflict name into file_name (the map is not re-keyed);   *)
(* an id left by an earlier drop leads to freed memory.  An unknown id   *)
(* gets a new node filed under the remove_name_conflict name.            *)
IngestChild(s, o) ==
    LET e == s.l[o]
        r == remote[o]
        n == RemoveNameConflict(s.ch, r.name)
    IN  CASE s.crash \/ e.st = "dirty" -> s
          [] e.st = "dropped" -> [s EXCEPT !.crash = TRUE]
          [] e.st = "live" ->
               [s EXCEPT !.l[o].mtime = r.ver,
                         !.l[o].name = IF r.name # e.name
                                          /\ ~IsOldNameConflict(r.name, e.name)
                                       THEN n ELSE e.name,
                         !.seen = @ \cup {o}]
          [] OTHER ->
               [s EXCEPT !.l[o] = [NewEntry(n, r.dir) EXCEPT !.pendingCreate = FALSE,
                                                                 !.mtime = r.ver],
                         !.ch = Insert(@, n, o), !.seen = @ \cup {o}]

(* remove_child by the node's file_name (asserting it is a key), then    *)
(* delete the node.                                                       *)
DropChild(o, s) ==
    LET rc == RemoveChild(s.ch, s.l[o].name)
    IN  CASE s.crash -> s
          [] ~rc.ok -> [s EXCEPT !.crash = TRUE]
          [] OTHER -> [s EXCEPT !.ch = rc.ch, !.l[o].st = "dropped"]

GetChildren(s, order) ==
    IF ~s.stale THEN s
    ELSE LET w == FoldLeft(IngestChild, [s EXCEPT !.stale = FALSE, !.seen = {}], order)
             gone == {o \in {w.ch[k] : k \in DOMAIN w.ch} \ w.seen :
                        /\ ~Sentinel(o)
                        /\ w.l[o].st = "live" /\ ~w.l[o].pendingCreate}
         IN  FoldSet(DropChild, w, gone)
-----------------------------------------------------------------------------
(***************************************************************************)
(* FUSE handlers (lib/gdfs.cc).  A path is looked up by key in the        *)
(* children map (get_node); a node found dirty is ENOENT.  The argument   *)
(* and permission checks that return an errno before any state change    *)
(* are the handlers' disabled cases.                                       *)
(***************************************************************************)
AdapterStep == ~crashed /\ ops < MaxOps /\ ops' = ops + 1

AdapterUnchanged == UNCHANGED <<remote, pc, item, reply, netFails, remoteOps>>

(* get_node(path): the live node filed under key k. *)
Lookup(k) == k \in DOMAIN children /\ local[children[k]].st = "live"

(* parent_node->find(name) is NULL or a dirty node. *)
NameFree(s, n) ==
    LET t == Find(s.ch, n) IN IF t = NoNode THEN TRUE ELSE s.l[t].st # "live"

(* The id a creation takes: from file_id_q, or a fresh sentinel id.       *)
IdChoices(kind) ==
    IF kind = "special" THEN {x \in SpecialIds : local[x].st = "unused"}
    ELSE PoolChoices

(* gdfs_create, gdfs_mkdir, gdfs_mknod and gdfs_symlink: get_node of the  *)
(* parent "/" lists the root; then EEXIST unless the name is free, else   *)
(* make the node (make_file, whose throw gdfs_create turns into EAGAIN    *)
(* keeping what it did before; make_dir; make_file from mknod; a special  *)
(* node).  An EEXIST without a listing changes nothing and is left out.   *)
CreateIn(n, kind) ==
    /\ AdapterStep
    /\ \E order \in ListOrders :
          LET s == GetChildren(Cur, order)
          IN  CASE s.crash -> Commit(s)
                [] NameFree(s, n) ->
                     \E id \in IdChoices(kind) :
                        Commit(CASE kind = "file" -> MakeFile(s, id, n)
                                 [] kind = "dir" -> MakeDir(s, id, n)
                                 [] kind = "mknod" -> MknodFile(s, id, n)
                                 [] OTHER -> MakeSpecial(s, id, n))
                [] OTHER -> stale /\ Commit(s)
    /\ AdapterUnchanged

GdfsCreate(n) == CreateIn(n, "file")

GdfsMkdir(n) == CreateIn(n, "dir")

GdfsMknod(n, mode) == CreateIn(n, MknodKind[mode])

GdfsSymlink(n) == CreateIn(n, "special")

(* gdfs_readdir("/"): get_node("/") lists the root (a second listing by  *)
(* readdir itself finds the token unchanged).  With change_id current it *)
(* changes nothing and is left out.                                       *)
GdfsReaddir ==
    /\ AdapterStep
    /\ stale
    /\ \E order \in ListOrders : Commit(GetChildren(Cur, order))
    /\ AdapterUnchanged

(* A root listing (of readdir, create or mkdir) whose files request fails *)
(* after change_id took the new startPageToken: the handler returns an   *)
(* errno and the children map is left as it was.                          *)
ListRootFails ==
    /\ AdapterStep
    /\ stale
    /\ netFails < MaxNetFail
    /\ netFails' = netFails + 1
    /\ stale' = FALSE
    /\ UNCHANGED <<local, idPool, children, remote, queue, sem, pc, item, reply,
                   remoteOps, crashed>>

(* gdfs_unlink: delete_file of the node at the path. *)
GdfsUnlink(k) ==
    /\ AdapterStep
    /\ Lookup(k)
    /\ ~local[children[k]].dir
    /\ Commit(DeleteFile(Cur, children[k]))
    /\ AdapterUnchanged

(* gdfs_rmdir: the directory is empty (the model has one level). *)
GdfsRmdir(k) ==
    /\ AdapterStep
    /\ Lookup(k)
    /\ local[children[k]].dir
    /\ Commit(DeleteFile(Cur, children[k]))
    /\ AdapterUnchanged

(* gdfs_rename within the parent: a live node found under the new name is *)
(* deleted with delete_file, then rename_file.  (The VFS never passes a   *)
(* rename of a path onto itself.)                                          *)
GdfsRename(k, n) ==
    /\ AdapterStep
    /\ Lookup(k)
    /\ k # n
    /\ LET tmp == Find(children, n)
           s1 == IF tmp # NoNode /\ local[tmp].st = "live"
                 THEN DeleteFile(Cur, tmp) ELSE Cur
       IN  Commit(IF s1.crash THEN s1 ELSE RenameFile(s1, children[k], n))
    /\ AdapterUnchanged

(* gdfs_getattr -> get_node(search = true) -> update_node, which get_node *)
(* skips for a special file (sentinel id, link type not 0).               *)
GdfsGetattr(k) ==
    /\ AdapterStep
    /\ Lookup(k)
    /\ ~Sentinel(children[k])
    /\ Commit(UpdateNode(Cur, children[k]))
    /\ AdapterUnchanged
-----------------------------------------------------------------------------
(***************************************************************************)
(* gdfs_worker                                                            *)
(***************************************************************************)
(* Mutant: the worker proceeds without waiting for a semaphore count. *)
WorkerWaitNoGuard(w) ==
    /\ ~crashed
    /\ pc[w] = "wait"
    /\ sem' = sem - 1
    /\ pc' = [pc EXCEPT ![w] = "pop"]
    /\ UNCHANGED <<local, idPool, children, remote, stale, queue, item, reply,
                   netFails, ops, remoteOps, crashed>>

(* sem_wait(&req_item_sem) returns: the worker goes on to pop. *)
WorkerWait(w) ==
    /\ ~crashed
    /\ pc[w] = "wait"
    /\ sem > 0
    /\ sem' = sem - 1
    /\ pc' = [pc EXCEPT ![w] = "pop"]
    /\ UNCHANGED <<local, idPool, children, remote, stale, queue, item, reply,
                   netFails, ops, remoteOps, crashed>>

(* Under worker_lock: take the front item if the queue is not empty;     *)
(* otherwise item keeps its default-constructed value.                    *)
WorkerPop(w) ==
    /\ ~crashed
    /\ pc[w] = "pop"
    /\ IF queue # <<>>
       THEN /\ item' = [item EXCEPT ![w] = Head(queue)]
            /\ queue' = Tail(queue)
       ELSE /\ item' = [item EXCEPT ![w] = Phantom]
            /\ UNCHANGED queue
    /\ pc' = [pc EXCEPT ![w] = "send"]
    /\ UNCHANGED <<local, idPool, children, remote, stale, sem, reply, netFails,
                   ops, remoteOps, crashed>>

(***************************************************************************)
(* send_request(item): Auth::sendRequest of the item's url.  The request *)
(* may fail in transport before reaching the server, or reach it and     *)
(* lose its answer.  For the phantom item the request type and node are  *)
(* indeterminate and the url is empty: the daemon either crashes on the  *)
(* node pointer or the empty url fails in transport.                     *)
(***************************************************************************)
SendRequest(w) ==
    /\ ~crashed
    /\ pc[w] = "send"
    /\ IF item[w] = Phantom
       THEN /\ \/ /\ crashed' = TRUE
                  /\ UNCHANGED <<reply, pc>>
               \/ /\ reply' = [reply EXCEPT ![w] = Answer("neterr")]
                  /\ pc' = [pc EXCEPT ![w] = "reply"]
                  /\ UNCHANGED crashed
            /\ UNCHANGED <<remote, stale, netFails>>
       ELSE /\ \/ /\ netFails < MaxNetFail
                  /\ netFails' = netFails + 1
                  /\ reply' = [reply EXCEPT ![w] = Answer("neterr")]
                  /\ UNCHANGED <<remote, stale>>
               \/ LET a == Serve(item[w])
                  IN /\ remote' = a.remote
                     /\ stale' = a.stale
                     /\ \/ /\ reply' = [reply EXCEPT ![w] = a.r]
                           /\ UNCHANGED netFails
                        \/ /\ netFails < MaxNetFail
                           /\ netFails' = netFails + 1
                           /\ reply' = [reply EXCEPT ![w] = Answer("neterr")]
            /\ pc' = [pc EXCEPT ![w] = "reply"]
            /\ UNCHANGED crashed
    /\ UNCHANGED <<local, idPool, children, queue, sem, item, ops, remoteOps>>
-----------------------------------------------------------------------------
(***************************************************************************)
(* The answer is handled by the send_*_req routine of the item's type.    *)
(* A routine returning false makes gdfs_worker put the item back at the   *)
(* front of the queue and post the semaphore.  Writes through a node     *)
(* that has been freed are lost (the entry is gone).                      *)
(***************************************************************************)
(* Mutant: the failed item is put back without sem_post. *)
RequeueNoPost(w) ==
    /\ queue' = <<item[w]>> \o queue
    /\ sem' = sem

Requeue(w) ==
    /\ queue' = <<item[w]>> \o queue
    /\ sem' = sem + 1

Release(w) ==
    /\ pc' = [pc EXCEPT ![w] = "wait"]
    /\ item' = [item EXCEPT ![w] = NoItem]
    /\ reply' = [reply EXCEPT ![w] = NoReply]

Done == UNCHANGED <<queue, sem>>

(* send_insert_req: on success mtime takes modifiedTime and            *)
(* pending_create is cleared.                                           *)
InsertReply(w, id, r) ==
    IF r.code = "ok"
    THEN /\ local' = IF Alive(id) THEN [local EXCEPT ![id].mtime = r.ver,
                                                     ![id].pendingCreate = FALSE]
                                  ELSE local
         /\ Done
    ELSE Requeue(w) /\ UNCHANGED local

(* send_update_req: on success mtime takes modifiedTime. *)
UpdateReply(w, id, r) ==
    IF r.code = "ok"
    THEN /\ local' = IF Alive(id) THEN [local EXCEPT ![id].mtime = r.ver] ELSE local
         /\ Done
    ELSE Requeue(w) /\ UNCHANGED local

(* send_get_req: a modifiedTime not newer than mtime changes nothing;     *)
(* otherwise mtime takes it and, for a node with a parent, a changed name *)
(* that is not an old conflict name of the node is taken through          *)
(* remove_name_conflict into node->file_name (the children map is left    *)
(* as it is).                                                              *)
GetReply(w, id, r) ==
    IF r.code = "ok"
    THEN /\ local' =
              IF ~Alive(id) \/ r.ver <= local[id].mtime THEN local
              ELSE LET e == local[id]
                       rename == /\ e.st = "live" /\ r.name # e.name
                                 /\ ~IsOldNameConflict(r.name, e.name)
                   IN [local EXCEPT ![id].mtime = r.ver,
                                    ![id].name = IF rename
                                                 THEN RemoveNameConflict(children, r.name)
                                                 ELSE e.name]
         /\ Done
    ELSE Requeue(w) /\ UNCHANGED local

(* Mutant: the node is destroyed whatever the server answered. *)
DeleteReplyIgnoringError(w, id, r) ==
    /\ local' = IF Alive(id) THEN [local EXCEPT ![id].st = "freed"] ELSE local
    /\ Done

(* send_delete_req: on success the node found through file_id_node is    *)
(* erased from the index and destroyed.                                   *)
DeleteReply(w, id, r) ==
    IF r.code = "ok"
    THEN /\ local' = IF Alive(id) THEN [local EXCEPT ![id].st = "freed"] ELSE local
         /\ Done
    ELSE Requeue(w) /\ UNCHANGED local

(* send_generate_id_req: on success the ids of the answer are pushed on   *)
(* file_id_q (here every pool id no node has taken yet).                  *)
GenerateIdReply(w, r) ==
    IF r.code = "ok"
    THEN /\ idPool' = {id \in Ids : local[id].st = "unused"}
         /\ Done
    ELSE Requeue(w) /\ UNCHANGED idPool

(* A DELETE answered 404 (or 403) is retried in place by send_delete_req. *)
HandleReply(w) ==
    /\ ~crashed
    /\ pc[w] = "reply"
    /\ IF IsReq(item[w]) /\ item[w].type = "DELETE" /\ reply[w].code = "e404"
       THEN /\ pc' = [pc EXCEPT ![w] = "send"]
            /\ reply' = [reply EXCEPT ![w] = NoReply]
            /\ UNCHANGED <<local, idPool, queue, sem, item>>
       ELSE /\ Release(w)
            /\ CASE item[w] = Phantom -> Requeue(w) /\ UNCHANGED <<local, idPool>>
                 [] item[w].type = "GENERATE_ID" ->
                      GenerateIdReply(w, reply[w]) /\ UNCHANGED local
                 [] item[w].type = "INSERT" ->
                      InsertReply(w, item[w].id, reply[w]) /\ UNCHANGED idPool
                 [] item[w].type = "DELETE" ->
                      DeleteReply(w, item[w].id, reply[w]) /\ UNCHANGED idPool
                 [] item[w].type = "UPDATE" ->
                      UpdateReply(w, item[w].id, reply[w]) /\ UNCHANGED idPool
                 [] OTHER -> GetReply(w, item[w].id, reply[w]) /\ UNCHANGED idPool
    /\ UNCHANGED <<children, remote, stale, netFails, ops, remoteOps, crashed>>
-----------------------------------------------------------------------------
(* No FUSE operation is possible any more: the budget is spent (with a   *)
(* budget left, a create or a getattr is always enabled).                 *)
AdapterDone == ops = MaxOps

(* The bounded run is over: the adapter is done and the pool sleeps in    *)
(* sem_wait; or the daemon crashed.                                       *)
Quiescent ==
    /\ \/ crashed
       \/ AdapterDone /\ sem = 0 /\ \A w \in Workers : pc[w] = "wait"
    /\ UNCHANGED vars

Next ==
    \/ \E n \in Names : GdfsCreate(n)
    \/ \E n \in Names : GdfsMkdir(n)
    \/ \E n \in Names, mode \in MknodModes : GdfsMknod(n, mode)
    \/ \E n \in Names : GdfsSymlink(n)
    \/ \E k \in DOMAIN children : GdfsUnlink(k)
    \/ \E k \in DOMAIN children : GdfsRmdir(k)
    \/ \E k \in DOMAIN children, n \in Names : GdfsRename(k, n)
    \/ \E k \in DOMAIN children : GdfsGetattr(k)
    \/ GdfsReaddir
    \/ ListRootFails
    \/ OtherClient
    \/ \E w \in Workers : WorkerWait(w) \/ WorkerPop(w) \/ SendRequest(w)
                          \/ HandleReply(w)
    \/ Quiescent

Spec == Init /\ [][Next]_vars
-----------------------------------------------------------------------------
TypeOK ==
    /\ local \in [LocalIds -> LocalEntry]
    /\ idPool \subseteq Ids
    /\ DOMAIN children \subseteq AllNames
    /\ \A k \in DOMAIN children : children[k] \in LocalIds
    /\ remote \in [Objs -> RemoteObject]
    /\ stale \in BOOLEAN
    /\ queue \in Seq(Item \cup {Phantom})
    /\ sem \in Nat
    /\ pc \in [Workers -> {"wait", "pop", "send", "reply"}]
    /\ item \in [Workers -> Item \cup {Phantom, NoItem}]
    /\ reply \in [Workers -> Reply]
    /\ netFails \in 0..MaxNetFail
    /\ ops \in 0..MaxOps
    /\ remoteOps \in 0..MaxRemoteOps
    /\ crashed \in BOOLEAN
-----------------------------------------------------------------------------
(***************************************************************************)
(* Safety properties                                                      *)
(***************************************************************************)
Waking == {w \in Workers : pc[w] = "pop"}

InFlight == {item[w] : w \in {v \in Workers : IsReq(item[v])}}

Queued == {queue[i] : i \in {j \in DOMAIN queue : IsReq(queue[j])}}

(* No lost wakeup: every queued request is backed by a semaphore count   *)
(* or by a worker already past sem_wait, so a request enqueued by         *)
(* build_request or re-queued by gdfs_worker is eventually popped.        *)
NoStrandedRequest == Len(queue) <= sem + Cardinality(Waking)

(* A node is destroyed (send_delete_req: erase from file_id_node and     *)
(* delete node) only after the server has removed the object: a DELETE   *)
(* whose answer is lost is never taken for done, so the local tree never *)
(* forgets a file that still exists remotely.                             *)
FreedOnlyAfterRemoteDelete ==
    \A id \in Ids : local[id].st = "freed" => remote[id].st = "deleted"

(* Once the INSERT of a file has been acknowledged (pending_create       *)
(* cleared), the server holds an object under the file's id: later       *)
(* updates and deletes through that id reach the file.                    *)
InsertedFileExistsRemotely ==
    \A id \in Ids :
        /\ Alive(id) /\ ~local[id].dir /\ ~local[id].pendingCreate
        => remote[id].st # "absent"

(* No queued or in-flight request refers to a node that has been         *)
(* destroyed: send_*_req never dereferences a freed GDFSNode.             *)
NoDanglingRequest ==
    \A it \in Queued \cup InFlight : it.id \in Objs => ~Destroyed(it.id)

(* Every child of the root is filed under its own file_name, so that     *)
(* get_node finds a file by the name readdir shows and remove_child and  *)
(* rename_child (which look a child up by file_name) find it; whatever   *)
(* send_get_req learns from the server.                                    *)
KeyMatchesName ==
    \A k \in DOMAIN children : local[children[k]].name = k

(* get_children destroys a node only for a Drive file that Drive no      *)
(* longer lists: every listed id of a known live node or of a new node   *)
(* lands in s1, so the set difference s2 - s1 never names a file that     *)
(* exists on the server, whatever order the listing comes in and however  *)
(* the names conflict; a special file (never on Drive) is kept.           *)
ListingKeepsServerFiles ==
    [][\A o \in LocalIds : local[o].st = "live" /\ local'[o].st = "dropped"
                          => o \in Objs /\ remote[o].st # "present"]_vars
-----------------------------------------------------------------------------
(***************************************************************************)
(* Liveness.  Each worker is a thread that, once able to take a step,     *)
(* keeps being scheduled by the OS: weak fairness per worker.             *)
(***************************************************************************)
WorkerStep(w) == WorkerWait(w) \/ WorkerPop(w) \/ SendRequest(w) \/ HandleReply(w)

FairSpec == Spec /\ \A w \in Workers : WF_vars(WorkerStep(w))

Drained == queue = <<>> /\ \A w \in Workers : pc[w] = "wait"

(* Unless the daemon crashes, every request the adapter queues is        *)
(* eventually handled: the worker pool drains the queue and goes back    *)
(* to sem_wait.                                                           *)
QueueEventuallyDrains == <>[](crashed \/ Drained)
====
