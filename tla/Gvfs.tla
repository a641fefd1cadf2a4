-------------------------------- MODULE Gvfs --------------------------------
(***************************************************************************)
(* GitVirtualFileSystem (src/infrastructure/storage/gvfs) for one session: *)
(* a git clone with an overlay of changes that is kept in memory, in a     *)
(* store of changed files and in a state file (vfs_state.json), and that   *)
(* is committed to the clone on request.                                   *)
(*                                                                         *)
(* The asyncio lock covers mount and unmount only.  Reads, writes, deletes *)
(* and commits take the mount object and go on with it across their        *)
(* awaits, whatever is mounted by then.  A file that is opened for writing *)
(* is truncated at once and has its bytes when it is closed, so each       *)
(* writing of a file is two steps; a crash may come between any two, and   *)
(* each may raise (a directory in the way, permissions, a full disk).      *)
(*                                                                         *)
(* Paths are already normalised and contents have one length.  Branches,   *)
(* commit_sha, sizes, times and the text of diffs are left out.            *)
(***************************************************************************)
EXTENDS Naturals, FiniteSets

CONSTANTS Repos,       \* repositories that are mounted
          Paths,       \* paths of files
          Tracked,     \* the paths that every repository has at first
          Contents,    \* contents of files
          Original,    \* what the tracked files have at first
          Empty,       \* the content of a file that was only truncated
          None,        \* no content, no repository, nobody
          Requests,    \* coroutines of HTTP requests
          Objects,     \* identities of SessionMount objects
          MaxRequests, \* bound on the requests of a behaviour
          MaxMishaps   \* bound on the crashes and the file operations that raise

ASSUME GvfsAssumption ==
    /\ IsFiniteSet(Paths) /\ Tracked \subseteq Paths
    /\ Original \in Contents
    /\ Empty \notin Contents /\ None \notin Contents /\ Empty # None
    /\ None \notin Repos /\ None \notin Requests /\ None \notin Objects
    /\ MaxRequests \in Nat /\ MaxMishaps \in Nat

VARIABLES
    objs,      \* SessionMount objects: url, dir (local_path) and files
    mounted,   \* self._mounts[session_id], None if there is no entry
    lock,      \* self._lock: the request that holds it
    tree,      \* per repository the working tree of its clone
    index,     \* per repository what git add has staged
    head,      \* per repository the files of HEAD, NoClone before git clone
    store,     \* sessions/<id>/changes/<path>
    state,     \* vfs_state.json: NoState, Torn, or what was saved
    job,       \* per request what it does, where it is and what it holds
    requests,  \* requests made
    mishaps,   \* crashes of the gateway, and file operations that have raised
    promised,  \* history: per path what the last write, undisturbed, left
    failed,    \* history: paths with nothing in the store since storing them raised
    exposed,   \* history: changed paths that a state was saved with too early
    late,      \* history: paths that others worked on while a commit went on
    missed     \* history: paths that the commit going on could not copy or stage

clone   == <<tree, index, head>>
disk    == <<clone, store, state>>
bounds  == <<requests, mishaps>>
history == <<promised, failed, exposed, late, missed>>
vars    == <<objs, mounted, lock, disk, job, bounds, history>>

NoUrl   == [repo |-> None, token |-> FALSE]
NoFiles == [p \in Paths |-> None]
NoClone == [cloned |-> FALSE, files |-> NoFiles]
Bytes   == Contents \cup {Empty}

\* git's object names and the code's truncated SHA-256 never coincide.
NoSha     == << >>
GitSha(c) == <<"git", c>>
Sha256(c) == <<"sha256", c>>
Shas      == {NoSha} \cup {<<k, c>> : k \in {"git", "sha256"}, c \in Contents}

Statuses == {"absent", "unchanged", "modified", "added", "deleted", "untracked"}
Absent   == [content |-> None, sha |-> NoSha, status |-> "absent", head |-> NoSha]
VirtualFile == [content : Bytes \cup {None}, sha : Shas, status : Statuses, head : Shas]

\* has_changes
HasChanges(v) == v.status \in {"modified", "added", "deleted"}
Blank == [url |-> NoUrl, dir |-> None, files |-> [p \in Paths |-> Absent]]

\* What a state file holds of a mount: everything of a file but its content.
Unloaded(v) == [v EXCEPT !.content = None]
Image(o)    == [kind |-> "saved", url |-> o.url, files |-> [p \in Paths |-> Unloaded(o.files[p])]]
NoState     == [Image(Blank) EXCEPT !.kind = "missing"]
Torn        == [Image(Blank) EXCEPT !.kind = "torn"]

Idle == [op |-> "none", at |-> "idle", obj |-> None, path |-> None, want |-> None,
         buf |-> None, from |-> None, held |-> TRUE, open |-> TRUE, snap |-> NoState,
         todo |-> {}, size |-> 0, alone |-> FALSE]

Ops    == {"none", "mount", "unmount", "read", "write", "commit"}
Places == {"idle", "mounting", "cloning", "loading", "loaded", "storing", "stored",
           "saving", "saved", "applying", "committed"}

TypeOK ==
    /\ mounted \in Objects \cup {None}
    /\ lock \in Requests \cup {None}
    /\ \A o \in Objects : /\ objs[o].url.repo \in Repos \cup {None}
                          /\ objs[o].dir \in Repos \cup {None}
                          /\ objs[o].files \in [Paths -> VirtualFile]
    /\ tree \in [Repos -> [Paths -> Bytes \cup {None}]]
    /\ index \in [Repos -> [Paths -> Bytes \cup {None}]]
    /\ head \in [Repos -> [cloned : BOOLEAN, files : [Paths -> Bytes \cup {None}]]]
    /\ store \in [Paths -> Bytes \cup {None}]
    /\ state.kind \in {"missing", "torn", "saved"}
    /\ \A r \in Requests : job[r].op \in Ops /\ job[r].at \in Places

Init ==
    /\ objs = [o \in Objects |-> Blank]
    /\ mounted = None
    /\ lock = None
    /\ tree = [g \in Repos |-> NoFiles]
    /\ index = [g \in Repos |-> NoFiles]
    /\ head = [g \in Repos |-> NoClone]
    /\ store = NoFiles
    /\ state = NoState
    /\ job = [r \in Requests |-> Idle]
    /\ requests = 0
    /\ mishaps = 0
    /\ promised = NoFiles
    /\ failed = {}
    /\ exposed = {}
    /\ late = {}
    /\ missed = {}

-----------------------------------------------------------------------------
(* Helpers.                                                                *)

Free(r)    == job[r].at = "idle"
Asked(r)   == Free(r) /\ requests < MaxRequests /\ requests' = requests + 1
Mishap     == mishaps < MaxMishaps /\ mishaps' = mishaps + 1
Busy       == {r \in Requests : ~Free(r)}
Present(o) == {p \in Paths : objs[o].files[p].status # "absent"}

\* A request begins.  Its work is undisturbed if nothing else goes on meanwhile.
Disturb(j) == [r \in Requests |-> [j[r] EXCEPT !.alone = FALSE]]
Begin(r, rec) ==
    job' = [Disturb(job) EXCEPT ![r] = [rec EXCEPT !.alone = (rec.op = "write" /\ Busy = {})]]
End(r)     == job' = [job EXCEPT ![r] = Idle]

\* An object that is neither mounted nor held by a request is gone.
Kept(new)  == [o \in Objects |-> IF mounted' = o \/ \E r \in Requests : job'[r].obj = o
                                 THEN new[o] ELSE Blank]
SetFile(o, p, v) == [objs EXCEPT ![o].files[p] = v]

\* Identities for a new object (a bound: more objects than requests are enough).
Unused == {o \in Objects : o # mounted /\ \A r \in Requests : job[r].obj # o}

\* Commits that go on, and the paths touched since they began.
Committing == {r \in Requests : job[r].op = "commit"}
Touched(p) == IF Committing = {} THEN late ELSE late \cup {p}

\* Paths whose change is in memory and not, or not yet, in the store.
Unstored == failed \cup {p \in Paths : \E r \in Requests : job[r].at = "storing" /\ job[r].path = p}

\* The file a job holds: still the one of the mount, or one deleted from it.
HeldContent(r) == IF job[r].held THEN objs[job[r].obj].files[job[r].path].content
                  ELSE job[r].buf

-----------------------------------------------------------------------------
(* mount_repository and unmount, under the lock.                           *)

\* The mount is reused if url and branch are the requested ones; clone_repository
\* has put the token into the url, which then never equals a requested one.
Reused(g) == mounted # None /\ objs[mounted].url = [repo |-> g, token |-> FALSE]

\* mount_repository up to the query for the tenant and the mkdir of local_path.
MountBegin(r, g, token) ==
    /\ Asked(r) /\ lock = None
    /\ ~Reused(g) /\ Unused # {}
    /\ LET o == CHOOSE o \in Objects : o \in Unused
       IN /\ Begin(r, [Idle EXCEPT !.op = "mount", !.at = "mounting", !.obj = o])
          /\ objs' = [objs EXCEPT ![o] = [Blank EXCEPT !.url = [repo |-> g, token |-> token],
                                                       !.dir = g]]
    /\ lock' = r
    /\ UNCHANGED <<mounted, disk, mishaps, history>>

MountEnds(r, o) ==
    /\ mounted' = o
    /\ lock' = None
    /\ End(r)

\* restore_mount_state: url and files are those of the state file.
Restore(r) ==
    /\ job[r].at = "mounting" /\ state.kind = "saved"
    /\ MountEnds(r, job[r].obj)
    /\ objs' = Kept([objs EXCEPT ![job[r].obj].url = state.url, ![job[r].obj].files = state.files])
    /\ UNCHANGED <<disk, bounds, history>>

\* No state file: git clone is started.
CloneBegins(r) ==
    /\ job[r].at = "mounting" /\ state = NoState
    /\ job' = [job EXCEPT ![r].at = "cloning"]
    /\ UNCHANGED <<objs, mounted, lock, disk, bounds, history>>

\* clone_repository and index_repository.  git clones into an empty directory
\* only.  The url gets the token after the command line has been made.  A commit
\* of an earlier mount may be going on in that directory.
Clone(r) ==
    LET o == job[r].obj
        g == objs[o].dir
        files == [p \in Paths |-> IF p \in Tracked THEN Original ELSE None]
        indexed == [p \in Paths |->
                       IF p \in Tracked
                       THEN [Absent EXCEPT !.status = "unchanged", !.sha = GitSha(Original),
                                           !.head = GitSha(Original)]
                       ELSE Absent]
    IN /\ job[r].at = "cloning"
       /\ head[g] = NoClone /\ tree[g] = NoFiles
       /\ tree' = [tree EXCEPT ![g] = files]
       /\ index' = [index EXCEPT ![g] = files]
       /\ head' = [head EXCEPT ![g] = [cloned |-> TRUE, files |-> files]]
       /\ MountEnds(r, o)
       /\ objs' = Kept([objs EXCEPT ![o].files = indexed])
       /\ late' = IF Committing = {} THEN late ELSE Paths
       /\ UNCHANGED <<store, state, bounds, promised, failed, exposed, missed>>

\* Mutant: the lock is not released.
MountFails_KeepsLock(r) ==
    /\ job[r].at = "cloning" \/ (job[r].at = "mounting" /\ state.kind # "saved")
    /\ End(r)
    /\ UNCHANGED mounted
    /\ objs' = Kept(objs)
    /\ UNCHANGED <<lock, disk, bounds, history>>

\* json.loads raises on a torn state file, open on one that is cleaned up; git
\* clone fails on a directory that is not empty, or on its own.  The earlier
\* mount, if any, stays.
MountFails(r) ==
    /\ job[r].at = "cloning" \/ (job[r].at = "mounting" /\ state.kind # "saved")
    /\ lock' = None
    /\ End(r)
    /\ UNCHANGED mounted
    /\ objs' = Kept(objs)
    /\ UNCHANGED <<disk, bounds, history>>

\* The snapshot that save_mount_state takes before it opens the file.
Snapshot(r, o) ==
    job' = [job EXCEPT ![r] = [@ EXCEPT !.at = "saving", !.snap = Image(o), !.open = TRUE,
                                        !.from = None, !.buf = None, !.todo = {}, !.size = 0]]

\* unmount(persist=True) up to the opening of the state file.
UnmountPersist(r) ==
    /\ Asked(r) /\ lock = None /\ mounted # None
    /\ mounted' = None
    /\ lock' = r
    /\ Begin(r, [Idle EXCEPT !.op = "unmount", !.at = "saving", !.snap = Image(objs[mounted])])
    /\ objs' = Kept(objs)
    /\ exposed' = exposed \cup Unstored
    /\ UNCHANGED <<disk, mishaps, promised, failed, late, missed>>

\* unmount(persist=False): rmtree of the session's store and state file, of which
\* the stored files S are gone, and the state file or not.  Files that are open go
\* on without a name; the clone is left.
CleanUp(r, S, gone) ==
    /\ Asked(r) /\ lock = None /\ mounted # None
    /\ mounted' = None
    /\ store' = [p \in Paths |-> IF p \in S THEN None ELSE store[p]]
    /\ state' = IF gone THEN NoState ELSE state
    /\ job' = [j \in Requests |-> [job[j] EXCEPT !.alone = FALSE,
                  !.open = @ /\ ~(job[j].at \in {"storing", "stored"} /\ job[j].path \in S)
                             /\ ~(job[j].at \in {"saving", "saved"} /\ gone)]]
    /\ objs' = Kept(objs)
    /\ promised' = NoFiles
    /\ failed' = {}
    /\ exposed' = IF Busy = {} /\ gone THEN {} ELSE Paths
    /\ UNCHANGED <<lock, clone, late, missed>>

UnmountCleanUp(r) == CleanUp(r, Paths, TRUE) /\ UNCHANGED mishaps

\* rmtree raises when it has removed some of it.
CleanUpRaises(r) == Mishap /\ \E S \in SUBSET Paths, gone \in BOOLEAN : CleanUp(r, S, gone)

-----------------------------------------------------------------------------
(* read_file (and get_diff, which reads the file first).                   *)

\* Mutant: the clone is looked at before the store.
Source_CloneFirst(o, p) ==
    IF tree[objs[o].dir][p] # None THEN "clone"
    ELSE IF store[p] # None THEN "store" ELSE "nothing"

\* Where _load_content finds the bytes: the store before the clone.
Source(o, p) ==
    IF store[p] # None THEN "store"
    ELSE IF tree[objs[o].dir][p] # None THEN "clone" ELSE "nothing"

\* read_file: a file only the clone has is added as untracked; content that is
\* not in memory is loaded.
ReadFile(r, p) ==
    LET v == objs[mounted].files[p]
        entry == IF v.status = "absent" THEN [Absent EXCEPT !.status = "untracked"] ELSE v
    IN /\ Asked(r) /\ mounted # None
       /\ v.content = None
       /\ v.status # "absent" \/ tree[objs[mounted].dir][p] # None
       /\ IF Source(mounted, p) = "nothing" THEN job' = job
          ELSE Begin(r, [Idle EXCEPT !.op = "read", !.at = "loading", !.obj = mounted,
                                     !.path = p, !.from = Source(mounted, p)])
       /\ UNCHANGED mounted
       /\ objs' = Kept(SetFile(mounted, p, entry))
       /\ UNCHANGED <<lock, disk, mishaps, history>>

\* The bytes are read by a thread; a file that is gone by then raises.
LoadReads(r) ==
    LET bytes == IF job[r].from = "store" THEN store[job[r].path]
                 ELSE tree[objs[job[r].obj].dir][job[r].path]
    IN /\ job[r].at = "loading"
       /\ IF bytes = None THEN End(r)
          ELSE job' = [job EXCEPT ![r].at = "loaded", ![r].buf = bytes]
       /\ UNCHANGED mounted
       /\ objs' = Kept(objs)
       /\ UNCHANGED <<lock, disk, bounds, history>>

\* The coroutine resumes and assigns what was read, whatever is there by now.
LoadAssigns(r) ==
    LET v == objs[job[r].obj].files[job[r].path]
        loaded == [v EXCEPT !.content = job[r].buf,
                            !.head = IF job[r].from = "clone" THEN v.sha ELSE @]
    IN /\ job[r].at = "loaded"
       /\ End(r)
       /\ UNCHANGED mounted
       /\ objs' = Kept(IF job[r].held THEN SetFile(job[r].obj, job[r].path, loaded) ELSE objs)
       /\ late' = Touched(job[r].path)
       /\ UNCHANGED <<lock, disk, bounds, promised, failed, exposed, missed>>

-----------------------------------------------------------------------------
(* write_file and delete_file.                                             *)

\* Mutant: a new file gets a status of its own.
Written_Created(v, c) ==
    IF v.status = "absent"
    THEN [content |-> c, sha |-> Sha256(c), status |-> "created", head |-> NoSha]
    ELSE [v EXCEPT !.content = c, !.sha = Sha256(c), !.status = "modified"]

\* The entry after a write: added if there was none, else compared with head_sha.
Written(v, c) ==
    IF v.status = "absent"
    THEN [content |-> c, sha |-> Sha256(c), status |-> "added", head |-> NoSha]
    ELSE [v EXCEPT !.content = c, !.sha = Sha256(c),
                   !.status = IF Sha256(c) # v.head THEN "modified" ELSE "unchanged"]

\* Mutant: the state is saved before the content is stored.
WriteFile_SavesFirst(r, p, c) ==
    /\ Asked(r) /\ mounted # None
    /\ Begin(r, [Idle EXCEPT !.op = "write", !.at = "storing", !.obj = mounted,
                             !.path = p, !.want = c])
    /\ UNCHANGED mounted
    /\ objs' = Kept(SetFile(mounted, p, Written(objs[mounted].files[p], c)))
    /\ state' = Image(objs'[mounted])
    /\ promised' = [promised EXCEPT ![p] = None]
    /\ UNCHANGED <<lock, clone, store, mishaps, failed, exposed, late, missed>>

\* write_file up to the opening of the stored file.
WriteFile(r, p, c) ==
    /\ Asked(r) /\ mounted # None
    /\ Begin(r, [Idle EXCEPT !.op = "write", !.at = "storing", !.obj = mounted,
                             !.path = p, !.want = c])
    /\ UNCHANGED mounted
    /\ objs' = Kept(SetFile(mounted, p, Written(objs[mounted].files[p], c)))
    /\ promised' = [promised EXCEPT ![p] = None]
    /\ late' = Touched(p)
    /\ UNCHANGED <<lock, disk, mishaps, failed, exposed, missed>>

\* persist_file_change: the stored file is opened, which truncates it, and
\* vfile.content, as it is now, goes into its buffer.  A file deleted meanwhile
\* has no content, and the write raises.
StoreOpens(r) ==
    LET c == HeldContent(r)
    IN /\ job[r].at = "storing"
       /\ store' = [store EXCEPT ![job[r].path] = Empty]
       /\ IF c = None THEN End(r)
          ELSE job' = [job EXCEPT ![r].at = "stored", ![r].buf = c, ![r].open = TRUE]
       /\ failed' = failed \ {job[r].path}
       /\ UNCHANGED mounted
       /\ objs' = Kept(objs)
       /\ UNCHANGED <<lock, clone, state, bounds, promised, exposed, late, missed>>

\* The stored file is closed; then save_mount_state takes its snapshot.
StoreCloses(r) ==
    /\ job[r].at = "stored"
    /\ store' = IF job[r].open THEN [store EXCEPT ![job[r].path] = job[r].buf] ELSE store
    /\ Snapshot(r, objs[job[r].obj])
    /\ exposed' = exposed \cup Unstored
    /\ UNCHANGED <<objs, mounted, lock, clone, state, bounds, promised, failed, late, missed>>

\* The state file is opened, which truncates it.
SaveOpens(r) ==
    /\ job[r].at = "saving"
    /\ state' = Torn
    /\ job' = [job EXCEPT ![r].at = "saved", ![r].open = TRUE]
    /\ UNCHANGED <<objs, mounted, lock, clone, store, bounds, history>>

\* mkdir, open, read or the write that closing flushes raises, and with it the
\* request: what was truncated stays so, and a change stays in memory.
FileRaises(r) ==
    /\ Mishap
    /\ job[r].at \in {"loading", "storing", "stored", "saving", "saved"}
    /\ lock' = IF lock = r THEN None ELSE lock
    /\ failed' = IF job[r].at = "storing" /\ store[job[r].path] = None
                 THEN failed \cup {job[r].path} ELSE failed
    /\ End(r)
    /\ UNCHANGED mounted
    /\ objs' = Kept(objs)
    /\ UNCHANGED <<disk, requests, promised, exposed, late, missed>>

\* The state file is closed and the request ends.  Over a different, longer
\* state that another request wrote meanwhile, a tail of it stays.
SaveCloses(r) ==
    /\ job[r].at = "saved"
    /\ \/ ~job[r].open /\ UNCHANGED state
       \/ job[r].open /\ state' = job[r].snap
       \/ job[r].open /\ state \notin {Torn, job[r].snap} /\ state' = Torn
    /\ lock' = IF lock = r THEN None ELSE lock
    /\ End(r)
    /\ UNCHANGED mounted
    /\ objs' = Kept(objs)
    /\ promised' = IF job[r].alone THEN [promised EXCEPT ![job[r].path] = job[r].want]
                   ELSE promised
    /\ UNCHANGED <<clone, store, bounds, failed, exposed, late, missed>>

\* delete_file: nothing is saved, and the stored file stays.  A request that
\* holds an entry which is removed goes on with it.
DeleteFile(r, p) ==
    LET v == objs[mounted].files[p]
        removed == v.status = "added"
    IN /\ Asked(r) /\ mounted # None
       /\ v.status # "absent"
       /\ job' = [j \in Requests |->
                     IF removed /\ job[j].obj = mounted /\ job[j].path = p /\ job[j].held
                     THEN [job[j] EXCEPT !.alone = FALSE, !.held = FALSE,
                              !.buf = IF job[j].at = "storing" THEN v.content ELSE @]
                     ELSE [job[j] EXCEPT !.alone = FALSE]]
       /\ UNCHANGED mounted
       /\ objs' = Kept(SetFile(mounted, p, IF removed THEN Absent
                                           ELSE [v EXCEPT !.status = "deleted", !.content = None]))
       /\ promised' = [promised EXCEPT ![p] = None]
       /\ late' = Touched(p)
       /\ UNCHANGED <<lock, disk, mishaps, failed, exposed, missed>>

-----------------------------------------------------------------------------
(* commit_changes.                                                         *)

Commit(r) ==
    /\ Asked(r) /\ mounted # None
    /\ Begin(r, [Idle EXCEPT !.op = "commit", !.at = "applying", !.obj = mounted,
                             !.todo = Present(mounted), !.size = Cardinality(Present(mounted))])
    /\ late' = IF Committing = {} THEN {} ELSE Paths
    /\ missed' = {}
    /\ UNCHANGED <<objs, mounted, lock, disk, mishaps, promised, failed, exposed>>

\* The dict of files has not changed its size since the iteration began.
SameSize(r) == Cardinality(Present(job[r].obj)) = job[r].size

\* Mutant: only files that are new are copied.
Applied_NewOnly(v, bytes) == IF v.status = "added" THEN v.content ELSE bytes

\* What apply_to_workspace makes of a file of the clone: nothing if the content
\* of the change has not been loaded.
Applied(v, bytes) ==
    IF v.status = "deleted" THEN None
    ELSE IF HasChanges(v) /\ v.content # None THEN v.content ELSE bytes

\* apply_to_workspace, one file.  Others may run between any two files here; in
\* the code, only where a file is written.
ApplyFile(r, p) ==
    LET o == job[r].obj
        g == objs[o].dir
        v == objs[o].files[p]
    IN /\ job[r].at = "applying" /\ SameSize(r)
       /\ p \in job[r].todo
       /\ tree' = [tree EXCEPT ![g][p] = Applied(v, @)]
       /\ job' = [job EXCEPT ![r].todo = @ \ {p}]
       /\ UNCHANGED <<objs, mounted, lock, index, head, store, state, bounds, history>>

\* unlink, mkdir, open or the write raises, which apply_to_workspace puts down in
\* errors and commit_changes does not look at; a file may have been truncated.
ApplyFails(r, p) ==
    LET o == job[r].obj
        g == objs[o].dir
        v == objs[o].files[p]
    IN /\ job[r].at = "applying" /\ SameSize(r)
       /\ p \in job[r].todo
       /\ v.status = "deleted" \/ (HasChanges(v) /\ v.content # None)
       /\ Mishap
       /\ \/ UNCHANGED tree
          \/ v.status # "deleted" /\ tree' = [tree EXCEPT ![g][p] = Empty]
       /\ job' = [job EXCEPT ![r].todo = @ \ {p}]
       /\ missed' = missed \cup {p}
       /\ UNCHANGED <<objs, mounted, lock, index, head, store, state, requests,
                      promised, failed, exposed, late>>

\* RuntimeError: dictionary changed size during iteration.
ApplyRaises(r) ==
    /\ job[r].at = "applying" /\ ~SameSize(r)
    /\ End(r)
    /\ UNCHANGED mounted
    /\ objs' = Kept(objs)
    /\ UNCHANGED <<lock, disk, bounds, history>>

Applies(r) == job[r].at = "applying" /\ job[r].todo = {} /\ SameSize(r)

\* git add -A and git commit, in a clone with something to commit.
GitCommits(r) ==
    LET g == objs[job[r].obj].dir
    IN /\ Applies(r)
       /\ head[g].cloned /\ head[g].files # tree[g]
       /\ index' = [index EXCEPT ![g] = tree[g]]
       /\ head' = [head EXCEPT ![g].files = tree[g]]
       /\ job' = [job EXCEPT ![r].at = "committed"]
       /\ UNCHANGED <<objs, mounted, lock, tree, store, state, bounds, history>>

\* git add fails, which nobody looks at: git commits what an earlier commit that
\* failed has staged.
GitCommitsStaged(r) ==
    LET g == objs[job[r].obj].dir
    IN /\ Applies(r) /\ Mishap
       /\ head[g].cloned /\ head[g].files # index[g]
       /\ head' = [head EXCEPT ![g].files = index[g]]
       /\ job' = [job EXCEPT ![r].at = "committed"]
       /\ missed' = Paths
       /\ UNCHANGED <<objs, mounted, lock, tree, index, store, state, requests,
                      promised, failed, exposed, late>>

\* git commit fails: nothing to commit, no clone, or a reason of its own.
GitRefuses(r) ==
    LET g == objs[job[r].obj].dir
    IN /\ Applies(r)
       /\ \/ UNCHANGED index
          \/ head[g].cloned /\ index' = [index EXCEPT ![g] = tree[g]]
       /\ End(r)
       /\ UNCHANGED mounted
       /\ objs' = Kept(objs)
       /\ UNCHANGED <<lock, tree, head, store, state, bounds, history>>

\* After git rev-parse: every changed file is now unchanged, and the state is saved.
CommitMarks(r) ==
    LET o == job[r].obj
        marked == [p \in Paths |-> LET v == objs[o].files[p]
                                   IN IF HasChanges(v)
                                      THEN [v EXCEPT !.status = "unchanged", !.head = v.sha]
                                      ELSE v]
    IN /\ job[r].at = "committed"
       /\ objs' = [objs EXCEPT ![o].files = marked]
       /\ Snapshot(r, objs'[o])
       /\ exposed' = exposed \cup Unstored
       /\ UNCHANGED <<mounted, lock, disk, bounds, promised, failed, late, missed>>

-----------------------------------------------------------------------------
\* The gateway stops and starts again: what is on disk stays.
Crash ==
    /\ Mishap
    /\ objs' = [o \in Objects |-> Blank]
    /\ mounted' = None
    /\ lock' = None
    /\ job' = [r \in Requests |-> Idle]
    /\ failed' = {}
    /\ UNCHANGED <<disk, requests, promised, exposed, late, missed>>

\* A request up to its first await.
Request(r) ==
    \/ \E g \in Repos, token \in BOOLEAN : MountBegin(r, g, token)
    \/ UnmountPersist(r) \/ UnmountCleanUp(r) \/ CleanUpRaises(r)
    \/ \E p \in Paths : ReadFile(r, p) \/ DeleteFile(r, p)
    \/ \E p \in Paths, c \in Contents : WriteFile(r, p, c)
    \/ Commit(r)

\* What a request does after it, but for the end of git clone.
Continue(r) ==
    \/ Restore(r) \/ CloneBegins(r) \/ (job[r].at = "mounting" /\ MountFails(r))
    \/ LoadReads(r) \/ LoadAssigns(r)
    \/ StoreOpens(r) \/ StoreCloses(r) \/ SaveOpens(r) \/ SaveCloses(r) \/ FileRaises(r)
    \/ \E p \in Paths : ApplyFile(r, p) \/ ApplyFails(r, p)
    \/ ApplyRaises(r) \/ GitCommits(r) \/ GitCommitsStaged(r) \/ GitRefuses(r) \/ CommitMarks(r)

CloneEnds(r) == Clone(r) \/ (job[r].at = "cloning" /\ MountFails(r))

Next ==
    \/ \E r \in Requests : Request(r) \/ Continue(r) \/ CloneEnds(r)
    \/ Crash

Spec == Init /\ [][Next]_vars

\* The event loop resumes every coroutine whose await is over, threads finish
\* their file operations and local git commands end; git clone talks to a remote
\* and has no timeout, and nobody is obliged to make a request.
FairSpec == Spec /\ \A r \in Requests : WF_vars(Continue(r))

-----------------------------------------------------------------------------
(* Properties.                                                             *)

\* Read your writes.  After a write that nothing disturbed (write_file and
\* persist_file_change), until the path is written or deleted again, the mount
\* has an entry for the path, and its content is what was written, in memory or,
\* when it has yet to be loaded, in the store: across reads, commits, unmounts,
\* remounts and crashes, and whatever other paths are worked on meanwhile.
ReadYourWrites ==
    \A p \in Paths : promised[p] # None /\ mounted # None =>
        LET v == objs[mounted].files[p]
        IN /\ v.status \notin {"absent", "deleted"}
           /\ v.content \in {None, promised[p]}
           /\ store[p] = promised[p]

\* persist_file_change stores a file before save_mount_state records its change,
\* so that a state file that a crash leaves behind never lists a change that was
\* not stored; except when the state was saved while another request was about
\* to store that path, or after storing it had failed (the entry is changed in
\* memory first, and stays so), or was cleaned up under requests that were going
\* on, or in part.
StateIsBacked ==
    \A p \in Paths \ exposed :
        state.files[p].status \in {"added", "modified"} => store[p] # None

\* The state that a restart would find, and that of the mounts, are sound.
StateIsSound == TypeOK /\ StateIsBacked

\* A commit that git accepts has every change that was in memory when it began
\* (apply_to_workspace, git add, git commit): for every file that is changed and
\* loaded, and that no request wrote, deleted, loaded, cloned or committed while
\* the commit went on, HEAD has that content, and none of a deleted file; whatever
\* earlier commits that failed, mounts or crashes have left in the clone.  Not so
\* for a file that could not be copied, and for any when git add failed: nobody
\* looks at these errors.
CommitTakesLoadedChanges ==
    [][\A r \in Requests : job[r].at = "applying" /\ job'[r].at = "committed" =>
          LET o == objs[job[r].obj]
          IN \A p \in Paths \ (late \cup missed') :
                /\ o.files[p].status = "deleted" => head'[o.dir].files[p] = None
                /\ o.files[p].status \in {"added", "modified"} /\ o.files[p].content # None
                      => head'[o.dir].files[p] = o.files[p].content]_vars

\* The lock of the file system, which all sessions share, is released again and
\* again, whichever mount or unmount fails, unless a git clone that never ends
\* holds it: clone_repository waits for git without a timeout.
LockReleased ==
    []<>(lock = None) \/ <>[](\E r \in Requests : lock = r /\ job[r].at = "cloning")
=============================================================================
