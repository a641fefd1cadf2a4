----------------------------- MODULE GvfsProofs -----------------------------
(***************************************************************************)
(* Proofs about Gvfs for any repositories, paths, contents and requests.   *)
(***************************************************************************)
EXTENDS Gvfs, FiniteSetTheorems, TLAPS

-----------------------------------------------------------------------------
(* The inductive invariant.                                                *)

Urls   == [repo : Repos \cup {None}, token : BOOLEAN]
Mounts == [url : Urls, dir : Repos \cup {None}, files : [Paths -> VirtualFile]]
Images == [kind : {"missing", "torn", "saved"}, url : Urls, files : [Paths -> VirtualFile]]
Jobs   == [op : Ops, at : Places, obj : Objects \cup {None}, path : Paths \cup {None},
           want : Contents \cup {None}, buf : Bytes \cup {None},
           from : {"store", "clone", None}, held : BOOLEAN, open : BOOLEAN, snap : Images,
           todo : SUBSET Paths, size : Nat, alone : BOOLEAN]

Types ==
    /\ objs \in [Objects -> Mounts]
    /\ mounted \in Objects \cup {None}
    /\ lock \in Requests \cup {None}
    /\ tree \in [Repos -> [Paths -> Bytes \cup {None}]]
    /\ index \in [Repos -> [Paths -> Bytes \cup {None}]]
    /\ head \in [Repos -> [cloned : BOOLEAN, files : [Paths -> Bytes \cup {None}]]]
    /\ store \in [Paths -> Bytes \cup {None}]
    /\ state \in Images
    /\ job \in [Requests -> Jobs]
    /\ promised \in [Paths -> Contents \cup {None}]
    /\ failed \subseteq Paths /\ exposed \subseteq Paths
    /\ late \subseteq Paths /\ missed \subseteq Paths

\* What a job holds at each of its places.
WellPlaced(j) ==
    /\ j.at = "idle" => j = Idle
    /\ j.at \in {"loading", "loaded"} =>
          /\ j.op = "read" /\ j.obj \in Objects /\ j.path \in Paths
          /\ j.from \in {"store", "clone"}
          /\ j.at = "loaded" => j.buf \in Bytes
    /\ j.at \in {"storing", "stored"} =>
          /\ j.op = "write" /\ j.obj \in Objects /\ j.path \in Paths /\ j.want \in Contents
          /\ j.at = "stored" => j.buf \in Bytes
    /\ j.at \in {"saving", "saved"} =>
          /\ j.op \in {"write", "commit", "unmount"} /\ j.snap.kind = "saved"
          /\ j.op = "write" => j.path \in Paths /\ j.want \in Contents
    /\ j.at \in {"applying", "committed"} => j.op = "commit" /\ j.obj \in Objects
    /\ j.at \in {"mounting", "cloning"} => j.op = "mount" /\ j.obj \in Objects
    /\ j.alone => j.op = "write"

\* Objects that are in use have a directory; one that is being mounted is
\* nobody else's.
Homes ==
    /\ mounted # None => objs[mounted].dir \in Repos
    /\ \A r \in Requests : job[r].obj # None => objs[job[r].obj].dir \in Repos
    /\ \A r \in Requests : job[r].at \in {"mounting", "cloning"} =>
          /\ job[r].obj # mounted
          /\ \A q \in Requests : q # r => job[q].obj # job[r].obj

Live(v)  == v.status \notin {"absent", "deleted"}
Dirty(v) == v.status \in {"added", "modified"}

\* An undisturbed write has no company and goes on with what was asked for.
Lone(r) ==
    /\ \A q \in Requests : q # r => job[q] = Idle
    /\ job[r].at \in {"storing", "stored", "saving", "saved"}
    /\ job[r].obj = mounted /\ job[r].open /\ job[r].held
    /\ LET v == objs[mounted].files[job[r].path]
       IN Live(v) /\ v.content = job[r].want
    /\ job[r].at = "stored" => job[r].buf = job[r].want
    /\ job[r].at \in {"saving", "saved"} =>
          store[job[r].path] = job[r].want /\ Live(job[r].snap.files[job[r].path])

Undisturbed == \A r \in Requests : job[r].alone => Lone(r)

\* Objects whose files are those of a mount.
InUse(o) ==
    o = mounted \/ \E r \in Requests : job[r].obj = o /\ job[r].at \notin {"mounting", "cloning"}

\* What a job may be doing to a path with a promise; while a clone goes on
\* nothing is promised, for there was no state file.
Respects(j, p, c) ==
    /\ j.path = p => /\ j.at \notin {"storing", "stored"}
                     /\ j.at \in {"loading", "loaded"} => j.from = "store"
                     /\ j.at = "loaded" => j.buf = c
    /\ j.at \in {"saving", "saved"} => Live(j.snap.files[p])
    /\ j.at # "cloning"

Promise(p) ==
    /\ store[p] = promised[p]
    /\ state.kind # "missing"
    /\ state.kind = "saved" => Live(state.files[p])
    /\ \A o \in Objects : InUse(o) =>
          /\ Live(objs[o].files[p])
          /\ objs[o].files[p].content \in {None, promised[p]}
    /\ \A r \in Requests : Respects(job[r], p, promised[p])

Promises == \A p \in Paths : promised[p] # None => Promise(p)

\* Nothing of a saved file is loaded.
Bare ==
    /\ \A p \in Paths : state.files[p].content = None
    /\ \A r \in Requests : \A p \in Paths : job[r].snap.files[p].content = None

\* A change that is not in the store is on its way there, or storing it has failed.
Backed ==
    /\ \A r \in Requests : ~job[r].open => exposed = Paths
    /\ \A p \in Paths \ exposed :
          /\ Dirty(state.files[p]) => store[p] # None
          /\ \A r \in Requests : job[r].at \in {"saving", "saved"} =>
                (Dirty(job[r].snap.files[p]) => store[p] # None)
          /\ \A o \in Objects : Dirty(objs[o].files[p]) => store[p] # None \/ p \in Unstored

\* What a commit has applied to a file of the clone.
Agrees(v, b) ==
    /\ v.status = "deleted" => b = None
    /\ Dirty(v) /\ v.content # None => b = v.content

\* Two commits at once make every path late; one that is alone has applied what
\* it is done with and has not missed.
Commits ==
    /\ \A r, q \in Committing : r # q => late = Paths
    /\ \A r \in Requests : job[r].at = "applying" =>
          \A p \in Paths \ (late \cup missed \cup job[r].todo) :
             Agrees(objs[job[r].obj].files[p], tree[objs[job[r].obj].dir][p])

IInv ==
    /\ Types
    /\ \A r \in Requests : WellPlaced(job[r])
    /\ Homes
    /\ Undisturbed
    /\ Promises
    /\ Bare
    /\ Backed
    /\ Commits

-----------------------------------------------------------------------------
(* Values of the model.                                                    *)

LEMMA ValuesTyped ==
    /\ Blank \in Mounts /\ NoState \in Images /\ Torn \in Images /\ Absent \in VirtualFile
    /\ Idle \in Jobs /\ WellPlaced(Idle)
    /\ \A p \in Paths : Blank.files[p] = Absent
    /\ Torn.kind = "torn" /\ NoState.kind = "missing"
    /\ \A p \in Paths : NoState.files[p] = Absent /\ Torn.files[p] = Absent
<1>1. Absent \in VirtualFile /\ Absent.content = None
      BY DEF Absent, VirtualFile, Shas, Statuses
<1>2. NoUrl \in Urls
      BY DEF NoUrl, Urls
<1>3. Blank \in Mounts /\ Blank.url = NoUrl /\ Blank.files = [p \in Paths |-> Absent]
      BY <1>1, <1>2 DEF Blank, Mounts
<1>4. \A p \in Paths : Unloaded(Blank.files[p]) = Absent
      BY <1>1, <1>3 DEF Unloaded, Absent
<1>5. Image(Blank) = [kind |-> "saved", url |-> NoUrl, files |-> [p \in Paths |-> Absent]]
      BY <1>3, <1>4 DEF Image
<1>6. /\ NoState = [kind |-> "missing", url |-> NoUrl, files |-> [p \in Paths |-> Absent]]
      /\ Torn = [kind |-> "torn", url |-> NoUrl, files |-> [p \in Paths |-> Absent]]
      BY <1>5 DEF NoState, Torn
<1>7. NoState \in Images /\ Torn \in Images
      BY <1>1, <1>2, <1>6 DEF Images
<1>8. Idle \in Jobs
      BY <1>7 DEF Idle, Jobs, Ops, Places
<1>9. WellPlaced(Idle)
      BY DEF Idle, WellPlaced
<1> QED BY <1>1, <1>3, <1>6, <1>7, <1>8, <1>9

\* What is saved of a mount: all but the contents.
LEMMA ImageFacts ==
    ASSUME NEW m \in Mounts
    PROVE  /\ Image(m) \in Images /\ Image(m).kind = "saved" /\ Image(m).url = m.url
           /\ \A p \in Paths : /\ Image(m).files[p].status = m.files[p].status
                               /\ Image(m).files[p].content = None
<1>1. \A p \in Paths : /\ Unloaded(m.files[p]) \in VirtualFile
                       /\ Unloaded(m.files[p]).status = m.files[p].status
                       /\ Unloaded(m.files[p]).content = None
      BY DEF Unloaded, Mounts, VirtualFile
<1>2. m.url \in Urls
      BY DEF Mounts
<1> QED BY <1>1, <1>2 DEF Image, Images

-----------------------------------------------------------------------------
(* The jobs of the others.                                                 *)

\* What becomes of the job of another request: it is no longer alone, may have
\* lost the entry it holds, and keeps its place and all it does there.
Follows(j, k) ==
    /\ k.op = j.op /\ k.at = j.at /\ k.obj = j.obj /\ k.path = j.path /\ k.want = j.want
    /\ k.from = j.from /\ k.snap = j.snap /\ k.todo = j.todo
    /\ k.at # "storing" => k.buf = j.buf
    /\ k.alone => k = j
    /\ j = Idle => k = Idle

LEMMA FollowsItself == \A j : Follows(j, j)
BY DEF Follows

LEMMA FollowsDisturbed ==
    ASSUME NEW j \in Jobs
    PROVE  /\ [j EXCEPT !.alone = FALSE] \in Jobs
           /\ Follows(j, [j EXCEPT !.alone = FALSE])
           /\ [j EXCEPT !.alone = FALSE].open = j.open
<1>1. ASSUME j = Idle PROVE [j EXCEPT !.alone = FALSE] = Idle
  <2>1. j.alone = FALSE
        BY <1>1 DEF Idle
  <2>2. [j EXCEPT !.alone = FALSE] = j
        BY <2>1 DEF Jobs
  <2> QED BY <1>1, <2>2
<1> QED BY <1>1 DEF Follows, Jobs

LEMMA FollowerWellPlaced ==
    ASSUME NEW j, NEW k, Follows(j, k), WellPlaced(j)
    PROVE  WellPlaced(k)
BY DEF Follows, WellPlaced

\* A request begins.
LEMMA BeginFacts ==
    ASSUME job \in [Requests -> Jobs], NEW r \in Requests, NEW rec \in Jobs, Begin(r, rec)
    PROVE  /\ job' \in [Requests -> Jobs]
           /\ \A q \in Requests : q # r => Follows(job[q], job'[q]) /\ job'[q].open = job[q].open
           /\ \A q \in Requests : q # r => ~job'[q].alone
           /\ job'[r] = [rec EXCEPT !.alone = (rec.op = "write" /\ Busy = {})]
<1> DEFINE alone == rec.op = "write" /\ Busy = {}
<1>1. [rec EXCEPT !.alone = alone] \in Jobs
      BY DEF Jobs
<1>2. \A q \in Requests : job[q] \in Jobs
      OBVIOUS
<1>3. job' = [q \in Requests |-> IF q = r THEN [rec EXCEPT !.alone = alone]
                                ELSE [job[q] EXCEPT !.alone = FALSE]]
      BY DEF Begin, Disturb
<1>4. \A q \in Requests : [job[q] EXCEPT !.alone = FALSE].alone = FALSE
      BY <1>2 DEF Jobs
<1> HIDE DEF alone
<1>5. job' \in [Requests -> Jobs]
      BY <1>1, <1>2, <1>3, FollowsDisturbed
<1>6. ASSUME NEW q \in Requests, q # r PROVE job'[q] = [job[q] EXCEPT !.alone = FALSE]
      BY <1>3, <1>6
<1>7. ASSUME NEW q \in Requests, q # r
      PROVE  Follows(job[q], job'[q]) /\ job'[q].open = job[q].open /\ ~job'[q].alone
      BY <1>2, <1>4, <1>6, <1>7, FollowsDisturbed
<1>8. job'[r] = [rec EXCEPT !.alone = alone]
      BY <1>3
<1> QED BY <1>5, <1>7, <1>8 DEF alone

\* A request ends.
LEMMA EndFacts ==
    ASSUME job \in [Requests -> Jobs], NEW r \in Requests, End(r)
    PROVE  /\ job' \in [Requests -> Jobs]
           /\ job'[r] = Idle
           /\ \A q \in Requests : q # r => job'[q] = job[q]
BY ValuesTyped DEF End

\* A request goes on.
LEMMA MoveFacts ==
    ASSUME job \in [Requests -> Jobs], NEW r \in Requests, NEW rec \in Jobs,
           job' = [job EXCEPT ![r] = rec]
    PROVE  /\ job' \in [Requests -> Jobs] /\ job'[r] = rec
           /\ \A q \in Requests : q # r => job'[q] = job[q]
OBVIOUS

\* An object that is in use keeps what it was given.
LEMMA KeptFacts ==
    ASSUME NEW new \in [Objects -> Mounts], objs' = Kept(new)
    PROVE  /\ objs' \in [Objects -> Mounts]
           /\ \A o \in Objects : objs'[o] = new[o] \/ objs'[o] = Blank
           /\ \A o \in Objects : mounted' = o => objs'[o] = new[o]
           /\ \A r \in Requests, o \in Objects : job'[r].obj = o => objs'[o] = new[o]
BY ValuesTyped DEF Kept

\* One file of one object is changed.
LEMMA SetFileFacts ==
    ASSUME objs \in [Objects -> Mounts], NEW o \in Objects, NEW p \in Paths,
           NEW v \in VirtualFile
    PROVE  /\ SetFile(o, p, v) \in [Objects -> Mounts]
           /\ \A x \in Objects : x # o => SetFile(o, p, v)[x] = objs[x]
           /\ SetFile(o, p, v)[o].dir = objs[o].dir
           /\ SetFile(o, p, v)[o].files[p] = v
           /\ \A x \in Paths : x # p => SetFile(o, p, v)[o].files[x] = objs[o].files[x]
<1>1. objs[o] \in Mounts
      OBVIOUS
<1>2. [objs[o] EXCEPT !.files[p] = v] \in Mounts
      BY <1>1 DEF Mounts
<1>3. SetFile(o, p, v) = [objs EXCEPT ![o] = [objs[o] EXCEPT !.files[p] = v]]
      BY DEF SetFile
<1>4. SetFile(o, p, v)[o] = [objs[o] EXCEPT !.files[p] = v]
      BY <1>3
<1>5. SetFile(o, p, v) \in [Objects -> Mounts]
      BY <1>2, <1>3
<1>6. \A x \in Objects : x # o => SetFile(o, p, v)[x] = objs[x]
      BY <1>3
<1> QED BY <1>1, <1>4, <1>5, <1>6 DEF Mounts

-----------------------------------------------------------------------------
(* What a step of one request leaves alone.                                *)

Step(r) ==
    /\ job' \in [Requests -> Jobs] /\ objs' \in [Objects -> Mounts]
    /\ \A q \in Requests : q # r => Follows(job[q], job'[q])

\* Somebody works with the object.
Held(o) == o = mounted \/ \E r \in Requests : job[r].obj = o

\* Every job is still well placed.
LEMMA WellKept ==
    ASSUME IInv, NEW r \in Requests, Step(r), WellPlaced(job'[r])
    PROVE  \A q \in Requests : WellPlaced(job'[q])
<1>1. ASSUME NEW q \in Requests, q # r PROVE WellPlaced(job'[q])
      BY <1>1, FollowerWellPlaced DEF IInv, Step
<1> QED BY <1>1

\* An object keeps its directory, and stays with who is mounting it.
LEMMA HomesKept ==
    ASSUME IInv, NEW r \in Requests, Step(r),
           \A o \in Objects : Held(o)' => objs'[o].dir = objs[o].dir,
           job'[r].at \notin {"mounting", "cloning"},
           job'[r].obj \in {None, mounted, job[r].obj},
           \/ mounted' \in {None, mounted}
           \/ job[r].at \in {"mounting", "cloning"} /\ mounted' = job[r].obj /\ job'[r].obj = None
    PROVE  Homes'
<1>1. ASSUME NEW q \in Requests, q # r
      PROVE  job'[q].obj = job[q].obj /\ job'[q].at = job[q].at
      BY <1>1 DEF Step, Follows
<1>2. Homes /\ Types
      BY DEF IInv
<1>3. \A q \in Requests : /\ job[q].obj \in Objects \cup {None}
                          /\ job'[q].obj \in Objects \cup {None}
                          /\ job[q].at \in {"mounting", "cloning"} => job[q].obj \in Objects
      BY DEF Step, IInv, Types, Jobs, WellPlaced
<1>4. ASSUME mounted' # None PROVE objs'[mounted'].dir \in Repos
  <2>1. \A o \in Objects : o = mounted' => Held(o)'
        BY DEF Held
  <2>2. mounted' \in Objects
        BY <1>2, <1>3, <1>4 DEF Types
  <2>3. objs'[mounted'].dir = objs[mounted'].dir
        BY <2>1, <2>2
  <2>4. objs[mounted'].dir \in Repos
        BY <1>2, <1>3, <1>4, <2>2, GvfsAssumption DEF Homes
  <2> QED BY <2>3, <2>4
<1>5. ASSUME NEW q \in Requests, job'[q].obj # None PROVE objs'[job'[q].obj].dir \in Repos
  <2>1. \A o \in Objects : o = job'[q].obj => Held(o)'
        BY DEF Held
  <2>2. objs'[job'[q].obj].dir = objs[job'[q].obj].dir
        BY <1>3, <1>5, <2>1
  <2>3. CASE q # r
        BY <1>1, <1>2, <1>5, <2>2, <2>3 DEF Homes
  <2>4. CASE q = r
        BY <1>2, <1>5, <2>2, <2>4 DEF Homes
  <2> QED BY <2>3, <2>4
<1>6. ASSUME NEW q \in Requests, job'[q].at \in {"mounting", "cloning"}, NEW x \in Requests, x # q
      PROVE  job'[q].obj # mounted' /\ job'[x].obj # job'[q].obj
  <2>1. /\ q # r /\ job[q].at \in {"mounting", "cloning"}
        /\ job[q].obj = job'[q].obj /\ job[q].obj \in Objects
        BY <1>1, <1>3, <1>6
  <2>2. job[q].obj # mounted /\ job[q].obj # None
        BY <1>2, <2>1, GvfsAssumption DEF Homes
  <2>3. \A y \in Requests : y # q => job[y].obj # job[q].obj
        BY <1>2, <2>1 DEF Homes
  <2>4. job'[q].obj # mounted'
        BY <2>1, <2>2, <2>3
  <2>5. CASE x # r
    <3>1. job'[x].obj = job[x].obj /\ job[x].obj # job[q].obj
          BY <1>1, <1>6, <2>3, <2>5
    <3> QED BY <2>1, <2>4, <3>1
  <2>6. CASE x = r
        BY <1>6, <2>1, <2>2, <2>3, <2>6
  <2> QED BY <2>4, <2>5, <2>6
<1>7. ASSUME NEW q \in Requests, job'[q].at \in {"mounting", "cloning"} PROVE job'[q].obj # mounted'
  <2>1. /\ q # r /\ job[q].at \in {"mounting", "cloning"}
        /\ job[q].obj = job'[q].obj /\ job[q].obj \in Objects
        BY <1>1, <1>3, <1>7
  <2>2. job[q].obj # mounted /\ job[q].obj # None
        BY <1>2, <2>1, GvfsAssumption DEF Homes
  <2>3. r # q => job[r].obj # job[q].obj
        BY <1>2, <2>1 DEF Homes
  <2> QED BY <2>1, <2>2, <2>3
<1> QED BY <1>4, <1>5, <1>6, <1>7 DEF Homes

\* While a request is at work no other is undisturbed.
LEMMA NobodyElseAlone ==
    ASSUME IInv, NEW r \in Requests, job[r].at # "idle", NEW q \in Requests, q # r
    PROVE  ~job[q].alone
<1>1. job[r] # Idle
      BY DEF Idle
<1> QED BY <1>1 DEF IInv, Undisturbed, Lone

LEMMA UndisturbedKept ==
    ASSUME IInv, NEW r \in Requests, Step(r),
           job[r].at # "idle" \/ \A q \in Requests : q # r => ~job'[q].alone,
           job'[r].alone => Lone(r)'
    PROVE  Undisturbed'
<1>1. ASSUME NEW q \in Requests, q # r PROVE ~job'[q].alone
      BY <1>1, NobodyElseAlone DEF Step, Follows
<1> QED BY <1>1 DEF Undisturbed

LEMMA PromisesKept ==
    ASSUME IInv, NEW r \in Requests, Step(r),
           \A p \in Paths : promised'[p] # None =>
              /\ promised[p] = promised'[p] /\ store'[p] = store[p]
              /\ \/ state' = state
                 \/ state'.kind = "torn"
                 \/ state'.kind = "saved" /\ Live(state'.files[p])
              /\ Respects(job'[r], p, promised[p])
              /\ \A o \in Objects : InUse(o)' =>
                    /\ Live(objs'[o].files[p])
                    /\ objs'[o].files[p].content \in {None, promised[p]}
    PROVE  Promises'
<1> SUFFICES ASSUME NEW p \in Paths, promised'[p] # None PROVE Promise(p)'
    BY DEF Promises
<1>1. Promise(p) /\ promised'[p] = promised[p]
      BY DEF IInv, Promises
<1>2. ASSUME NEW q \in Requests PROVE Respects(job'[q], p, promised'[p])
  <2>1. CASE q = r
        BY <1>1, <2>1
  <2>2. CASE q # r
    <3>1. Follows(job[q], job'[q]) /\ Respects(job[q], p, promised[p])
          BY <1>1, <2>2 DEF Step, Promise
    <3> QED BY <1>1, <3>1 DEF Follows, Respects
  <2> QED BY <2>1, <2>2
<1>3. store'[p] = promised'[p]
      BY <1>1 DEF Promise
<1>4. state'.kind # "missing" /\ (state'.kind = "saved" => Live(state'.files[p]))
      BY <1>1 DEF Promise
<1>5. ASSUME NEW o \in Objects, InUse(o)'
      PROVE  Live(objs'[o].files[p]) /\ objs'[o].files[p].content \in {None, promised'[p]}
      BY <1>1, <1>5
<1> QED BY <1>2, <1>3, <1>4, <1>5 DEF Promise

LEMMA BareKept ==
    ASSUME IInv, NEW r \in Requests, Step(r),
           \A p \in Paths : state'.files[p].content = None,
           \A p \in Paths : job'[r].snap.files[p].content = None
    PROVE  Bare'
<1>1. ASSUME NEW q \in Requests, q # r, NEW p \in Paths
      PROVE  job'[q].snap.files[p].content = None
      BY <1>1 DEF Step, Follows, IInv, Bare
<1> QED BY <1>1 DEF Bare

LEMMA BackedKept ==
    ASSUME IInv, NEW r \in Requests, Step(r),
           exposed \subseteq exposed', exposed' \subseteq Paths,
           \A q \in Requests : q # r => job'[q].open = job[q].open,
           ~job'[r].open => exposed' = Paths,
           \A p \in Paths \ exposed' :
              /\ Dirty(state'.files[p]) => store'[p] # None
              /\ job'[r].at \in {"saving", "saved"} =>
                    (Dirty(job'[r].snap.files[p]) => store'[p] # None)
              /\ \A o \in Objects : Dirty(objs'[o].files[p]) =>
                    \/ Dirty(objs[o].files[p])
                    \/ job'[r].at = "storing" /\ job'[r].path = p
                    \/ store'[p] # None
              /\ store[p] # None => store'[p] # None
              /\ job[r].at = "storing" /\ job[r].path = p =>
                    \/ job'[r].at = "storing" /\ job'[r].path = p
                    \/ store'[p] # None \/ p \in failed'
              /\ p \in failed => p \in failed' \/ store'[p] # None
    PROVE  Backed'
<1>1. ASSUME NEW q \in Requests, ~job'[q].open PROVE exposed' = Paths
      BY <1>1 DEF IInv, Backed
<1> SUFFICES ASSUME NEW p \in Paths \ exposed'
             PROVE  /\ Dirty(state'.files[p]) => store'[p] # None
                    /\ \A q \in Requests : job'[q].at \in {"saving", "saved"} =>
                          (Dirty(job'[q].snap.files[p]) => store'[p] # None)
                    /\ \A o \in Objects :
                          Dirty(objs'[o].files[p]) => store'[p] # None \/ p \in Unstored'
    BY <1>1 DEF Backed
<1>2. p \in Paths \ exposed
      OBVIOUS
<1>3. ASSUME NEW q \in Requests, job'[q].at \in {"saving", "saved"},
             Dirty(job'[q].snap.files[p])
      PROVE  store'[p] # None
  <2>1. CASE q = r
        BY <1>3, <2>1
  <2>2. CASE q # r
    <3>1. job[q].at = job'[q].at /\ job[q].snap = job'[q].snap
          BY <2>2 DEF Step, Follows
    <3>2. store[p] # None
          BY <1>2, <1>3, <3>1 DEF IInv, Backed
    <3> QED BY <3>2
  <2> QED BY <2>1, <2>2
<1>4. ASSUME NEW q \in Requests, job[q].at = "storing", job[q].path = p
      PROVE  p \in Unstored' \/ store'[p] # None
  <2>1. CASE q = r
        BY <1>4, <2>1 DEF Unstored
  <2>2. CASE q # r
    <3>1. job'[q].at = "storing" /\ job'[q].path = p
          BY <1>4, <2>2 DEF Step, Follows
    <3> QED BY <3>1 DEF Unstored
  <2> QED BY <2>1, <2>2
<1>5. ASSUME NEW o \in Objects, Dirty(objs'[o].files[p])
      PROVE  store'[p] # None \/ p \in Unstored'
  <2>1. CASE Dirty(objs[o].files[p])
    <3>1. store[p] # None \/ p \in Unstored
          BY <1>2, <2>1 DEF IInv, Backed
    <3>2. CASE store[p] # None
          BY <3>2
    <3>3. CASE p \in failed
          BY <3>3 DEF Unstored
    <3>4. CASE p \in Unstored \ failed
          BY <1>4, <3>4 DEF Unstored
    <3> QED BY <3>1, <3>2, <3>3, <3>4
  <2>2. CASE job'[r].at = "storing" /\ job'[r].path = p
        BY <2>2 DEF Unstored
  <2>3. CASE store'[p] # None
        BY <2>3
  <2> QED BY <1>5, <2>1, <2>2, <2>3
<1> QED BY <1>3, <1>5

\* The file of a commit is still what was applied.
Stays(v, w) ==
    /\ w.status = "deleted" => v.status = "deleted"
    /\ Dirty(w) /\ w.content # None => Dirty(v) /\ w.content = v.content

LEMMA StillAgrees ==
    ASSUME NEW v, NEW w, NEW b, Agrees(v, b), Stays(v, w)
    PROVE  Agrees(w, b)
BY DEF Agrees, Stays

LEMMA CommitsKept ==
    ASSUME IInv, NEW r \in Requests, Step(r),
           late \subseteq late', late' \subseteq Paths, missed \subseteq missed',
           tree' = tree,
           job'[r].op = "commit" => job[r].op = "commit",
           job'[r].at = "applying" => /\ job[r].at = "applying" /\ job'[r].obj = job[r].obj
                                      /\ job'[r].todo = job[r].todo,
           \A q \in Requests : job'[q].at = "applying" =>
              /\ objs'[job'[q].obj].dir = objs[job'[q].obj].dir
              /\ \A p \in Paths \ late' :
                    Stays(objs[job'[q].obj].files[p], objs'[job'[q].obj].files[p])
    PROVE  Commits'
<1>1. ASSUME NEW q \in Requests, q # r
      PROVE  /\ job'[q].op = job[q].op /\ job'[q].at = job[q].at
             /\ job'[q].obj = job[q].obj /\ job'[q].todo = job[q].todo
      BY <1>1 DEF Step, Follows
<1>2. ASSUME NEW q \in Committing', NEW x \in Committing', q # x PROVE late' = Paths
  <2>1. q \in Committing /\ x \in Committing
        BY <1>1, <1>2 DEF Committing
  <2> QED BY <1>2, <2>1 DEF IInv, Commits
<1>3. ASSUME NEW q \in Requests, job'[q].at = "applying",
             NEW p \in Paths \ (late' \cup missed' \cup job'[q].todo)
      PROVE  Agrees(objs'[job'[q].obj].files[p], tree'[objs'[job'[q].obj].dir][p])
  <2>1. /\ job[q].at = "applying" /\ job[q].obj = job'[q].obj
        /\ p \in Paths \ (late \cup missed \cup job[q].todo)
        BY <1>1, <1>3
  <2>2. Agrees(objs[job'[q].obj].files[p], tree[objs[job'[q].obj].dir][p])
        BY <2>1 DEF IInv, Commits
  <2>3. /\ objs'[job'[q].obj].dir = objs[job'[q].obj].dir
        /\ Stays(objs[job'[q].obj].files[p], objs'[job'[q].obj].files[p])
        BY <1>3
  <2>4. tree'[objs'[job'[q].obj].dir][p] = tree[objs[job'[q].obj].dir][p]
        BY <2>3
  <2>5. Agrees(objs'[job'[q].obj].files[p], tree[objs[job'[q].obj].dir][p])
        BY ONLY <2>2, <2>3, StillAgrees
  <2> QED BY ONLY <2>4, <2>5
<1> QED BY <1>2, <1>3 DEF Commits

\* The objects that matter after a step are those it has made.
LEMMA HeldKept ==
    ASSUME NEW new \in [Objects -> Mounts], objs' = Kept(new)
    PROVE  /\ objs' \in [Objects -> Mounts]
           /\ \A o \in Objects : Held(o)' => objs'[o] = new[o]
           /\ \A o \in Objects : InUse(o)' => objs'[o] = new[o]
           /\ \A o \in Objects, p \in Paths : Dirty(objs'[o].files[p]) => objs'[o] = new[o]
<1>1. ASSUME NEW o \in Objects, NEW p \in Paths, Dirty(objs'[o].files[p])
      PROVE  objs'[o] = new[o]
      BY <1>1, KeptFacts, ValuesTyped DEF Dirty, Absent
<1>2. ASSUME NEW o \in Objects, Held(o)' PROVE objs'[o] = new[o]
      BY <1>2, KeptFacts DEF Held
<1>3. ASSUME NEW o \in Objects, InUse(o)' PROVE objs'[o] = new[o]
      BY <1>3, KeptFacts DEF InUse
<1> QED BY <1>1, <1>2, <1>3, KeptFacts

\* In a promise, what is said of the objects and of a job.
LEMMA PromiseFacts ==
    ASSUME IInv, NEW p \in Paths, promised[p] # None
    PROVE  /\ promised[p] \in Contents /\ store[p] = promised[p]
           /\ state.kind # "missing"
           /\ state.kind = "saved" => Live(state.files[p])
           /\ \A o \in Objects : InUse(o) =>
                 Live(objs[o].files[p]) /\ objs[o].files[p].content \in {None, promised[p]}
           /\ \A r \in Requests : Respects(job[r], p, promised[p])
BY DEF IInv, Promises, Promise, Types

-----------------------------------------------------------------------------
(* A request ends and leaves everything as it is, but for what git add has *)
(* staged, or a change that could not be stored.                           *)

LEMMA QuietEnd ==
    ASSUME IInv, NEW r \in Requests, End(r), job[r].at # "idle",
           job[r].at = "storing" => store[job[r].path] # None \/ job[r].path \in failed',
           lock' \in {lock, None},
           objs' = Kept(objs),
           index' \in [Repos -> [Paths -> Bytes \cup {None}]],
           failed \subseteq failed', failed' \subseteq Paths,
           UNCHANGED <<mounted, tree, head, store, state>>,
           UNCHANGED <<promised, exposed, late, missed>>
    PROVE  IInv'
<1>1. /\ job' \in [Requests -> Jobs] /\ job'[r] = Idle
      /\ \A q \in Requests : q # r => job'[q] = job[q]
      BY EndFacts DEF IInv, Types
<1>2. objs \in [Objects -> Mounts]
      BY DEF IInv, Types
<1>3. /\ objs' \in [Objects -> Mounts]
      /\ \A o \in Objects : Held(o)' => objs'[o] = objs[o]
      /\ \A o \in Objects : InUse(o)' => objs'[o] = objs[o]
      /\ \A o \in Objects, p \in Paths : Dirty(objs'[o].files[p]) => objs'[o] = objs[o]
      BY <1>2, HeldKept
<1>4. /\ Idle.at = "idle" /\ Idle.op = "none" /\ Idle.obj = None /\ Idle.path = None
      /\ Idle.alone = FALSE /\ Idle.open = TRUE /\ Idle.snap = NoState
      BY DEF Idle
<1>5. Step(r)
      BY <1>1, <1>3, FollowsItself DEF Step
<1>6. Types'
      BY <1>1, <1>3 DEF IInv, Types
<1>7. \A q \in Requests : WellPlaced(job'[q])
      BY <1>1, <1>5, ValuesTyped, WellKept
<1>8. Homes'
      BY <1>1, <1>3, <1>4, <1>5, HomesKept
<1>9. Undisturbed'
      BY <1>1, <1>4, <1>5, UndisturbedKept
<1>10. Promises'
  <2>1. ASSUME NEW p \in Paths, promised'[p] # None
        PROVE  /\ promised[p] = promised'[p] /\ store'[p] = store[p] /\ state' = state
               /\ Respects(job'[r], p, promised[p])
               /\ \A o \in Objects : InUse(o)' =>
                     /\ Live(objs'[o].files[p])
                     /\ objs'[o].files[p].content \in {None, promised[p]}
    <3>1. Respects(job'[r], p, promised[p])
          BY <1>1, <1>4 DEF Respects
    <3>2. \A o \in Objects : InUse(o)' => InUse(o)
          BY <1>1, <1>4, GvfsAssumption DEF InUse
    <3> QED BY <1>3, <2>1, <3>1, <3>2, PromiseFacts
  <2> QED BY <1>5, <2>1, PromisesKept
<1>11. Bare'
      BY <1>1, <1>4, <1>5, ValuesTyped, BareKept DEF IInv, Bare, Absent
<1>12. Backed'
  <2>1. ASSUME NEW p \in Paths \ exposed'
        PROVE  /\ Dirty(state'.files[p]) => store'[p] # None
               /\ \A o \in Objects : Dirty(objs'[o].files[p]) => Dirty(objs[o].files[p])
               /\ job[r].at = "storing" /\ job[r].path = p =>
                     store'[p] # None \/ p \in failed'
               /\ p \in failed => p \in failed'
        BY <1>3, <2>1 DEF IInv, Backed
  <2> QED BY <1>1, <1>4, <1>5, <1>6, <2>1, BackedKept DEF Types
<1>13. Commits'
  <2>1. ASSUME NEW q \in Requests, job'[q].at = "applying"
        PROVE  objs'[job'[q].obj] = objs[job'[q].obj]
    <3>1. job'[q].obj \in Objects
          BY <1>7, <2>1 DEF WellPlaced
    <3>2. \A o \in Objects : o = job'[q].obj => Held(o)'
          BY DEF Held
    <3> QED BY <1>3, <3>1, <3>2
  <2> QED BY <1>1, <1>4, <1>5, <1>6, <2>1, CommitsKept DEF Types, Stays
<1> QED BY <1>6, <1>7, <1>8, <1>9, <1>10, <1>11, <1>12, <1>13 DEF IInv

\* mount_repository fails: git, the directory, or a torn state file.
LEMMA MountFailsStep == ASSUME IInv, NEW r \in Requests, MountFails(r) PROVE IInv'
<1>1. /\ job[r].at \in {"mounting", "cloning"} /\ End(r) /\ lock' = None /\ objs' = Kept(objs)
      /\ UNCHANGED <<mounted, tree, index, head, store, state>>
      /\ UNCHANGED <<promised, failed, exposed, late, missed>>
      BY DEF MountFails, clone, disk, bounds, history
<1> QED BY <1>1, QuietEnd DEF IInv, Types

\* A file operation raises; a change that was to be stored for the first time
\* stays in memory only.
LEMMA FileRaisesStep == ASSUME IInv, NEW r \in Requests, FileRaises(r) PROVE IInv'
<1>1. /\ job[r].at # "idle" /\ End(r) /\ lock' \in {lock, None} /\ objs' = Kept(objs)
      /\ UNCHANGED <<mounted, tree, index, head, store, state, promised, exposed, late, missed>>
      BY DEF FileRaises, clone, disk
<1>2. failed' = IF job[r].at = "storing" /\ store[job[r].path] = None
                THEN failed \cup {job[r].path} ELSE failed
      BY DEF FileRaises
<1>3. job[r].at = "storing" => job[r].path \in Paths
      BY DEF IInv, WellPlaced
<1>4. /\ failed \subseteq failed' /\ failed' \subseteq Paths
      /\ job[r].at = "storing" => store[job[r].path] # None \/ job[r].path \in failed'
      BY <1>2, <1>3 DEF IInv, Types
<1> QED BY <1>1, <1>4, QuietEnd DEF IInv, Types

\* The files of a mount have changed in number under a commit.
LEMMA ApplyRaisesStep == ASSUME IInv, NEW r \in Requests, ApplyRaises(r) PROVE IInv'
<1>1. /\ job[r].at = "applying" /\ End(r) /\ objs' = Kept(objs)
      /\ UNCHANGED <<mounted, lock, tree, index, head, store, state>>
      /\ UNCHANGED <<promised, failed, exposed, late, missed>>
      BY DEF ApplyRaises, clone, disk, bounds, history
<1> QED BY <1>1, QuietEnd DEF IInv, Types

\* git commit fails, after git add or not.
LEMMA GitRefusesStep == ASSUME IInv, NEW r \in Requests, GitRefuses(r) PROVE IInv'
<1>1. /\ job[r].at = "applying" /\ End(r) /\ objs' = Kept(objs)
      /\ UNCHANGED <<mounted, lock, tree, head, store, state>>
      /\ UNCHANGED <<promised, failed, exposed, late, missed>>
      BY DEF GitRefuses, Applies, history
<1>2. \/ index' = index
      \/ index' = [index EXCEPT ![objs[job[r].obj].dir] = tree[objs[job[r].obj].dir]]
      BY DEF GitRefuses
<1>3. objs[job[r].obj].dir \in Repos
      BY <1>1, GvfsAssumption DEF IInv, WellPlaced, Homes
<1>4. index' \in [Repos -> [Paths -> Bytes \cup {None}]]
      BY <1>2, <1>3 DEF IInv, Types
<1> QED BY <1>1, <1>4, QuietEnd DEF IInv, Types

-----------------------------------------------------------------------------
(* mount_repository and unmount.                                           *)

LEMMA MountBeginStep ==
    ASSUME IInv, NEW r \in Requests, NEW g \in Repos, NEW token \in BOOLEAN,
           MountBegin(r, g, token)
    PROVE  IInv'
<1> DEFINE o == CHOOSE x \in Objects : x \in Unused
           rec == [Idle EXCEPT !.op = "mount", !.at = "mounting", !.obj = o]
           m == [Blank EXCEPT !.url = [repo |-> g, token |-> token], !.dir = g]
<1>1. o \in Objects /\ o \in Unused
      BY DEF MountBegin, Unused
<1>2. o # mounted /\ \A q \in Requests : job[q].obj # o
      BY <1>1 DEF Unused
<1>3. job[r].at = "idle" /\ Begin(r, rec) /\ objs' = [objs EXCEPT ![o] = m] /\ lock' = r
      BY DEF MountBegin, Asked, Free
<1>4. /\ UNCHANGED <<mounted, tree, index, head, store, state>>
      /\ UNCHANGED <<promised, failed, exposed, late, missed>>
      BY DEF MountBegin, clone, disk, history
<1>5. /\ m \in Mounts /\ m.dir = g
      /\ \A p \in Paths : m.files[p] = Absent
      BY ValuesTyped DEF Mounts, Urls
<1>6. /\ rec \in Jobs /\ rec.op = "mount" /\ rec.at = "mounting" /\ rec.obj = o
      /\ rec.path = None /\ rec.open = TRUE /\ rec.snap = NoState
      BY <1>1, ValuesTyped DEF Jobs, Ops, Places, Idle
<1> HIDE DEF m, rec, o
<1>7. /\ job' \in [Requests -> Jobs]
      /\ \A q \in Requests : q # r => Follows(job[q], job'[q]) /\ job'[q].open = job[q].open
      /\ \A q \in Requests : q # r => ~job'[q].alone
      /\ job'[r] = [rec EXCEPT !.alone = (rec.op = "write" /\ Busy = {})]
      BY <1>3, <1>6, BeginFacts DEF IInv, Types
<1>8. /\ job'[r].op = "mount" /\ job'[r].at = "mounting" /\ job'[r].obj = o
      /\ job'[r].path = None /\ job'[r].open = TRUE /\ job'[r].snap = NoState
      /\ job'[r].alone = FALSE
      BY <1>6, <1>7 DEF Jobs
<1>9. objs' \in [Objects -> Mounts]
      BY <1>1, <1>3, <1>5 DEF IInv, Types
<1>10. Step(r)
      BY <1>7, <1>9 DEF Step
<1>11. Types'
      BY <1>3, <1>4, <1>7, <1>9 DEF IInv, Types
<1>12. \A q \in Requests : WellPlaced(job'[q])
  <2>1. WellPlaced(job'[r])
        BY <1>1, <1>8 DEF WellPlaced
  <2> QED BY <1>10, <2>1, WellKept
<1>13. \A x \in Objects : x # o => objs'[x] = objs[x]
      BY <1>3
<1>14. \A q \in Requests : q # r => job'[q].obj = job[q].obj /\ job'[q].at = job[q].at
      BY <1>7 DEF Follows
<1>15. objs'[o] = m
      BY <1>1, <1>3 DEF IInv, Types
<1>16. Homes'
  <2>1. objs'[o].dir = g
        BY <1>5, <1>15
  <2>2. mounted' # None => objs'[mounted'].dir \in Repos
        BY <1>2, <1>4, <1>13 DEF IInv, Types, Homes
  <2>3. ASSUME NEW q \in Requests, job'[q].obj # None PROVE objs'[job'[q].obj].dir \in Repos
    <3>1. CASE q = r
          BY <1>8, <2>1, <3>1
    <3>2. CASE q # r
      <4>1. job'[q].obj = job[q].obj /\ job[q].obj \in Objects /\ job[q].obj # o
            BY <1>2, <1>14, <2>3, <3>2 DEF IInv, Types, Jobs
      <4>2. objs[job[q].obj].dir \in Repos
            BY <2>3, <4>1 DEF IInv, Homes
      <4> QED BY <1>13, <4>1, <4>2
    <3> QED BY <3>1, <3>2
  <2>4. ASSUME NEW q \in Requests, job'[q].at \in {"mounting", "cloning"}
        PROVE  /\ job'[q].obj # mounted'
               /\ \A x \in Requests : x # q => job'[x].obj # job'[q].obj
    <3>1. CASE q = r
          BY <1>2, <1>4, <1>8, <1>14, <3>1
    <3>2. CASE q # r
      <4>1. job'[q].obj = job[q].obj /\ job[q].at \in {"mounting", "cloning"}
            BY <1>14, <2>4, <3>2
      <4>2. /\ job[q].obj # mounted /\ job[q].obj # o
            /\ \A x \in Requests : x # q => job[x].obj # job[q].obj
            BY <1>2, <4>1 DEF IInv, Homes
      <4> QED BY <1>4, <1>8, <1>14, <4>1, <4>2
    <3> QED BY <3>1, <3>2
  <2> QED BY <2>2, <2>3, <2>4 DEF Homes
<1>17. Undisturbed'
      BY <1>7, <1>8, <1>10, UndisturbedKept
<1>18. ASSUME NEW x \in Objects, InUse(x)' PROVE InUse(x) /\ objs'[x] = objs[x]
  <2>1. InUse(x)
        BY <1>4, <1>8, <1>14, <1>18 DEF InUse
  <2>2. x # o
        BY <1>2, <2>1 DEF InUse
  <2> QED BY <1>13, <2>1, <2>2
<1>19. Promises'
  <2>1. ASSUME NEW p \in Paths, promised'[p] # None
        PROVE  /\ promised[p] = promised'[p] /\ store'[p] = store[p] /\ state' = state
               /\ Respects(job'[r], p, promised[p])
               /\ \A x \in Objects : InUse(x)' =>
                     /\ Live(objs'[x].files[p])
                     /\ objs'[x].files[p].content \in {None, promised[p]}
    <3>1. Respects(job'[r], p, promised[p])
          BY <1>8 DEF Respects
    <3> QED BY <1>4, <1>18, <2>1, <3>1, PromiseFacts
  <2> QED BY <1>10, <2>1, PromisesKept
<1>20. Bare'
      BY <1>4, <1>8, <1>10, ValuesTyped, BareKept DEF IInv, Bare, Absent
<1>21. Backed'
  <2>1. ASSUME NEW p \in Paths \ exposed'
        PROVE  /\ Dirty(state'.files[p]) => store'[p] # None
               /\ \A x \in Objects : Dirty(objs'[x].files[p]) => Dirty(objs[x].files[p])
    <3>1. ~Dirty(objs'[o].files[p])
          BY <1>5, <1>15 DEF Dirty, Absent
    <3> QED BY <1>4, <1>13, <3>1 DEF IInv, Backed
  <2> QED BY <1>3, <1>4, <1>7, <1>8, <1>10, <1>11, <2>1, BackedKept DEF Types
<1>22. Commits'
  <2>1. ASSUME NEW q \in Requests, job'[q].at = "applying"
        PROVE  objs'[job'[q].obj] = objs[job'[q].obj]
    <3>1. q # r /\ job'[q].obj \in Objects
          BY <1>8, <1>12, <2>1 DEF WellPlaced
    <3> QED BY <1>2, <1>13, <1>14, <3>1
  <2> QED BY <1>4, <1>8, <1>10, <1>11, <2>1, CommitsKept DEF Types, Stays
<1> QED BY <1>11, <1>12, <1>16, <1>17, <1>19, <1>20, <1>21, <1>22 DEF IInv

\* What a mount leaves: its object is mounted and everything else is as it was.
LEMMA MountEndsFacts ==
    ASSUME IInv, NEW r \in Requests, job[r].at \in {"mounting", "cloning"}, NEW m \in Mounts,
           m.dir = objs[job[r].obj].dir,
           MountEnds(r, job[r].obj),
           objs' = Kept([objs EXCEPT ![job[r].obj] = m])
    PROVE  /\ Step(r) /\ lock' = None
           /\ job[r].obj \in Objects /\ mounted' = job[r].obj
           /\ job'[r] = Idle /\ \A q \in Requests : q # r => job'[q] = job[q]
           /\ \A q \in Requests : WellPlaced(job'[q])
           /\ objs'[job[r].obj] = m
           /\ \A o \in Objects : InUse(o)' => o = job[r].obj \/ (InUse(o) /\ objs'[o] = objs[o])
           /\ \A q \in Requests : job'[q].obj \in Objects =>
                 job'[q].obj # job[r].obj /\ objs'[job'[q].obj] = objs[job'[q].obj]
           /\ \A o \in Objects, p \in Paths : Dirty(objs'[o].files[p]) =>
                 o = job[r].obj \/ objs'[o] = objs[o]
           /\ Homes' /\ Undisturbed'
<1> DEFINE o == job[r].obj
           new == [objs EXCEPT ![o] = m]
<1>1. /\ o \in Objects /\ objs \in [Objects -> Mounts] /\ job \in [Requests -> Jobs]
      /\ \A q \in Requests : q # r => job[q].obj # o
      BY DEF IInv, Types, WellPlaced, Homes
<1>2. mounted' = o /\ lock' = None /\ End(r)
      BY DEF MountEnds
<1>3. /\ new \in [Objects -> Mounts] /\ new[o] = m
      /\ \A x \in Objects : x # o => new[x] = objs[x]
      /\ \A x \in Objects : new[x].dir = objs[x].dir
      BY <1>1
<1>4. /\ job' \in [Requests -> Jobs] /\ job'[r] = Idle
      /\ \A q \in Requests : q # r => job'[q] = job[q]
      BY <1>1, <1>2, EndFacts
<1>5. objs' = Kept(new)
      OBVIOUS
<1> HIDE DEF o, new
<1>6. /\ objs' \in [Objects -> Mounts]
      /\ \A x \in Objects : Held(x)' => objs'[x] = new[x]
      /\ \A x \in Objects : InUse(x)' => objs'[x] = new[x]
      /\ \A x \in Objects, p \in Paths : Dirty(objs'[x].files[p]) => objs'[x] = new[x]
      BY <1>3, <1>5, HeldKept
<1>7. /\ Idle.at = "idle" /\ Idle.obj = None /\ Idle.alone = FALSE
      BY DEF Idle
<1>8. Step(r)
      BY <1>4, <1>6, FollowsItself DEF Step
<1>9. \A q \in Requests : WellPlaced(job'[q])
      BY <1>4, <1>8, ValuesTyped, WellKept
<1>10. Homes'
  <2>1. \A x \in Objects : Held(x)' => objs'[x].dir = objs[x].dir
        BY <1>3, <1>6
  <2> QED BY <1>2, <1>4, <1>7, <1>8, <2>1, HomesKept DEF o
<1>11. Undisturbed'
      BY <1>4, <1>7, <1>8, UndisturbedKept
<1>12. objs'[o] = m
  <2>1. \A x \in Objects : x = o => Held(x)'
        BY <1>2 DEF Held
  <2> QED BY <1>1, <1>3, <1>6, <2>1
<1>13. ASSUME NEW x \in Objects, InUse(x)'
       PROVE  x = o \/ (InUse(x) /\ objs'[x] = objs[x])
  <2>1. x # o => InUse(x)
        BY <1>2, <1>4, <1>7, <1>13, GvfsAssumption DEF InUse
  <2>2. objs'[x] = new[x] /\ (x # o => new[x] = objs[x])
        BY <1>3, <1>6, <1>13
  <2> QED BY ONLY <2>1, <2>2
<1>14. ASSUME NEW q \in Requests, job'[q].obj \in Objects
       PROVE  job'[q].obj # o /\ objs'[job'[q].obj] = objs[job'[q].obj]
  <2>1. q # r /\ job'[q].obj # o
        BY <1>1, <1>4, <1>7, <1>14, GvfsAssumption
  <2>2. \A x \in Objects : x = job'[q].obj => Held(x)'
        BY DEF Held
  <2> QED BY <1>3, <1>6, <1>14, <2>1, <2>2
<1>15. ASSUME NEW x \in Objects, NEW p \in Paths, Dirty(objs'[x].files[p]), x # o
       PROVE  objs'[x] = objs[x]
      BY <1>3, <1>6, <1>15
<1>16. \A x \in Objects : InUse(x)' => x = o \/ (InUse(x) /\ objs'[x] = objs[x])
      BY ONLY <1>13
<1>17. \A x \in Objects, p \in Paths : Dirty(objs'[x].files[p]) => x = o \/ objs'[x] = objs[x]
      BY ONLY <1>15
<1> QED BY <1>1, <1>2, <1>4, <1>8, <1>9, <1>10, <1>11, <1>12, <1>14, <1>16, <1>17 DEF o

\* The mount is made of the state file.
LEMMA RestoreStep == ASSUME IInv, NEW r \in Requests, Restore(r) PROVE IInv'
<1> DEFINE o == job[r].obj
           m == [objs[o] EXCEPT !.url = state.url, !.files = state.files]
<1>1. /\ job[r].at = "mounting" /\ state.kind = "saved" /\ MountEnds(r, o)
      /\ UNCHANGED <<tree, index, head, store, state>>
      /\ UNCHANGED <<promised, failed, exposed, late, missed>>
      BY DEF Restore, clone, disk, history
<1>2. o \in Objects /\ objs \in [Objects -> Mounts] /\ state \in Images
      BY <1>1 DEF IInv, Types, WellPlaced
<1>3. /\ m \in Mounts /\ m.dir = objs[o].dir /\ m.files = state.files
      BY <1>2 DEF Mounts, Images
<1>4. objs' = Kept([objs EXCEPT ![o] = m])
  <2>1. [objs EXCEPT ![o].url = state.url, ![o].files = state.files] = [objs EXCEPT ![o] = m]
        BY <1>2
  <2> QED BY <2>1 DEF Restore
<1> HIDE DEF m
<1>5. /\ Step(r) /\ lock' = None
      /\ mounted' = o
      /\ job'[r] = Idle /\ \A q \in Requests : q # r => job'[q] = job[q]
      /\ \A q \in Requests : WellPlaced(job'[q])
      /\ objs'[o] = m
      /\ \A x \in Objects : InUse(x)' => x = o \/ (InUse(x) /\ objs'[x] = objs[x])
      /\ \A q \in Requests : job'[q].obj \in Objects =>
            job'[q].obj # o /\ objs'[job'[q].obj] = objs[job'[q].obj]
      /\ \A x \in Objects, p \in Paths : Dirty(objs'[x].files[p]) =>
            x = o \/ objs'[x] = objs[x]
      /\ Homes' /\ Undisturbed'
      BY <1>1, <1>3, <1>4, MountEndsFacts
<1>6. /\ Idle.at = "idle" /\ Idle.op = "none" /\ Idle.obj = None /\ Idle.path = None
      /\ Idle.open = TRUE /\ Idle.snap = NoState
      BY DEF Idle
<1>7. Types'
      BY <1>1, <1>2, <1>5 DEF IInv, Types, Step
<1>8. Promises'
  <2>1. ASSUME NEW p \in Paths, promised'[p] # None
        PROVE  /\ promised[p] = promised'[p] /\ store'[p] = store[p] /\ state' = state
               /\ Respects(job'[r], p, promised[p])
               /\ \A x \in Objects : InUse(x)' =>
                     /\ Live(objs'[x].files[p])
                     /\ objs'[x].files[p].content \in {None, promised[p]}
    <3>1. Respects(job'[r], p, promised[p])
          BY <1>5, <1>6 DEF Respects
    <3>2. promised'[p] = promised[p] /\ store'[p] = store[p] /\ state' = state
          BY <1>1
    <3>3. Live(objs'[o].files[p]) /\ objs'[o].files[p].content = None
          BY <1>1, <1>3, <1>5, <2>1, <3>2, PromiseFacts DEF IInv, Bare
    <3>4. ASSUME NEW x \in Objects, InUse(x), objs'[x] = objs[x]
          PROVE  Live(objs'[x].files[p]) /\ objs'[x].files[p].content \in {None, promised[p]}
          BY <2>1, <3>2, <3>4, PromiseFacts
    <3> QED BY <1>5, <3>1, <3>2, <3>3, <3>4
  <2> QED BY <1>5, <2>1, PromisesKept
<1>9. Bare'
      BY <1>1, <1>5, <1>6, ValuesTyped, BareKept DEF IInv, Bare, Absent
<1>10. Backed'
  <2>1. ASSUME NEW p \in Paths \ exposed'
        PROVE  /\ Dirty(state'.files[p]) => store'[p] # None
               /\ \A x \in Objects : Dirty(objs'[x].files[p]) =>
                     Dirty(objs[x].files[p]) \/ store'[p] # None
    <3>1. Dirty(state.files[p]) => store[p] # None
          BY <1>1, <2>1 DEF IInv, Backed
    <3> QED BY <1>1, <1>3, <1>5, <3>1
  <2> QED BY <1>1, <1>5, <1>6, <1>7, <2>1, BackedKept DEF Types
<1>11. Commits'
  <2>1. ASSUME NEW q \in Requests, job'[q].at = "applying"
        PROVE  objs'[job'[q].obj] = objs[job'[q].obj]
        BY <1>5, <2>1 DEF WellPlaced
  <2> QED BY <1>1, <1>5, <1>6, <1>7, <2>1, CommitsKept DEF Types, Stays
<1> QED BY <1>5, <1>7, <1>8, <1>9, <1>10, <1>11 DEF IInv

\* There is no state file, so nothing is promised, and git clone is started.
LEMMA CloneBeginsStep == ASSUME IInv, NEW r \in Requests, CloneBegins(r) PROVE IInv'
<1> DEFINE rec == [job[r] EXCEPT !.at = "cloning"]
<1>1. /\ job[r].at = "mounting" /\ state = NoState
      /\ job' = [job EXCEPT ![r].at = "cloning"]
      /\ UNCHANGED <<objs, mounted, lock, tree, index, head, store, state>>
      /\ UNCHANGED <<promised, failed, exposed, late, missed>>
      BY DEF CloneBegins, clone, disk, history
<1>2. /\ job[r] \in Jobs /\ job \in [Requests -> Jobs]
      /\ job[r].op = "mount" /\ job[r].obj \in Objects /\ ~job[r].alone
      BY <1>1 DEF IInv, Types, WellPlaced
<1>3. /\ rec.at = "cloning" /\ rec.open = job[r].open /\ rec.snap = job[r].snap
      /\ rec.op = "mount" /\ rec.obj = job[r].obj /\ rec.alone = job[r].alone
      BY ONLY <1>2 DEF Jobs
<1>4. rec \in Jobs
      BY ONLY <1>2 DEF Jobs, Places
<1>5. job' = [job EXCEPT ![r] = rec]
      BY <1>1, <1>2
<1> HIDE DEF rec
<1>6. /\ job' \in [Requests -> Jobs] /\ job'[r] = rec
      /\ \A q \in Requests : q # r => job'[q] = job[q]
      BY <1>2, <1>4, <1>5, MoveFacts
<1>7. Step(r)
      BY <1>1, <1>6, FollowsItself DEF Step, IInv, Types
<1>8. \A q \in Requests :
         /\ job'[q].obj = job[q].obj
         /\ job'[q].at \in {"mounting", "cloning"} <=> job[q].at \in {"mounting", "cloning"}
      BY <1>1, <1>3, <1>6
<1>9. Types'
      BY <1>1, <1>6 DEF IInv, Types
<1>10. \A q \in Requests : WellPlaced(job'[q])
  <2>1. WellPlaced(rec)
        BY <1>2, <1>3 DEF WellPlaced
  <2> QED BY <1>6, <1>7, <2>1, WellKept
<1>11. Homes'
      BY <1>1, <1>8 DEF IInv, Homes
<1>12. Undisturbed'
  <2>1. job[r].at # "idle" /\ ~job'[r].alone
        BY <1>1, <1>2, <1>3, <1>6
  <2> QED BY <1>7, <2>1, UndisturbedKept
<1>13. Promises'
  <2>1. \A p \in Paths : promised'[p] = None
        BY <1>1, ValuesTyped, PromiseFacts
  <2> QED BY <2>1 DEF Promises
<1>14. Bare'
  <2>1. \A p \in Paths : state.files[p].content = None /\ job[r].snap.files[p].content = None
        BY DEF IInv, Bare
  <2> QED BY <1>1, <1>3, <1>6, <1>7, <2>1, BareKept
<1>15. Backed'
  <2>1. ASSUME NEW p \in Paths \ exposed' PROVE Dirty(state'.files[p]) => store'[p] # None
        BY <1>1, <2>1 DEF IInv, Backed
  <2>2. job'[r].at = "cloning" /\ job'[r].open = job[r].open
        BY <1>3, <1>6
  <2>3. ~job[r].open => exposed = Paths
        BY DEF IInv, Backed
  <2> QED BY <1>1, <1>6, <1>7, <1>9, <2>1, <2>2, <2>3, BackedKept DEF Types
<1>16. Commits'
  <2>1. job'[r].op # "commit" /\ job'[r].at # "applying"
        BY <1>3, <1>6
  <2> QED BY <1>1, <1>7, <1>9, <2>1, CommitsKept DEF Types, Stays
<1> QED BY <1>9, <1>10, <1>11, <1>12, <1>13, <1>14, <1>15, <1>16 DEF IInv

\* The mount is made of a new clone, during which nothing is promised; a commit
\* that goes on knows that it may have been disturbed.
LEMMA CloneStep == ASSUME IInv, NEW r \in Requests, Clone(r) PROVE IInv'
<1> DEFINE o == job[r].obj
           g == objs[o].dir
           files == [p \in Paths |-> IF p \in Tracked THEN Original ELSE None]
           indexed == [p \in Paths |->
                          IF p \in Tracked
                          THEN [Absent EXCEPT !.status = "unchanged", !.sha = GitSha(Original),
                                              !.head = GitSha(Original)]
                          ELSE Absent]
           m == [objs[o] EXCEPT !.files = indexed]
<1>1. /\ job[r].at = "cloning" /\ MountEnds(r, o)
      /\ UNCHANGED <<store, state, promised, failed, exposed, missed>>
      /\ tree' = [tree EXCEPT ![g] = files]
      /\ index' = [index EXCEPT ![g] = files]
      /\ head' = [head EXCEPT ![g] = [cloned |-> TRUE, files |-> files]]
      /\ late' = IF Committing = {} THEN late ELSE Paths
      BY DEF Clone
<1>2. o \in Objects /\ objs \in [Objects -> Mounts] /\ g \in Repos
      BY <1>1, GvfsAssumption DEF IInv, Types, WellPlaced, Homes
<1>3. files \in [Paths -> Bytes \cup {None}]
      BY GvfsAssumption DEF Bytes
<1>4. indexed \in [Paths -> VirtualFile] /\ \A p \in Paths : ~Dirty(indexed[p])
  <2>1. GitSha(Original) \in Shas
        BY GvfsAssumption DEF GitSha, Shas
  <2>2. [Absent EXCEPT !.status = "unchanged", !.sha = GitSha(Original),
                       !.head = GitSha(Original)] \in VirtualFile
        BY <2>1, ValuesTyped DEF VirtualFile, Statuses
  <2>3. ~Dirty(Absent) /\ ~Dirty([Absent EXCEPT !.status = "unchanged",
                                 !.sha = GitSha(Original), !.head = GitSha(Original)])
        BY DEF Dirty, Absent
  <2> QED BY <2>2, <2>3, ValuesTyped
<1>5. /\ m \in Mounts /\ m.dir = objs[o].dir /\ m.files = indexed
      BY <1>2, <1>4 DEF Mounts
<1>6. objs' = Kept([objs EXCEPT ![o] = m])
  <2>1. [objs EXCEPT ![o].files = indexed] = [objs EXCEPT ![o] = m]
        BY <1>2
  <2> QED BY <2>1 DEF Clone
<1> HIDE DEF m, files, indexed
<1>7. /\ Step(r) /\ lock' = None
      /\ mounted' = o
      /\ job'[r] = Idle /\ \A q \in Requests : q # r => job'[q] = job[q]
      /\ \A q \in Requests : WellPlaced(job'[q])
      /\ objs'[o] = m
      /\ \A x \in Objects : InUse(x)' => x = o \/ (InUse(x) /\ objs'[x] = objs[x])
      /\ \A q \in Requests : job'[q].obj \in Objects =>
            job'[q].obj # o /\ objs'[job'[q].obj] = objs[job'[q].obj]
      /\ \A x \in Objects, p \in Paths : Dirty(objs'[x].files[p]) =>
            x = o \/ objs'[x] = objs[x]
      /\ Homes' /\ Undisturbed'
      BY <1>1, <1>5, <1>6, MountEndsFacts
<1>8. /\ Idle.at = "idle" /\ Idle.op = "none" /\ Idle.obj = None /\ Idle.path = None
      /\ Idle.open = TRUE /\ Idle.snap = NoState
      BY DEF Idle
<1>9. Types'
  <2>1. /\ tree' \in [Repos -> [Paths -> Bytes \cup {None}]]
        /\ index' \in [Repos -> [Paths -> Bytes \cup {None}]]
        BY <1>1, <1>3 DEF IInv, Types
  <2>2. head' \in [Repos -> [cloned : BOOLEAN, files : [Paths -> Bytes \cup {None}]]]
        BY <1>1, <1>3 DEF IInv, Types
  <2>3. late' \subseteq Paths
        BY <1>1 DEF IInv, Types
  <2> QED BY <1>1, <1>2, <1>7, <2>1, <2>2, <2>3 DEF IInv, Types, Step
<1>10. Promises'
  <2>1. \A p \in Paths : promised'[p] = None
        BY <1>1, PromiseFacts DEF Respects
  <2> QED BY <2>1 DEF Promises
<1>11. Bare'
      BY <1>1, <1>7, <1>8, ValuesTyped, BareKept DEF IInv, Bare, Absent
<1>12. Backed'
  <2>1. ASSUME NEW p \in Paths \ exposed'
        PROVE  /\ Dirty(state'.files[p]) => store'[p] # None
               /\ \A x \in Objects : Dirty(objs'[x].files[p]) => Dirty(objs[x].files[p])
    <3>1. Dirty(state.files[p]) => store[p] # None
          BY <1>1, <2>1 DEF IInv, Backed
    <3> QED BY <1>1, <1>4, <1>5, <1>7, <3>1
  <2> QED BY <1>1, <1>7, <1>8, <1>9, <2>1, BackedKept DEF Types
<1>13. Commits'
  <2>1. \A q \in Requests : job'[q].op = "commit" => q \in Committing
        BY <1>7, <1>8 DEF Committing
  <2>2. CASE Committing = {}
    <3>1. \A q \in Requests : job'[q].op # "commit"
          BY <2>1, <2>2
    <3> QED BY <1>7, <3>1 DEF Commits, Committing, WellPlaced
  <2>3. CASE Committing # {}
    <3>1. late' = Paths
          BY <1>1, <2>3
    <3> QED BY <3>1 DEF Commits
  <2> QED BY <2>2, <2>3
<1> QED BY <1>7, <1>9, <1>10, <1>11, <1>12, <1>13 DEF IInv

\* Objects whose files are what they were: a step that changes no file.
LEMMA SameFiles ==
    ASSUME IInv, NEW r \in Requests, Step(r), objs' = Kept(objs),
           mounted' \in {mounted, None},
           job'[r].obj \in {None, mounted, job[r].obj},
           job'[r].at \notin {"mounting", "cloning"}, job[r].at \notin {"mounting", "cloning"}
    PROVE  /\ \A o \in Objects : InUse(o)' => InUse(o) /\ objs'[o] = objs[o]
           /\ \A o \in Objects, p \in Paths : Dirty(objs'[o].files[p]) => objs'[o] = objs[o]
           /\ \A q \in Requests : job'[q].obj \in Objects => objs'[job'[q].obj] = objs[job'[q].obj]
           /\ Homes'
<1>1. objs \in [Objects -> Mounts]
      BY DEF IInv, Types
<1>2. /\ \A o \in Objects : Held(o)' => objs'[o] = objs[o]
      /\ \A o \in Objects : InUse(o)' => objs'[o] = objs[o]
      /\ \A o \in Objects, p \in Paths : Dirty(objs'[o].files[p]) => objs'[o] = objs[o]
      BY <1>1, HeldKept
<1>3. \A q \in Requests : q # r => job'[q].obj = job[q].obj /\ job'[q].at = job[q].at
      BY DEF Step, Follows
<1>4. ASSUME NEW o \in Objects, InUse(o)' PROVE InUse(o)
  <2>1. o # None
        BY GvfsAssumption
  <2>2. CASE o = mounted'
        BY <2>1, <2>2 DEF InUse
  <2>3. CASE \E q \in Requests : job'[q].obj = o /\ job'[q].at \notin {"mounting", "cloning"}
    <3>1. PICK q \in Requests : job'[q].obj = o /\ job'[q].at \notin {"mounting", "cloning"}
          BY <2>3
    <3>2. CASE q = r
          BY <2>1, <3>1, <3>2 DEF InUse
    <3>3. CASE q # r
          BY <1>3, <3>1, <3>3 DEF InUse
    <3> QED BY <3>2, <3>3
  <2> QED BY <1>4, <2>2, <2>3 DEF InUse
<1>5. ASSUME NEW q \in Requests, job'[q].obj \in Objects
      PROVE  objs'[job'[q].obj] = objs[job'[q].obj]
  <2>1. \A o \in Objects : o = job'[q].obj => Held(o)'
        BY DEF Held
  <2> QED BY <1>2, <1>5, <2>1
<1>6. Homes'
  <2>1. \A o \in Objects : Held(o)' => objs'[o].dir = objs[o].dir
        BY <1>2
  <2> QED BY <2>1, HomesKept
<1> QED BY <1>2, <1>4, <1>5, <1>6

\* unmount(persist=True): the snapshot of the mount.
LEMMA UnmountPersistStep == ASSUME IInv, NEW r \in Requests, UnmountPersist(r) PROVE IInv'
<1> DEFINE rec == [Idle EXCEPT !.op = "unmount", !.at = "saving", !.snap = Image(objs[mounted])]
<1>1. /\ job[r].at = "idle" /\ mounted # None /\ mounted' = None /\ lock' = r
      /\ Begin(r, rec) /\ objs' = Kept(objs) /\ exposed' = exposed \cup Unstored
      /\ UNCHANGED <<tree, index, head, store, state, promised, failed, late, missed>>
      BY DEF UnmountPersist, Asked, Free, clone, disk
<1>2. mounted \in Objects /\ objs[mounted] \in Mounts /\ job[r] = Idle
      BY <1>1 DEF IInv, Types, WellPlaced
<1>3. /\ Image(objs[mounted]) \in Images /\ Image(objs[mounted]).kind = "saved"
      /\ \A p \in Paths :
            /\ Image(objs[mounted]).files[p].status = objs[mounted].files[p].status
            /\ Image(objs[mounted]).files[p].content = None
      BY <1>2, ImageFacts
<1>4. /\ rec \in Jobs /\ rec.op = "unmount" /\ rec.at = "saving" /\ rec.obj = None
      /\ rec.path = None /\ rec.open = TRUE /\ rec.snap = Image(objs[mounted])
      BY <1>3, ValuesTyped DEF Jobs, Ops, Places, Idle
<1> HIDE DEF rec
<1>5. /\ job' \in [Requests -> Jobs]
      /\ \A q \in Requests : q # r => Follows(job[q], job'[q]) /\ job'[q].open = job[q].open
      /\ \A q \in Requests : q # r => ~job'[q].alone
      /\ job'[r] = [rec EXCEPT !.alone = (rec.op = "write" /\ Busy = {})]
      BY <1>1, <1>4, BeginFacts DEF IInv, Types
<1>6. /\ job'[r].op = "unmount" /\ job'[r].at = "saving" /\ job'[r].obj = None
      /\ job'[r].path = None /\ job'[r].open = TRUE /\ job'[r].snap = Image(objs[mounted])
      /\ job'[r].alone = FALSE
      BY <1>4, <1>5 DEF Jobs
<1>7. objs' \in [Objects -> Mounts]
      BY <1>1, HeldKept DEF IInv, Types
<1>8. Step(r)
      BY <1>5, <1>7 DEF Step
<1>9. /\ \A o \in Objects : InUse(o)' => InUse(o) /\ objs'[o] = objs[o]
      /\ \A o \in Objects, p \in Paths : Dirty(objs'[o].files[p]) => objs'[o] = objs[o]
      /\ \A q \in Requests : job'[q].obj \in Objects => objs'[job'[q].obj] = objs[job'[q].obj]
      /\ Homes'
      BY <1>1, <1>6, <1>8, SameFiles
<1>10. Types'
      BY <1>1, <1>5, <1>7 DEF IInv, Types, Unstored
<1>11. \A q \in Requests : WellPlaced(job'[q])
  <2>1. WellPlaced(job'[r])
        BY <1>3, <1>6 DEF WellPlaced
  <2> QED BY <1>8, <2>1, WellKept
<1>12. Undisturbed'
      BY <1>5, <1>6, <1>8, UndisturbedKept
<1>13. Promises'
  <2>1. ASSUME NEW p \in Paths, promised'[p] # None
        PROVE  /\ promised[p] = promised'[p] /\ store'[p] = store[p] /\ state' = state
               /\ Respects(job'[r], p, promised[p])
               /\ \A o \in Objects : InUse(o)' =>
                     /\ Live(objs'[o].files[p])
                     /\ objs'[o].files[p].content \in {None, promised[p]}
    <3>1. promised'[p] = promised[p]
          BY <1>1
    <3>2. Live(objs[mounted].files[p])
          BY <1>2, <2>1, <3>1, PromiseFacts DEF InUse
    <3>3. Respects(job'[r], p, promised[p])
          BY <1>3, <1>6, <3>2, GvfsAssumption DEF Respects, Live
    <3>4. ASSUME NEW o \in Objects, InUse(o), objs'[o] = objs[o]
          PROVE  Live(objs'[o].files[p]) /\ objs'[o].files[p].content \in {None, promised[p]}
          BY <2>1, <3>1, <3>4, PromiseFacts
    <3> QED BY <1>1, <1>9, <3>1, <3>3, <3>4
  <2> QED BY <1>8, <2>1, PromisesKept
<1>14. Bare'
      BY <1>1, <1>3, <1>6, <1>8, BareKept DEF IInv, Bare
<1>15. Backed'
  <2>1. ASSUME NEW p \in Paths \ exposed'
        PROVE  /\ Dirty(state'.files[p]) => store'[p] # None
               /\ Dirty(job'[r].snap.files[p]) => store'[p] # None
               /\ \A o \in Objects : Dirty(objs'[o].files[p]) => Dirty(objs[o].files[p])
    <3>1. p \in Paths \ exposed /\ p \notin Unstored
          BY <1>1, <2>1
    <3>2. Dirty(state.files[p]) => store[p] # None
          BY <3>1 DEF IInv, Backed
    <3>3. Dirty(objs[mounted].files[p]) => store[p] # None
          BY <1>2, <3>1 DEF IInv, Backed
    <3>4. Dirty(job'[r].snap.files[p]) => Dirty(objs[mounted].files[p])
          BY <1>3, <1>6, <3>1 DEF Dirty
    <3> QED BY <1>1, <1>9, <3>1, <3>2, <3>3, <3>4
  <2> QED BY <1>1, <1>5, <1>6, <1>8, <1>10, <2>1, BackedKept DEF Types
<1>16. Commits'
  <2>1. ASSUME NEW q \in Requests, job'[q].at = "applying"
        PROVE  objs'[job'[q].obj] = objs[job'[q].obj]
        BY <1>9, <1>11, <2>1 DEF WellPlaced
  <2> QED BY <1>1, <1>6, <1>8, <1>10, <2>1, CommitsKept DEF Types, Stays
<1> QED BY <1>9, <1>10, <1>11, <1>12, <1>13, <1>14, <1>15, <1>16 DEF IInv

\* unmount(persist=False): nothing is promised any more, and whoever was about
\* to write a file that is removed has lost it.
LEMMA CleanUpStep ==
    ASSUME IInv, NEW r \in Requests, NEW S \in SUBSET Paths, NEW gone \in BOOLEAN,
           CleanUp(r, S, gone)
    PROVE  IInv'
<1> DEFINE lost(q) == \/ job[q].at \in {"storing", "stored"} /\ job[q].path \in S
                      \/ job[q].at \in {"saving", "saved"} /\ gone
           left(q) == [job[q] EXCEPT !.alone = FALSE, !.open = @ /\ ~lost(q)]
<1>1. /\ job[r].at = "idle" /\ mounted' = None /\ objs' = Kept(objs)
      /\ store' = [p \in Paths |-> IF p \in S THEN None ELSE store[p]]
      /\ state' = IF gone THEN NoState ELSE state
      /\ promised' = NoFiles /\ failed' = {}
      /\ exposed' = IF Busy = {} /\ gone THEN {} ELSE Paths
      /\ UNCHANGED <<lock, tree, index, head, late, missed>>
      BY DEF CleanUp, Asked, Free, clone
<1>2. job' = [q \in Requests |-> left(q)]
  <2>1. ASSUME NEW q \in Requests
        PROVE  left(q) = [job[q] EXCEPT !.alone = FALSE,
                  !.open = @ /\ ~(job[q].at \in {"storing", "stored"} /\ job[q].path \in S)
                             /\ ~(job[q].at \in {"saving", "saved"} /\ gone)]
        OBVIOUS
  <2> QED BY <2>1 DEF CleanUp
<1>3. ASSUME NEW q \in Requests
      PROVE  /\ left(q) \in Jobs /\ Follows(job[q], left(q))
             /\ left(q).alone = FALSE
             /\ left(q).open = (job[q].open /\ ~lost(q))
  <2>1. job[q] \in Jobs
        BY DEF IInv, Types
  <2>2. left(q) \in Jobs
        BY <2>1 DEF Jobs
  <2>3. left(q).alone = FALSE /\ left(q).open = (job[q].open /\ ~lost(q))
        BY <2>1 DEF Jobs
  <2>4. ASSUME job[q] = Idle PROVE left(q) = Idle
    <3>1. job[q].alone = FALSE /\ job[q].open = TRUE /\ ~lost(q)
          BY <2>4 DEF Idle
    <3>2. left(q) = job[q]
          BY <2>1, <3>1 DEF Jobs
    <3> QED BY <2>4, <3>2
  <2>5. Follows(job[q], left(q))
        BY <2>1, <2>3, <2>4 DEF Follows, Jobs
  <2> QED BY <2>2, <2>3, <2>5
<1>4. /\ job' \in [Requests -> Jobs]
      /\ \A q \in Requests : Follows(job[q], job'[q]) /\ ~job'[q].alone
      BY <1>2, <1>3
<1>5. \A q \in Requests : job'[q].open = (job[q].open /\ ~lost(q))
      BY <1>2, <1>3
<1> HIDE DEF left, lost
<1>6. job[r] = Idle /\ job'[r] = Idle
      BY <1>1, <1>4 DEF IInv, WellPlaced, Follows
<1>7. /\ Idle.at = "idle" /\ Idle.op = "none" /\ Idle.obj = None /\ Idle.alone = FALSE
      /\ Idle.open = TRUE /\ Idle.snap = NoState
      BY DEF Idle
<1>8. objs' \in [Objects -> Mounts]
      BY <1>1, HeldKept DEF IInv, Types
<1>9. Step(r)
      BY <1>4, <1>8 DEF Step
<1>10. /\ \A q \in Requests : job'[q].obj \in Objects => objs'[job'[q].obj] = objs[job'[q].obj]
       /\ Homes'
      BY <1>1, <1>6, <1>7, <1>9, SameFiles
<1>11. Types'
  <2>1. NoFiles \in [Paths -> Bytes \cup {None}] /\ NoFiles \in [Paths -> Contents \cup {None}]
        BY DEF NoFiles
  <2>2. exposed' \subseteq Paths
        BY <1>1
  <2>3. store' \in [Paths -> Bytes \cup {None}]
        BY <1>1 DEF IInv, Types
  <2> QED BY <1>1, <1>4, <1>8, <2>1, <2>2, <2>3, ValuesTyped DEF IInv, Types
<1>12. \A q \in Requests : WellPlaced(job'[q])
      BY <1>6, <1>9, ValuesTyped, WellKept
<1>13. Undisturbed'
      BY <1>4 DEF Undisturbed
<1>14. Promises'
      BY <1>1 DEF Promises, NoFiles
<1>15. Bare'
      BY <1>1, <1>6, <1>7, <1>9, ValuesTyped, BareKept DEF IInv, Bare, Absent
<1>16. Backed'
  <2>1. CASE ~(Busy = {} /\ gone)
    <3>1. exposed' = Paths
          BY <1>1, <2>1
    <3> QED BY <3>1 DEF Backed
  <2>2. CASE Busy = {} /\ gone
    <3>1. \A q \in Requests : job[q] = Idle
          BY <2>2 DEF Busy, Free, IInv, WellPlaced
    <3>2. \A q \in Requests : job'[q] = Idle
          BY <1>4, <3>1 DEF Follows
    <3>3. \A o \in Objects : objs'[o] = Blank
          BY <1>1, <1>7, <3>2, GvfsAssumption DEF Kept
    <3>4. \A o \in Objects, p \in Paths : ~Dirty(objs'[o].files[p])
          BY <3>3, ValuesTyped DEF Dirty, Absent
    <3>5. \A p \in Paths : ~Dirty(state'.files[p])
      <4>1. state' = NoState
            BY <1>1, <2>2
      <4> QED BY ONLY <4>1, ValuesTyped DEF Dirty, Absent
    <3> QED BY <1>7, <3>2, <3>4, <3>5 DEF Backed
  <2> QED BY <2>1, <2>2
<1>17. Commits'
  <2>1. ASSUME NEW q \in Requests, job'[q].at = "applying"
        PROVE  objs'[job'[q].obj] = objs[job'[q].obj]
        BY <1>10, <1>12, <2>1 DEF WellPlaced
  <2> QED BY <1>1, <1>6, <1>7, <1>9, <1>11, <2>1, CommitsKept DEF Types, Stays
<1> QED BY <1>10, <1>11, <1>12, <1>13, <1>14, <1>15, <1>16, <1>17 DEF IInv

\* The gateway stops: only what is on disk counts.
LEMMA CrashStep == ASSUME IInv, Crash PROVE IInv'
<1>1. /\ objs' = [o \in Objects |-> Blank] /\ mounted' = None /\ lock' = None
      /\ job' = [r \in Requests |-> Idle] /\ failed' = {}
      /\ UNCHANGED <<tree, index, head, store, state, promised, exposed, late, missed>>
      BY DEF Crash, clone, disk
<1>2. /\ Idle.at = "idle" /\ Idle.op = "none" /\ Idle.obj = None /\ Idle.path = None
      /\ Idle.alone = FALSE /\ Idle.open = TRUE /\ Idle.snap = NoState
      BY DEF Idle
<1>3. Types'
      BY <1>1, ValuesTyped DEF IInv, Types
<1>4. \A r \in Requests : WellPlaced(job'[r])
      BY <1>1, ValuesTyped
<1>5. Homes'
      BY <1>1, <1>2 DEF Homes
<1>6. Undisturbed'
      BY <1>1, <1>2 DEF Undisturbed
<1>7. Promises'
  <2> SUFFICES ASSUME NEW p \in Paths, promised'[p] # None PROVE Promise(p)'
      BY DEF Promises
  <2>1. promised'[p] = promised[p] /\ store'[p] = store[p] /\ state' = state
        BY <1>1
  <2>2. \A o \in Objects : ~InUse(o)'
        BY <1>1, <1>2, GvfsAssumption DEF InUse
  <2>3. \A r \in Requests : Respects(job'[r], p, promised'[p])
        BY <1>1, <1>2, GvfsAssumption DEF Respects
  <2>4. /\ store[p] = promised[p] /\ state.kind # "missing"
        /\ state.kind = "saved" => Live(state.files[p])
        BY <2>1, PromiseFacts
  <2> QED BY <2>1, <2>2, <2>3, <2>4 DEF Promise
<1>8. Bare'
      BY <1>1, <1>2, ValuesTyped DEF IInv, Bare, Absent
<1>9. Backed'
  <2>1. \A o \in Objects, p \in Paths : ~Dirty(objs'[o].files[p])
        BY <1>1, ValuesTyped DEF Dirty, Absent
  <2> QED BY <1>1, <1>2, <2>1 DEF IInv, Backed
<1>10. Commits'
      BY <1>1, <1>2 DEF Commits, Committing
<1> QED BY <1>3, <1>4, <1>5, <1>6, <1>7, <1>8, <1>9, <1>10 DEF IInv

-----------------------------------------------------------------------------
(* read_file.                                                              *)

\* The bytes of the file are read.
LEMMA LoadReadsStep == ASSUME IInv, NEW r \in Requests, LoadReads(r) PROVE IInv'
<1> DEFINE path == job[r].path
           bytes == IF job[r].from = "store" THEN store[path]
                    ELSE tree[objs[job[r].obj].dir][path]
           rec == [job[r] EXCEPT !.at = "loaded", !.buf = bytes]
<1>1. /\ job[r].at = "loading" /\ objs' = Kept(objs)
      /\ UNCHANGED <<mounted, lock, tree, index, head, store, state>>
      /\ UNCHANGED <<promised, failed, exposed, late, missed>>
      /\ IF bytes = None THEN End(r)
         ELSE job' = [job EXCEPT ![r].at = "loaded", ![r].buf = bytes]
      BY DEF LoadReads, clone, disk, history
<1>2. CASE bytes = None
  <2>1. End(r) /\ job[r].at \notin {"idle", "storing"} /\ lock' \in {lock, None}
        BY <1>1, <1>2
  <2>2. /\ index' \in [Repos -> [Paths -> Bytes \cup {None}]]
        /\ failed \subseteq failed' /\ failed' \subseteq Paths
        BY <1>1 DEF IInv, Types
  <2> HIDE DEF bytes
  <2> QED BY <1>1, <2>1, <2>2, QuietEnd
<1>3. CASE bytes # None
  <2>1. /\ job[r] \in Jobs /\ path \in Paths /\ job[r].obj \in Objects /\ job[r].op = "read"
        /\ job[r].from \in {"store", "clone"}
        /\ objs[job[r].obj].dir \in Repos
        BY <1>1, GvfsAssumption DEF IInv, Types, WellPlaced, Homes
  <2>2. bytes \in Bytes
        BY <1>3, <2>1 DEF IInv, Types
  <2>3. ~job[r].alone
        BY <1>1 DEF IInv, Undisturbed, Lone
  <2>4. /\ rec \in Jobs /\ rec.op = "read" /\ rec.at = "loaded" /\ rec.obj = job[r].obj
        /\ rec.path = path /\ rec.from = job[r].from /\ rec.buf = bytes
        /\ rec.open = job[r].open /\ rec.snap = job[r].snap /\ rec.alone = job[r].alone
        BY <2>1, <2>2 DEF Jobs, Places
  <2>5. job' = [job EXCEPT ![r] = rec]
        BY <1>1, <1>3, <2>1 DEF IInv, Types
  <2> HIDE DEF rec
  <2>6. /\ job' \in [Requests -> Jobs] /\ job'[r] = rec
        /\ \A q \in Requests : q # r => job'[q] = job[q]
        BY <2>4, <2>5, MoveFacts DEF IInv, Types
  <2>7. objs' \in [Objects -> Mounts]
        BY <1>1, HeldKept DEF IInv, Types
  <2>8. Step(r)
        BY <2>6, <2>7, FollowsItself DEF Step
  <2>9. /\ \A o \in Objects : InUse(o)' => InUse(o) /\ objs'[o] = objs[o]
        /\ \A o \in Objects, p \in Paths : Dirty(objs'[o].files[p]) => objs'[o] = objs[o]
        /\ \A q \in Requests : job'[q].obj \in Objects => objs'[job'[q].obj] = objs[job'[q].obj]
        /\ Homes'
        BY <1>1, <2>4, <2>6, <2>8, SameFiles
  <2>10. Types'
        BY <1>1, <2>6, <2>7 DEF IInv, Types
  <2>11. \A q \in Requests : WellPlaced(job'[q])
    <3>1. WellPlaced(job'[r])
          BY <2>1, <2>2, <2>3, <2>4, <2>6 DEF WellPlaced
    <3> QED BY <2>8, <3>1, WellKept
  <2>12. Undisturbed'
        BY <1>1, <2>3, <2>4, <2>6, <2>8, UndisturbedKept
  <2>13. Promises'
    <3>1. ASSUME NEW p \in Paths, promised'[p] # None
          PROVE  /\ promised[p] = promised'[p] /\ store'[p] = store[p] /\ state' = state
                 /\ Respects(job'[r], p, promised[p])
                 /\ \A o \in Objects : InUse(o)' =>
                       /\ Live(objs'[o].files[p])
                       /\ objs'[o].files[p].content \in {None, promised[p]}
      <4>1. promised'[p] = promised[p]
            BY <1>1
      <4>2. Respects(job[r], p, promised[p]) /\ store[p] = promised[p]
            BY <3>1, <4>1, PromiseFacts
      <4>3. path = p => bytes = promised[p] /\ rec.from = "store"
            BY <1>1, <2>4, <4>2 DEF Respects
      <4>4. Respects(rec, p, promised[p])
            BY <2>4, <4>3 DEF Respects
      <4>5. Respects(job'[r], p, promised[p])
            BY <2>6, <4>4
      <4>6. ASSUME NEW o \in Objects, InUse(o), objs'[o] = objs[o]
            PROVE  Live(objs'[o].files[p]) /\ objs'[o].files[p].content \in {None, promised[p]}
            BY <3>1, <4>1, <4>6, PromiseFacts
      <4> QED BY <1>1, <2>9, <4>1, <4>5, <4>6
    <3> QED BY <2>8, <3>1, PromisesKept
  <2>14. Bare'
    <3>1. state' = state /\ job'[r].snap = job[r].snap
          BY <1>1, <2>4, <2>6
    <3>2. /\ \A p \in Paths : state.files[p].content = None
          /\ \A p \in Paths : job[r].snap.files[p].content = None
          BY DEF IInv, Bare
    <3> QED BY <2>8, <3>1, <3>2, BareKept
  <2>15. Backed'
    <3>1. ASSUME NEW p \in Paths \ exposed'
          PROVE  /\ Dirty(state'.files[p]) => store'[p] # None
                 /\ \A o \in Objects : Dirty(objs'[o].files[p]) => Dirty(objs[o].files[p])
          BY <1>1, <2>9, <3>1 DEF IInv, Backed
    <3>2. ~job[r].open => exposed = Paths
          BY DEF IInv, Backed
    <3> QED BY <1>1, <2>4, <2>6, <2>8, <2>10, <3>1, <3>2, BackedKept DEF Types
  <2>16. Commits'
    <3>1. ASSUME NEW q \in Requests, job'[q].at = "applying"
          PROVE  objs'[job'[q].obj] = objs[job'[q].obj]
          BY <2>9, <2>11, <3>1 DEF WellPlaced
    <3> QED BY <1>1, <2>4, <2>6, <2>8, <2>10, <3>1, CommitsKept DEF Types, Stays
  <2> QED BY <2>9, <2>10, <2>11, <2>12, <2>13, <2>14, <2>15, <2>16 DEF IInv
<1> QED BY <1>2, <1>3

\* Objects of which one file of one has changed.
LEMMA OneFile ==
    ASSUME IInv, NEW r \in Requests, Step(r), NEW o \in Objects, NEW p \in Paths,
           NEW v \in VirtualFile,
           objs' = Kept(SetFile(o, p, v)), mounted' = mounted,
           job'[r].obj \in {None, mounted, job[r].obj},
           job'[r].at \notin {"mounting", "cloning"}, job[r].at \notin {"mounting", "cloning"}
    PROVE  /\ \A x \in Objects : InUse(x)' => InUse(x)
           /\ \A x \in Objects, y \in Paths : InUse(x)' =>
                 objs'[x].files[y] = IF x = o /\ y = p THEN v ELSE objs[x].files[y]
           /\ \A x \in Objects, y \in Paths : Dirty(objs'[x].files[y]) =>
                 objs'[x].files[y] = IF x = o /\ y = p THEN v ELSE objs[x].files[y]
           /\ \A q \in Requests : job'[q].obj \in Objects =>
                 /\ objs'[job'[q].obj].dir = objs[job'[q].obj].dir
                 /\ \A y \in Paths : objs'[job'[q].obj].files[y] =
                       IF job'[q].obj = o /\ y = p THEN v ELSE objs[job'[q].obj].files[y]
           /\ Homes'
<1> DEFINE new == SetFile(o, p, v)
<1>1. objs \in [Objects -> Mounts]
      BY DEF IInv, Types
<1>2. /\ new \in [Objects -> Mounts]
      /\ \A x \in Objects : x # o => new[x] = objs[x]
      /\ new[o].dir = objs[o].dir
      /\ new[o].files[p] = v
      /\ \A x \in Paths : x # p => new[o].files[x] = objs[o].files[x]
      BY <1>1, SetFileFacts
<1>3. objs' = Kept(new)
      OBVIOUS
<1> HIDE DEF new
<1>4. \A x \in Objects : /\ new[x].dir = objs[x].dir
                         /\ \A y \in Paths : new[x].files[y] =
                               IF x = o /\ y = p THEN v ELSE objs[x].files[y]
      BY <1>2
<1>5. /\ \A x \in Objects : Held(x)' => objs'[x] = new[x]
      /\ \A x \in Objects : InUse(x)' => objs'[x] = new[x]
      /\ \A x \in Objects, y \in Paths : Dirty(objs'[x].files[y]) => objs'[x] = new[x]
      BY <1>2, <1>3, HeldKept
<1>6. \A q \in Requests : q # r => job'[q].obj = job[q].obj /\ job'[q].at = job[q].at
      BY DEF Step, Follows
<1>7. ASSUME NEW x \in Objects, InUse(x)' PROVE InUse(x)
  <2>1. x # None
        BY GvfsAssumption
  <2>2. CASE x = mounted'
        BY <2>1, <2>2 DEF InUse
  <2>3. CASE \E q \in Requests : job'[q].obj = x /\ job'[q].at \notin {"mounting", "cloning"}
    <3>1. PICK q \in Requests : job'[q].obj = x /\ job'[q].at \notin {"mounting", "cloning"}
          BY <2>3
    <3>2. CASE q = r
          BY <2>1, <3>1, <3>2 DEF InUse
    <3>3. CASE q # r
          BY <1>6, <3>1, <3>3 DEF InUse
    <3> QED BY <3>2, <3>3
  <2> QED BY <1>7, <2>2, <2>3 DEF InUse
<1>8. ASSUME NEW q \in Requests, job'[q].obj \in Objects
      PROVE  objs'[job'[q].obj] = new[job'[q].obj]
  <2>1. \A x \in Objects : x = job'[q].obj => Held(x)'
        BY DEF Held
  <2> QED BY <1>5, <1>8, <2>1
<1>9. Homes'
  <2>1. \A x \in Objects : Held(x)' => objs'[x].dir = objs[x].dir
        BY <1>4, <1>5
  <2> QED BY <2>1, HomesKept
<1>10. \A x \in Objects, y \in Paths : InUse(x)' =>
          objs'[x].files[y] = IF x = o /\ y = p THEN v ELSE objs[x].files[y]
      BY <1>4, <1>5
<1>11. \A x \in Objects, y \in Paths : Dirty(objs'[x].files[y]) =>
          objs'[x].files[y] = IF x = o /\ y = p THEN v ELSE objs[x].files[y]
      BY <1>4, <1>5
<1>12. \A q \in Requests : job'[q].obj \in Objects =>
          /\ objs'[job'[q].obj].dir = objs[job'[q].obj].dir
          /\ \A y \in Paths : objs'[job'[q].obj].files[y] =
                IF job'[q].obj = o /\ y = p THEN v ELSE objs[job'[q].obj].files[y]
      BY <1>4, <1>8
<1> QED BY <1>7, <1>9, <1>10, <1>11, <1>12

\* What was read is assigned, if the mount still has the file.
LEMMA LoadAssignsStep == ASSUME IInv, NEW r \in Requests, LoadAssigns(r) PROVE IInv'
<1> DEFINE o == job[r].obj
           path == job[r].path
           v == objs[o].files[path]
           loaded == [v EXCEPT !.content = job[r].buf,
                               !.head = IF job[r].from = "clone" THEN v.sha ELSE @]
           w == IF job[r].held THEN loaded ELSE v
<1>1. /\ job[r].at = "loaded" /\ End(r)
      /\ objs' = Kept(IF job[r].held THEN SetFile(o, path, loaded) ELSE objs)
      /\ late' = Touched(path)
      /\ UNCHANGED <<mounted, lock, tree, index, head, store, state>>
      /\ UNCHANGED <<promised, failed, exposed, missed>>
      BY DEF LoadAssigns, clone, disk
<1>2. /\ job[r].obj \in Objects /\ job[r].path \in Paths /\ job[r].buf \in Bytes
      /\ objs \in [Objects -> Mounts] /\ v \in VirtualFile
  <2>1. /\ job[r].obj \in Objects /\ job[r].path \in Paths /\ job[r].buf \in Bytes
        /\ objs \in [Objects -> Mounts]
        BY <1>1 DEF IInv, Types, WellPlaced
  <2> QED BY <2>1 DEF Mounts
<1>3. /\ loaded \in VirtualFile /\ loaded.status = v.status /\ loaded.content = job[r].buf
      BY <1>2 DEF VirtualFile
<1>4. /\ w \in VirtualFile /\ w.status = v.status /\ w.content \in {v.content, job[r].buf}
      BY <1>2, <1>3
<1>5. objs' = Kept(SetFile(o, path, w))
  <2>1. SetFile(o, path, v) = objs
        BY <1>2 DEF SetFile, Mounts
  <2> QED BY <1>1, <2>1
<1> HIDE DEF w, loaded
<1>6. /\ job' \in [Requests -> Jobs] /\ job'[r] = Idle
      /\ \A q \in Requests : q # r => job'[q] = job[q]
      BY <1>1, EndFacts DEF IInv, Types
<1>7. /\ Idle.at = "idle" /\ Idle.op = "none" /\ Idle.obj = None /\ Idle.path = None
      /\ Idle.alone = FALSE /\ Idle.open = TRUE /\ Idle.snap = NoState
      BY DEF Idle
<1>8. objs' \in [Objects -> Mounts]
      BY <1>2, <1>4, <1>5, SetFileFacts, HeldKept
<1>9. Step(r)
      BY <1>6, <1>8, FollowsItself DEF Step
<1>10. /\ \A x \in Objects : InUse(x)' => InUse(x)
       /\ \A x \in Objects, y \in Paths : InUse(x)' =>
             objs'[x].files[y] = IF x = o /\ y = path THEN w ELSE objs[x].files[y]
       /\ \A x \in Objects, y \in Paths : Dirty(objs'[x].files[y]) =>
             objs'[x].files[y] = IF x = o /\ y = path THEN w ELSE objs[x].files[y]
       /\ \A q \in Requests : job'[q].obj \in Objects =>
             /\ objs'[job'[q].obj].dir = objs[job'[q].obj].dir
             /\ \A y \in Paths : objs'[job'[q].obj].files[y] =
                   IF job'[q].obj = o /\ y = path THEN w ELSE objs[job'[q].obj].files[y]
       /\ Homes'
      BY <1>1, <1>2, <1>4, <1>5, <1>6, <1>7, <1>9, OneFile
<1>11. Types'
  <2>1. late' \subseteq Paths /\ late \subseteq late'
        BY <1>1, <1>2 DEF Touched, IInv, Types
  <2> QED BY <1>1, <1>6, <1>8, <2>1 DEF IInv, Types
<1>12. \A q \in Requests : WellPlaced(job'[q])
      BY <1>6, <1>9, ValuesTyped, WellKept
<1>13. Undisturbed'
      BY <1>1, <1>6, <1>7, <1>9, UndisturbedKept
<1>14. Promises'
  <2>1. ASSUME NEW p \in Paths, promised'[p] # None
        PROVE  /\ promised[p] = promised'[p] /\ store'[p] = store[p] /\ state' = state
               /\ Respects(job'[r], p, promised[p])
               /\ \A x \in Objects : InUse(x)' =>
                     /\ Live(objs'[x].files[p])
                     /\ objs'[x].files[p].content \in {None, promised[p]}
    <3>1. promised'[p] = promised[p]
          BY <1>1
    <3>2. Respects(job'[r], p, promised[p])
          BY <1>6, <1>7, <2>1, GvfsAssumption DEF Respects
    <3>3. path = p => job[r].buf = promised[p]
          BY <1>1, <2>1, <3>1, PromiseFacts DEF Respects
    <3>4. ASSUME NEW x \in Objects, InUse(x)'
          PROVE  Live(objs'[x].files[p]) /\ objs'[x].files[p].content \in {None, promised[p]}
      <4>1. Live(objs[x].files[p]) /\ objs[x].files[p].content \in {None, promised[p]}
            BY <1>10, <2>1, <3>1, <3>4, PromiseFacts
      <4>2. CASE x = o /\ p = path
        <5>1. objs'[x].files[p] = w /\ objs[x].files[p] = v
              BY <1>10, <3>4, <4>2
        <5> QED BY <1>4, <3>3, <4>1, <4>2, <5>1 DEF Live
      <4>3. CASE ~(x = o /\ p = path)
            BY <1>10, <3>4, <4>1, <4>3
      <4> QED BY <4>2, <4>3
    <3> QED BY <1>1, <3>1, <3>2, <3>4
  <2> QED BY <1>9, <2>1, PromisesKept
<1>15. Bare'
      BY <1>1, <1>6, <1>7, <1>9, ValuesTyped, BareKept DEF IInv, Bare, Absent
<1>16. Backed'
  <2>1. ASSUME NEW p \in Paths \ exposed'
        PROVE  /\ Dirty(state'.files[p]) => store'[p] # None
               /\ \A x \in Objects : Dirty(objs'[x].files[p]) => Dirty(objs[x].files[p])
    <3>1. ASSUME NEW x \in Objects, Dirty(objs'[x].files[p]) PROVE Dirty(objs[x].files[p])
      <4>1. CASE x = o /\ p = path
        <5>1. objs'[x].files[p] = w /\ objs[x].files[p] = v
              BY <1>10, <3>1, <4>1
        <5> QED BY <1>4, <3>1, <5>1 DEF Dirty
      <4>2. CASE ~(x = o /\ p = path)
            BY <1>10, <3>1, <4>2
      <4> QED BY <4>1, <4>2
    <3> QED BY <1>1, <2>1, <3>1 DEF IInv, Backed
  <2> QED BY <1>1, <1>6, <1>7, <1>9, <1>11, <2>1, BackedKept DEF Types
<1>17. Commits'
  <2>1. late \subseteq late' /\ (Committing # {} => path \in late')
        BY <1>1, <1>2 DEF Touched
  <2>2. ASSUME NEW q \in Requests, job'[q].at = "applying", NEW p \in Paths \ late'
        PROVE  Stays(objs[job'[q].obj].files[p], objs'[job'[q].obj].files[p])
    <3>1. q \in Committing /\ job'[q].obj \in Objects
          BY <1>6, <1>7, <1>12, <2>2 DEF WellPlaced, Committing
    <3>2. p # path
          BY <2>1, <2>2, <3>1
    <3>3. objs'[job'[q].obj].files[p] = objs[job'[q].obj].files[p]
          BY <1>10, <3>1, <3>2
    <3> QED BY <3>3 DEF Stays
  <2>3. \A q \in Requests : job'[q].at = "applying" =>
           objs'[job'[q].obj].dir = objs[job'[q].obj].dir
        BY <1>10, <1>12 DEF WellPlaced
  <2> QED BY <1>1, <1>6, <1>7, <1>9, <1>11, <2>1, <2>2, <2>3, CommitsKept DEF Types
<1> QED BY <1>10, <1>11, <1>12, <1>13, <1>14, <1>15, <1>16, <1>17 DEF IInv

\* A file is read: one that only the clone has gets an entry, and what is in the
\* store is taken from there.
LEMMA ReadFileStep == ASSUME IInv, NEW r \in Requests, NEW p \in Paths, ReadFile(r, p) PROVE IInv'
<1>0. PICK o \in Objects : o = mounted
      BY DEF ReadFile, IInv, Types
<1> DEFINE v == objs[o].files[p]
           entry == IF v.status = "absent" THEN [Absent EXCEPT !.status = "untracked"] ELSE v
           src == Source(o, p)
           rec == [Idle EXCEPT !.op = "read", !.at = "loading", !.obj = o, !.path = p,
                               !.from = src]
<1>1. /\ job[r].at = "idle" /\ o = mounted /\ o # None /\ v.content = None
      /\ IF src = "nothing" THEN job' = job ELSE Begin(r, rec)
      /\ objs' = Kept(SetFile(o, p, entry))
      /\ UNCHANGED <<mounted, lock, tree, index, head, store, state>>
      /\ UNCHANGED <<promised, failed, exposed, late, missed>>
      BY <1>0 DEF ReadFile, Asked, Free, clone, disk, history
<1>2. o \in Objects /\ objs \in [Objects -> Mounts] /\ job[r] = Idle
      BY <1>1 DEF IInv, Types, WellPlaced
<1>3. v \in VirtualFile
      BY <1>2 DEF Mounts
<1>4. /\ entry \in VirtualFile
      /\ Live(v) => entry = v
      /\ Dirty(entry) => Dirty(v)
      /\ entry = v \/ entry.status = "untracked"
  <2>1. /\ [Absent EXCEPT !.status = "untracked"] \in VirtualFile
        /\ [Absent EXCEPT !.status = "untracked"].status = "untracked"
        BY ValuesTyped DEF VirtualFile, Statuses
  <2> QED BY <1>3, <2>1 DEF Live, Dirty
<1>5. src \in {"store", "clone", "nothing"} /\ (store[p] # None => src = "store")
      BY DEF Source
<1>6. /\ Idle.at = "idle" /\ Idle.op = "none" /\ Idle.obj = None /\ Idle.path = None
      /\ Idle.alone = FALSE /\ Idle.open = TRUE /\ Idle.snap = NoState
      BY DEF Idle
<1> HIDE DEF entry, src, rec
<1>7. /\ job' \in [Requests -> Jobs] /\ WellPlaced(job'[r])
      /\ \A q \in Requests : q # r => Follows(job[q], job'[q]) /\ job'[q].open = job[q].open
      /\ job'[r].at \in {"idle", "loading"} /\ job'[r].op \in {"none", "read"}
      /\ job'[r].obj \in {None, o}
      /\ job'[r].at = "loading" => job'[r].from = src /\ job'[r].path = p
      /\ job'[r].alone = FALSE /\ job'[r].open = TRUE /\ job'[r].snap = NoState
      /\ \/ job' = job
         \/ \A q \in Requests : ~job'[q].alone
  <2>1. CASE src = "nothing"
    <3>1. job' = job
          BY <1>1, <2>1
    <3>2. job \in [Requests -> Jobs] /\ job'[r] = Idle
          BY <1>2, <3>1 DEF IInv, Types
    <3> QED BY <1>6, <3>1, <3>2, FollowsItself, ValuesTyped
  <2>2. CASE src # "nothing"
    <3>1. src \in {"store", "clone"}
          BY <1>5, <2>2
    <3>2. /\ rec \in Jobs /\ rec.op = "read" /\ rec.at = "loading" /\ rec.obj = o
          /\ rec.path = p /\ rec.from = src /\ rec.open = TRUE /\ rec.snap = NoState
          BY <1>2, <3>1, ValuesTyped DEF rec, Jobs, Ops, Places, Idle
    <3>3. Begin(r, rec)
          BY <1>1, <2>2
    <3>4. /\ job' \in [Requests -> Jobs]
          /\ \A q \in Requests : q # r =>
                Follows(job[q], job'[q]) /\ job'[q].open = job[q].open
          /\ \A q \in Requests : q # r => ~job'[q].alone
          /\ job'[r] = [rec EXCEPT !.alone = (rec.op = "write" /\ Busy = {})]
          BY <3>2, <3>3, BeginFacts DEF IInv, Types
    <3>5. /\ job'[r].op = "read" /\ job'[r].at = "loading" /\ job'[r].obj = o
          /\ job'[r].path = p /\ job'[r].from = src /\ job'[r].open = TRUE
          /\ job'[r].snap = NoState /\ job'[r].alone = FALSE
          BY <3>2, <3>4 DEF Jobs
    <3>6. WellPlaced(job'[r])
          BY <1>2, <3>1, <3>5 DEF WellPlaced
    <3> QED BY <3>4, <3>5, <3>6
  <2> QED BY <2>1, <2>2
<1>8. objs' \in [Objects -> Mounts]
      BY <1>1, <1>2, <1>4, SetFileFacts, HeldKept
<1>9. Step(r)
      BY <1>7, <1>8 DEF Step
<1>10. /\ \A x \in Objects : InUse(x)' => InUse(x)
       /\ \A x \in Objects, y \in Paths : InUse(x)' =>
             objs'[x].files[y] = IF x = o /\ y = p THEN entry ELSE objs[x].files[y]
       /\ \A x \in Objects, y \in Paths : Dirty(objs'[x].files[y]) =>
             objs'[x].files[y] = IF x = o /\ y = p THEN entry ELSE objs[x].files[y]
       /\ \A q \in Requests : job'[q].obj \in Objects =>
             /\ objs'[job'[q].obj].dir = objs[job'[q].obj].dir
             /\ \A y \in Paths : objs'[job'[q].obj].files[y] =
                   IF job'[q].obj = o /\ y = p THEN entry ELSE objs[job'[q].obj].files[y]
       /\ Homes'
      BY <1>1, <1>2, <1>4, <1>7, <1>9, OneFile
<1>11. Types'
      BY <1>1, <1>7, <1>8 DEF IInv, Types
<1>12. \A q \in Requests : WellPlaced(job'[q])
      BY <1>7, <1>9, WellKept
<1>13. Undisturbed'
  <2>1. CASE \A q \in Requests : ~job'[q].alone
        BY <2>1 DEF Undisturbed
  <2>2. CASE job' = job
    <3>1. ASSUME NEW q \in Requests, job[q].alone PROVE Lone(q)'
      <4>1. Lone(q)
            BY <3>1 DEF IInv, Undisturbed
      <4>2. job[q].path \in Paths
            BY <3>1, <4>1 DEF Lone, IInv, WellPlaced
      <4>3. InUse(o)'
            BY <1>1 DEF InUse
      <4>4. objs'[o].files[job[q].path] = objs[o].files[job[q].path]
        <5>1. Live(objs[o].files[job[q].path])
              BY <1>1, <4>1 DEF Lone
        <5> QED BY <1>2, <1>4, <1>10, <4>2, <4>3, <5>1
      <4> QED BY <1>1, <2>2, <4>1, <4>4 DEF Lone
    <3> QED BY <2>2, <3>1 DEF Undisturbed
  <2> QED BY <1>7, <2>1, <2>2
<1>14. Promises'
  <2>1. ASSUME NEW y \in Paths, promised'[y] # None
        PROVE  /\ promised[y] = promised'[y] /\ store'[y] = store[y] /\ state' = state
               /\ Respects(job'[r], y, promised[y])
               /\ \A x \in Objects : InUse(x)' =>
                     /\ Live(objs'[x].files[y])
                     /\ objs'[x].files[y].content \in {None, promised[y]}
    <3>1. promised'[y] = promised[y]
          BY <1>1
    <3>2. store[y] # None
          BY <2>1, <3>1, PromiseFacts
    <3>3. Respects(job'[r], y, promised[y])
      <4>1. y = p => src = "store"
            BY <1>5, <3>2
      <4> QED BY <1>7, <4>1 DEF Respects
    <3>4. ASSUME NEW x \in Objects, InUse(x)'
          PROVE  Live(objs'[x].files[y]) /\ objs'[x].files[y].content \in {None, promised[y]}
      <4>1. Live(objs[x].files[y]) /\ objs[x].files[y].content \in {None, promised[y]}
            BY <1>10, <2>1, <3>1, <3>4, PromiseFacts
      <4>2. objs'[x].files[y] = objs[x].files[y]
            BY <1>4, <1>10, <3>4, <4>1
      <4> QED BY <4>1, <4>2
    <3> QED BY <1>1, <3>1, <3>3, <3>4
  <2> QED BY <1>9, <2>1, PromisesKept
<1>15. Bare'
      BY <1>1, <1>7, <1>9, ValuesTyped, BareKept DEF IInv, Bare, Absent
<1>16. Backed'
  <2>1. ASSUME NEW y \in Paths \ exposed'
        PROVE  /\ Dirty(state'.files[y]) => store'[y] # None
               /\ \A x \in Objects : Dirty(objs'[x].files[y]) => Dirty(objs[x].files[y])
    <3>1. ASSUME NEW x \in Objects, Dirty(objs'[x].files[y]) PROVE Dirty(objs[x].files[y])
      <4>1. CASE x = o /\ y = p
        <5>1. objs'[x].files[y] = entry /\ objs[x].files[y] = v
              BY <1>10, <3>1, <4>1
        <5> QED BY <1>4, <3>1, <5>1
      <4>2. CASE ~(x = o /\ y = p)
            BY <1>10, <3>1, <4>2
      <4> QED BY <4>1, <4>2
    <3> QED BY <1>1, <2>1, <3>1 DEF IInv, Backed
  <2> QED BY <1>1, <1>7, <1>9, <1>11, <2>1, BackedKept DEF Types
<1>17. Commits'
  <2>1. ASSUME NEW q \in Requests, job'[q].at = "applying", NEW y \in Paths \ late'
        PROVE  Stays(objs[job'[q].obj].files[y], objs'[job'[q].obj].files[y])
    <3>1. job'[q].obj \in Objects
          BY <1>12, <2>1 DEF WellPlaced
    <3>2. \/ objs'[job'[q].obj].files[y] = objs[job'[q].obj].files[y]
          \/ objs'[job'[q].obj].files[y].status = "untracked"
          BY <1>4, <1>10, <3>1
    <3> QED BY <3>2 DEF Stays, Dirty
  <2>2. \A q \in Requests : job'[q].at = "applying" =>
           objs'[job'[q].obj].dir = objs[job'[q].obj].dir
        BY <1>10, <1>12 DEF WellPlaced
  <2> QED BY <1>1, <1>7, <1>9, <1>11, <2>1, <2>2, CommitsKept DEF Types
<1> QED BY <1>10, <1>11, <1>12, <1>13, <1>14, <1>15, <1>16, <1>17 DEF IInv

-----------------------------------------------------------------------------
(* write_file and delete_file.                                             *)

\* A file that is written is there, with what was written.
LEMMA WrittenFacts ==
    ASSUME NEW v \in VirtualFile, NEW c \in Contents
    PROVE  Written(v, c) \in VirtualFile /\ Live(Written(v, c)) /\ Written(v, c).content = c
<1>1. Sha256(c) \in Shas /\ NoSha \in Shas /\ c \in Bytes
      BY DEF Sha256, Shas, Bytes
<1>2. CASE v.status = "absent"
      BY <1>1, <1>2 DEF Written, VirtualFile, Statuses, Live
<1>3. CASE v.status # "absent"
  <2> DEFINE s == IF Sha256(c) # v.head THEN "modified" ELSE "unchanged"
  <2>1. s \in {"modified", "unchanged"}
        OBVIOUS
  <2>2. Written(v, c) = [v EXCEPT !.content = c, !.sha = Sha256(c), !.status = s]
        BY <1>3 DEF Written
  <2> HIDE DEF s
  <2> QED BY <1>1, <2>1, <2>2 DEF VirtualFile, Statuses, Live
<1> QED BY <1>2, <1>3

\* A file is written in memory; of its path nothing is promised until it is stored.
LEMMA WriteFileStep ==
    ASSUME IInv, NEW r \in Requests, NEW p \in Paths, NEW c \in Contents, WriteFile(r, p, c)
    PROVE  IInv'
<1>0. PICK o \in Objects : o = mounted
      BY DEF WriteFile, IInv, Types
<1> DEFINE v == objs[o].files[p]
           w == Written(v, c)
           rec == [Idle EXCEPT !.op = "write", !.at = "storing", !.obj = o, !.path = p,
                               !.want = c]
<1>1. /\ job[r].at = "idle" /\ o = mounted /\ o # None
      /\ Begin(r, rec)
      /\ objs' = Kept(SetFile(o, p, w))
      /\ promised' = [promised EXCEPT ![p] = None] /\ late' = Touched(p)
      /\ UNCHANGED <<mounted, lock, tree, index, head, store, state, failed, exposed, missed>>
      BY <1>0 DEF WriteFile, Asked, Free, clone, disk
<1>2. objs \in [Objects -> Mounts] /\ job[r] = Idle
      BY <1>1 DEF IInv, Types, WellPlaced
<1>3. v \in VirtualFile
      BY <1>2 DEF Mounts
<1>4. w \in VirtualFile /\ Live(w) /\ w.content = c
      BY <1>3, WrittenFacts
<1>5. /\ rec \in Jobs /\ rec.op = "write" /\ rec.at = "storing" /\ rec.obj = o
      /\ rec.path = p /\ rec.want = c /\ rec.open = TRUE /\ rec.held = TRUE
      /\ rec.snap = NoState
      BY ValuesTyped DEF Jobs, Ops, Places, Idle
<1> HIDE DEF rec, w, v
<1>6. /\ job' \in [Requests -> Jobs]
      /\ \A q \in Requests : q # r => Follows(job[q], job'[q]) /\ job'[q].open = job[q].open
      /\ \A q \in Requests : q # r => ~job'[q].alone
      /\ job'[r] = [rec EXCEPT !.alone = (rec.op = "write" /\ Busy = {})]
      BY <1>1, <1>5, BeginFacts DEF IInv, Types
<1>7. /\ job'[r].op = "write" /\ job'[r].at = "storing" /\ job'[r].obj = o
      /\ job'[r].path = p /\ job'[r].want = c /\ job'[r].open = TRUE /\ job'[r].held = TRUE
      /\ job'[r].snap = NoState
      /\ job'[r].alone => Busy = {}
      BY <1>5, <1>6 DEF Jobs
<1>8. objs' \in [Objects -> Mounts]
  <2>1. SetFile(o, p, w) \in [Objects -> Mounts]
        BY <1>2, <1>4, SetFileFacts
  <2> QED BY <1>1, <2>1, HeldKept
<1>9. Step(r)
      BY <1>6, <1>8 DEF Step
<1>10. /\ \A x \in Objects : InUse(x)' => InUse(x)
       /\ \A x \in Objects, y \in Paths : InUse(x)' =>
             objs'[x].files[y] = IF x = o /\ y = p THEN w ELSE objs[x].files[y]
       /\ \A x \in Objects, y \in Paths : Dirty(objs'[x].files[y]) =>
             objs'[x].files[y] = IF x = o /\ y = p THEN w ELSE objs[x].files[y]
       /\ \A q \in Requests : job'[q].obj \in Objects =>
             /\ objs'[job'[q].obj].dir = objs[job'[q].obj].dir
             /\ \A y \in Paths : objs'[job'[q].obj].files[y] =
                   IF job'[q].obj = o /\ y = p THEN w ELSE objs[job'[q].obj].files[y]
       /\ Homes'
      BY <1>1, <1>4, <1>7, <1>9, OneFile
<1>11. Types'
  <2>1. late' \subseteq Paths
        BY <1>1 DEF Touched, IInv, Types
  <2>2. promised' \in [Paths -> Contents \cup {None}]
        BY <1>1 DEF IInv, Types
  <2> QED BY <1>1, <1>6, <1>8, <2>1, <2>2 DEF IInv, Types
<1>12. \A q \in Requests : WellPlaced(job'[q])
  <2>1. WellPlaced(job'[r])
        BY <1>7 DEF WellPlaced
  <2> QED BY <1>9, <2>1, WellKept
<1>13. Undisturbed'
  <2>1. ASSUME job'[r].alone PROVE Lone(r)'
    <3>1. \A q \in Requests : q # r => job'[q] = Idle
      <4>1. \A q \in Requests : job[q] = Idle
            BY <1>7, <2>1 DEF Busy, Free, IInv, WellPlaced
      <4> QED BY <1>6, <4>1 DEF Follows
    <3>2. objs'[mounted'].files[job'[r].path] = w
      <4>1. InUse(o)'
            BY <1>1 DEF InUse
      <4> QED BY <1>1, <1>7, <1>10, <4>1
    <3> QED BY <1>1, <1>4, <1>7, <3>1, <3>2 DEF Lone
  <2> QED BY <1>6, <1>9, <2>1, UndisturbedKept
<1>14. Promises'
  <2>1. ASSUME NEW y \in Paths, promised'[y] # None
        PROVE  /\ promised[y] = promised'[y] /\ store'[y] = store[y] /\ state' = state
               /\ Respects(job'[r], y, promised[y])
               /\ \A x \in Objects : InUse(x)' =>
                     /\ Live(objs'[x].files[y])
                     /\ objs'[x].files[y].content \in {None, promised[y]}
    <3>1. promised'[y] = promised[y] /\ y # p
          BY <1>1, <2>1 DEF IInv, Types
    <3>2. Respects(job'[r], y, promised[y])
          BY <1>7, <3>1 DEF Respects
    <3>3. ASSUME NEW x \in Objects, InUse(x)'
          PROVE  Live(objs'[x].files[y]) /\ objs'[x].files[y].content \in {None, promised[y]}
      <4>1. InUse(x) /\ objs'[x].files[y] = objs[x].files[y]
            BY <1>10, <3>1, <3>3
      <4> QED BY <2>1, <3>1, <4>1, PromiseFacts
    <3> QED BY <1>1, <3>1, <3>2, <3>3
  <2> QED BY <1>9, <2>1, PromisesKept
<1>15. Bare'
      BY <1>1, <1>7, <1>9, ValuesTyped, BareKept DEF IInv, Bare, Absent
<1>16. Backed'
  <2>1. ASSUME NEW y \in Paths \ exposed'
        PROVE  /\ Dirty(state'.files[y]) => store'[y] # None
               /\ \A x \in Objects : Dirty(objs'[x].files[y]) =>
                     Dirty(objs[x].files[y]) \/ job'[r].path = y
    <3>1. ASSUME NEW x \in Objects, Dirty(objs'[x].files[y]), y # p
          PROVE  Dirty(objs[x].files[y])
          BY <1>10, <2>1, <3>1
    <3> QED BY <1>1, <1>7, <2>1, <3>1 DEF IInv, Backed
  <2> QED BY <1>1, <1>6, <1>7, <1>9, <1>11, <2>1, BackedKept DEF Types
<1>17. Commits'
  <2>1. late \subseteq late' /\ (Committing # {} => p \in late')
        BY <1>1 DEF Touched
  <2>2. ASSUME NEW q \in Requests, job'[q].at = "applying", NEW y \in Paths \ late'
        PROVE  Stays(objs[job'[q].obj].files[y], objs'[job'[q].obj].files[y])
    <3>1. job'[q].obj \in Objects /\ job'[q].op = "commit"
          BY <1>12, <2>2 DEF WellPlaced
    <3>2. job[q].op = "commit"
          BY <1>6, <1>7, <3>1 DEF Follows
    <3>3. y # p
          BY <2>1, <2>2, <3>2 DEF Committing
    <3>4. objs'[job'[q].obj].files[y] = objs[job'[q].obj].files[y]
          BY <1>10, <3>1, <3>3
    <3> QED BY <3>4 DEF Stays
  <2>3. \A q \in Requests : job'[q].at = "applying" =>
           objs'[job'[q].obj].dir = objs[job'[q].obj].dir
        BY <1>10, <1>12 DEF WellPlaced
  <2> QED BY <1>1, <1>7, <1>9, <1>11, <2>1, <2>2, <2>3, CommitsKept DEF Types
<1> QED BY <1>10, <1>11, <1>12, <1>13, <1>14, <1>15, <1>16, <1>17 DEF IInv

\* A file is deleted, or its entry removed from under those who write it.
LEMMA DeleteFileStep ==
    ASSUME IInv, NEW r \in Requests, NEW p \in Paths, DeleteFile(r, p)
    PROVE  IInv'
<1>0. PICK o \in Objects : o = mounted
      BY DEF DeleteFile, IInv, Types
<1> DEFINE v == objs[o].files[p]
           removed == v.status = "added"
           w == IF removed THEN Absent ELSE [v EXCEPT !.status = "deleted", !.content = None]
           left(j) == IF removed /\ job[j].obj = o /\ job[j].path = p /\ job[j].held
                      THEN [job[j] EXCEPT !.alone = FALSE, !.held = FALSE,
                               !.buf = IF job[j].at = "storing" THEN v.content ELSE @]
                      ELSE [job[j] EXCEPT !.alone = FALSE]
<1>1. /\ job[r].at = "idle" /\ o = mounted /\ o # None
      /\ job' = [j \in Requests |-> left(j)]
      /\ objs' = Kept(SetFile(o, p, w))
      /\ promised' = [promised EXCEPT ![p] = None] /\ late' = Touched(p)
      /\ UNCHANGED <<mounted, lock, tree, index, head, store, state, failed, exposed, missed>>
      BY <1>0 DEF DeleteFile, Asked, Free, clone, disk
<1>2. objs \in [Objects -> Mounts] /\ job[r] = Idle
      BY <1>1 DEF IInv, Types, WellPlaced
<1>3. v \in VirtualFile
      BY <1>2 DEF Mounts
<1>4. w \in VirtualFile /\ ~Dirty(w)
  <2>1. /\ [v EXCEPT !.status = "deleted", !.content = None] \in VirtualFile
        /\ [v EXCEPT !.status = "deleted", !.content = None].status = "deleted"
        BY <1>3 DEF VirtualFile, Statuses
  <2>2. Absent \in VirtualFile /\ Absent.status = "absent"
        BY ValuesTyped DEF Absent
  <2> QED BY <2>1, <2>2 DEF Dirty
<1>5. ASSUME NEW q \in Requests
      PROVE  /\ left(q) \in Jobs /\ Follows(job[q], left(q))
             /\ left(q).alone = FALSE /\ left(q).open = job[q].open
  <2>1. job[q] \in Jobs /\ v.content \in Bytes \cup {None}
        BY <1>3 DEF IInv, Types, VirtualFile
  <2>2. CASE removed /\ job[q].obj = o /\ job[q].path = p /\ job[q].held
    <3> DEFINE b == IF job[q].at = "storing" THEN v.content ELSE job[q].buf
    <3>1. b \in Bytes \cup {None} /\ (job[q].at # "storing" => b = job[q].buf)
          BY <2>1 DEF Jobs
    <3>2. left(q) = [job[q] EXCEPT !.alone = FALSE, !.held = FALSE, !.buf = b]
          BY <2>2
    <3> HIDE DEF b, left
    <3>3. left(q) \in Jobs
          BY ONLY <2>1, <3>1, <3>2 DEF Jobs
    <3>4. /\ left(q).alone = FALSE /\ left(q).open = job[q].open
          /\ left(q).op = job[q].op /\ left(q).at = job[q].at /\ left(q).obj = job[q].obj
          /\ left(q).path = job[q].path /\ left(q).want = job[q].want
          /\ left(q).from = job[q].from /\ left(q).snap = job[q].snap
          /\ left(q).todo = job[q].todo /\ left(q).buf = b
          BY ONLY <2>1, <3>2 DEF Jobs
    <3>5. job[q] # Idle
          BY <2>2, GvfsAssumption DEF Idle
    <3> QED BY <3>1, <3>3, <3>4, <3>5 DEF Follows
  <2>3. CASE ~(removed /\ job[q].obj = o /\ job[q].path = p /\ job[q].held)
    <3>1. left(q) = [job[q] EXCEPT !.alone = FALSE]
          BY <2>3
    <3>2. [job[q] EXCEPT !.alone = FALSE].alone = FALSE
          BY <2>1 DEF Jobs
    <3> HIDE DEF left
    <3> QED BY <2>1, <3>1, <3>2, FollowsDisturbed
  <2> QED BY <2>2, <2>3
<1> HIDE DEF left, w, v
<1>6. /\ job' \in [Requests -> Jobs]
      /\ \A q \in Requests : Follows(job[q], job'[q]) /\ job'[q].open = job[q].open
      /\ \A q \in Requests : ~job'[q].alone
      BY <1>1, <1>5
<1>7. /\ job'[r] = Idle /\ Idle.at = "idle" /\ Idle.op = "none" /\ Idle.obj = None
      /\ Idle.open = TRUE /\ Idle.snap = NoState
      BY <1>2, <1>6 DEF Follows, Idle
<1>8. objs' \in [Objects -> Mounts]
  <2>1. SetFile(o, p, w) \in [Objects -> Mounts]
        BY <1>2, <1>4, SetFileFacts
  <2> QED BY <1>1, <2>1, HeldKept
<1>9. Step(r)
      BY <1>6, <1>8 DEF Step
<1>10. /\ \A x \in Objects : InUse(x)' => InUse(x)
       /\ \A x \in Objects, y \in Paths : InUse(x)' =>
             objs'[x].files[y] = IF x = o /\ y = p THEN w ELSE objs[x].files[y]
       /\ \A x \in Objects, y \in Paths : Dirty(objs'[x].files[y]) =>
             objs'[x].files[y] = IF x = o /\ y = p THEN w ELSE objs[x].files[y]
       /\ \A q \in Requests : job'[q].obj \in Objects =>
             /\ objs'[job'[q].obj].dir = objs[job'[q].obj].dir
             /\ \A y \in Paths : objs'[job'[q].obj].files[y] =
                   IF job'[q].obj = o /\ y = p THEN w ELSE objs[job'[q].obj].files[y]
       /\ Homes'
      BY <1>1, <1>4, <1>7, <1>9, OneFile
<1>11. Types'
  <2>1. late' \subseteq Paths
        BY <1>1 DEF Touched, IInv, Types
  <2>2. promised' \in [Paths -> Contents \cup {None}]
        BY <1>1 DEF IInv, Types
  <2> QED BY <1>1, <1>6, <1>8, <2>1, <2>2 DEF IInv, Types
<1>12. \A q \in Requests : WellPlaced(job'[q])
      BY <1>7, <1>9, ValuesTyped, WellKept
<1>13. Undisturbed'
      BY <1>6 DEF Undisturbed
<1>14. Promises'
  <2>1. ASSUME NEW y \in Paths, promised'[y] # None
        PROVE  /\ promised[y] = promised'[y] /\ store'[y] = store[y] /\ state' = state
               /\ Respects(job'[r], y, promised[y])
               /\ \A x \in Objects : InUse(x)' =>
                     /\ Live(objs'[x].files[y])
                     /\ objs'[x].files[y].content \in {None, promised[y]}
    <3>1. promised'[y] = promised[y] /\ y # p
          BY <1>1, <2>1 DEF IInv, Types
    <3>2. Respects(job'[r], y, promised[y])
          BY <1>7 DEF Respects
    <3>3. ASSUME NEW x \in Objects, InUse(x)'
          PROVE  Live(objs'[x].files[y]) /\ objs'[x].files[y].content \in {None, promised[y]}
      <4>1. InUse(x) /\ objs'[x].files[y] = objs[x].files[y]
            BY <1>10, <3>1, <3>3
      <4> QED BY <2>1, <3>1, <4>1, PromiseFacts
    <3> QED BY <1>1, <3>1, <3>2, <3>3
  <2> QED BY <1>9, <2>1, PromisesKept
<1>15. Bare'
      BY <1>1, <1>7, <1>9, ValuesTyped, BareKept DEF IInv, Bare, Absent
<1>16. Backed'
  <2>1. ASSUME NEW y \in Paths \ exposed'
        PROVE  /\ Dirty(state'.files[y]) => store'[y] # None
               /\ \A x \in Objects : Dirty(objs'[x].files[y]) => Dirty(objs[x].files[y])
    <3>1. ASSUME NEW x \in Objects, Dirty(objs'[x].files[y]) PROVE Dirty(objs[x].files[y])
          BY <1>4, <1>10, <2>1, <3>1
    <3> QED BY <1>1, <2>1, <3>1 DEF IInv, Backed
  <2> QED BY <1>1, <1>6, <1>7, <1>9, <1>11, <2>1, BackedKept DEF Types
<1>17. Commits'
  <2>1. late \subseteq late' /\ (Committing # {} => p \in late')
        BY <1>1 DEF Touched
  <2>2. ASSUME NEW q \in Requests, job'[q].at = "applying", NEW y \in Paths \ late'
        PROVE  Stays(objs[job'[q].obj].files[y], objs'[job'[q].obj].files[y])
    <3>1. job'[q].obj \in Objects /\ job[q].op = "commit"
          BY <1>6, <1>12, <2>2 DEF WellPlaced, Follows
    <3>2. y # p
          BY <2>1, <2>2, <3>1 DEF Committing
    <3>3. objs'[job'[q].obj].files[y] = objs[job'[q].obj].files[y]
          BY <1>10, <3>1, <3>2
    <3> QED BY <3>3 DEF Stays
  <2>3. \A q \in Requests : job'[q].at = "applying" =>
           objs'[job'[q].obj].dir = objs[job'[q].obj].dir
        BY <1>10, <1>12 DEF WellPlaced
  <2> QED BY <1>1, <1>7, <1>9, <1>11, <2>1, <2>2, <2>3, CommitsKept DEF Types
<1> QED BY <1>10, <1>11, <1>12, <1>13, <1>14, <1>15, <1>16, <1>17 DEF IInv

-----------------------------------------------------------------------------
(* persist_file_change and save_mount_state.                               *)

\* A step that changes no object.
LEMMA SameObjects ==
    ASSUME IInv, NEW r \in Requests, Step(r), UNCHANGED <<objs, mounted>>,
           job'[r].obj \in {None, mounted, job[r].obj},
           job'[r].at \notin {"mounting", "cloning"}, job[r].at \notin {"mounting", "cloning"}
    PROVE  /\ \A o \in Objects : InUse(o)' => InUse(o)
           /\ Homes'
<1>1. \A q \in Requests : q # r => job'[q].obj = job[q].obj /\ job'[q].at = job[q].at
      BY DEF Step, Follows
<1>2. ASSUME NEW o \in Objects, InUse(o)' PROVE InUse(o)
  <2>1. CASE o = mounted'
        BY <2>1 DEF InUse
  <2>2. CASE \E q \in Requests : job'[q].obj = o /\ job'[q].at \notin {"mounting", "cloning"}
    <3>1. PICK q \in Requests : job'[q].obj = o /\ job'[q].at \notin {"mounting", "cloning"}
          BY <2>2
    <3>2. CASE q = r
          BY <3>1, <3>2, GvfsAssumption DEF InUse
    <3>3. CASE q # r
          BY <1>1, <3>1, <3>3 DEF InUse
    <3> QED BY <3>2, <3>3
  <2> QED BY <1>2, <2>1, <2>2 DEF InUse
<1> QED BY <1>2, HomesKept

\* A job that is about to save a mount.
LEMMA SnapshotFacts ==
    ASSUME IInv, NEW r \in Requests, NEW m \in Mounts, Snapshot(r, m)
    PROVE  /\ job' \in [Requests -> Jobs]
           /\ \A q \in Requests : q # r => job'[q] = job[q]
           /\ job'[r].at = "saving" /\ job'[r].open = TRUE /\ job'[r].snap = Image(m)
           /\ job'[r].op = job[r].op /\ job'[r].obj = job[r].obj /\ job'[r].path = job[r].path
           /\ job'[r].want = job[r].want /\ job'[r].held = job[r].held
           /\ job'[r].alone = job[r].alone
<1> DEFINE rec == [job[r] EXCEPT !.at = "saving", !.snap = Image(m), !.open = TRUE,
                                 !.from = None, !.buf = None, !.todo = {}, !.size = 0]
<1>1. job \in [Requests -> Jobs] /\ job[r] \in Jobs /\ Image(m) \in Images
      BY ImageFacts DEF IInv, Types
<1>2. job' = [job EXCEPT ![r] = rec]
      BY DEF Snapshot
<1>3. /\ rec.at = "saving" /\ rec.open = TRUE /\ rec.snap = Image(m)
      /\ rec.op = job[r].op /\ rec.obj = job[r].obj /\ rec.path = job[r].path
      /\ rec.want = job[r].want /\ rec.held = job[r].held /\ rec.alone = job[r].alone
      BY ONLY <1>1 DEF Jobs
<1>4. rec \in Jobs
      BY ONLY <1>1 DEF Jobs, Places
<1> HIDE DEF rec
<1> QED BY <1>1, <1>2, <1>3, <1>4, MoveFacts

\* The stored file is opened and is empty; nothing is promised of its path.
LEMMA StoreOpensStep == ASSUME IInv, NEW r \in Requests, StoreOpens(r) PROVE IInv'
<1> DEFINE o == job[r].obj
           path == job[r].path
           c == HeldContent(r)
           rec == [job[r] EXCEPT !.at = "stored", !.buf = c, !.open = TRUE]
<1>1. /\ job[r].at = "storing" /\ store' = [store EXCEPT ![path] = Empty]
      /\ objs' = Kept(objs)
      /\ IF c = None THEN End(r)
         ELSE job' = [job EXCEPT ![r].at = "stored", ![r].buf = c, ![r].open = TRUE]
      /\ failed' = failed \ {path}
      /\ UNCHANGED <<mounted, lock, tree, index, head, state, promised, exposed, late, missed>>
      BY DEF StoreOpens, clone
<1>2. /\ job[r] \in Jobs /\ job[r].op = "write" /\ job[r].obj \in Objects
      /\ job[r].path \in Paths /\ job[r].want \in Contents
      BY <1>1 DEF IInv, Types, WellPlaced
<1>3. c \in Bytes \cup {None}
  <2>1. objs[o].files[path] \in VirtualFile /\ job[r].buf \in Bytes \cup {None}
        BY <1>2 DEF IInv, Types, Mounts, Jobs
  <2> QED BY <2>1 DEF HeldContent, VirtualFile
<1>4. job[r].alone => Lone(r) /\ c = job[r].want
  <2>1. job[r].alone => Lone(r)
        BY DEF IInv, Undisturbed
  <2>2. Lone(r) => c = job[r].want
        BY DEF Lone, HeldContent
  <2> QED BY <2>1, <2>2
<1> HIDE DEF c
<1>5. /\ Idle.at = "idle" /\ Idle.op = "none" /\ Idle.obj = None /\ Idle.alone = FALSE
      /\ Idle.open = TRUE /\ Idle.snap = NoState
      BY DEF Idle
<1>6. /\ job' \in [Requests -> Jobs] /\ WellPlaced(job'[r])
      /\ \A q \in Requests : q # r => job'[q] = job[q]
      /\ job'[r].at \in {"idle", "stored"} /\ job'[r].op # "commit"
      /\ job'[r].obj \in {None, o}
      /\ job'[r].at = "stored" => job'[r].path = path
      /\ job'[r].open = TRUE /\ job'[r].snap \in {NoState, job[r].snap}
      /\ job'[r].alone =>
            /\ job[r].alone /\ job'[r].at = "stored" /\ job'[r].buf = c /\ job'[r].obj = o
            /\ job'[r].path = path /\ job'[r].want = job[r].want /\ job'[r].held = job[r].held
  <2>1. CASE c = None
    <3>1. /\ job' \in [Requests -> Jobs] /\ job'[r] = Idle
          /\ \A q \in Requests : q # r => job'[q] = job[q]
          BY <1>1, <2>1, EndFacts DEF IInv, Types
    <3> QED BY <1>5, <3>1, ValuesTyped
  <2>2. CASE c # None
    <3>1. /\ rec.at = "stored" /\ rec.buf = c /\ rec.open = TRUE /\ rec.op = "write"
          /\ rec.obj = o /\ rec.path = path /\ rec.want = job[r].want
          /\ rec.held = job[r].held /\ rec.snap = job[r].snap /\ rec.alone = job[r].alone
          BY ONLY <1>2 DEF Jobs
    <3>2. rec \in Jobs
          BY ONLY <1>2, <1>3 DEF Jobs, Places
    <3>3. job' = [job EXCEPT ![r] = rec]
          BY <1>1, <2>2 DEF IInv, Types
    <3> HIDE DEF rec
    <3>4. /\ job' \in [Requests -> Jobs] /\ job'[r] = rec
          /\ \A q \in Requests : q # r => job'[q] = job[q]
          BY <3>2, <3>3, MoveFacts DEF IInv, Types
    <3>5. WellPlaced(rec)
          BY <1>2, <1>3, <2>2, <3>1 DEF WellPlaced
    <3> QED BY <3>1, <3>4, <3>5
  <2> QED BY <2>1, <2>2
<1>7. objs' \in [Objects -> Mounts]
      BY <1>1, HeldKept DEF IInv, Types
<1>8. Step(r)
      BY <1>6, <1>7, FollowsItself DEF Step
<1>9. /\ \A x \in Objects : InUse(x)' => InUse(x) /\ objs'[x] = objs[x]
      /\ \A x \in Objects, p \in Paths : Dirty(objs'[x].files[p]) => objs'[x] = objs[x]
      /\ \A q \in Requests : job'[q].obj \in Objects => objs'[job'[q].obj] = objs[job'[q].obj]
      /\ Homes'
      BY <1>1, <1>6, <1>8, SameFiles
<1>10. Types'
  <2>1. store' \in [Paths -> Bytes \cup {None}]
        BY <1>1 DEF IInv, Types, Bytes
  <2> QED BY <1>1, <1>6, <1>7, <2>1 DEF IInv, Types
<1>11. \A q \in Requests : WellPlaced(job'[q])
      BY <1>6, <1>8, WellKept
<1>12. Undisturbed'
  <2>1. ASSUME job'[r].alone PROVE Lone(r)'
    <3>1. Lone(r) /\ c = job[r].want
          BY <1>4, <1>6, <2>1
    <3>2. o = mounted /\ objs'[o] = objs[o]
          BY <1>2, <1>6, <1>9, <2>1, <3>1 DEF Lone
    <3>3. /\ \A q \in Requests : q # r => job'[q] = Idle
          /\ job'[r].at = "stored" /\ job'[r].obj = mounted' /\ job'[r].open /\ job'[r].held
          /\ job'[r].buf = job'[r].want
          BY <1>1, <1>6, <2>1, <3>1, <3>2 DEF Lone
    <3>4. /\ Live(objs'[mounted'].files[job'[r].path])
          /\ objs'[mounted'].files[job'[r].path].content = job'[r].want
      <4>1. /\ Live(objs[o].files[path]) /\ objs[o].files[path].content = job[r].want
            BY <3>1, <3>2 DEF Lone
      <4>2. /\ mounted' = o /\ objs'[o] = objs[o] /\ job'[r].path = path
            /\ job'[r].want = job[r].want
            BY <1>1, <1>6, <2>1, <3>2
      <4> QED BY <4>1, <4>2
    <3> QED BY ONLY <3>3, <3>4 DEF Lone
  <2>2. job[r].at # "idle"
        BY <1>1
  <2> QED BY <1>8, <2>1, <2>2, UndisturbedKept
<1>13. Promises'
  <2>1. ASSUME NEW p \in Paths, promised'[p] # None
        PROVE  /\ promised[p] = promised'[p] /\ store'[p] = store[p] /\ state' = state
               /\ Respects(job'[r], p, promised[p])
               /\ \A x \in Objects : InUse(x)' =>
                     /\ Live(objs'[x].files[p])
                     /\ objs'[x].files[p].content \in {None, promised[p]}
    <3>1. promised'[p] = promised[p]
          BY <1>1
    <3>2. path # p
          BY <1>1, <2>1, <3>1, PromiseFacts DEF Respects
    <3>3. store'[p] = store[p]
          BY <1>1, <3>2
    <3>4. Respects(job'[r], p, promised[p])
          BY <1>6, <3>2 DEF Respects
    <3>5. ASSUME NEW x \in Objects, InUse(x), objs'[x] = objs[x]
          PROVE  Live(objs'[x].files[p]) /\ objs'[x].files[p].content \in {None, promised[p]}
          BY <2>1, <3>1, <3>5, PromiseFacts
    <3> QED BY <1>1, <1>9, <3>1, <3>3, <3>4, <3>5
  <2> QED BY <1>8, <2>1, PromisesKept
<1>14. Bare'
  <2>1. state' = state
        BY <1>1
  <2>2. \A p \in Paths : state.files[p].content = None /\ job[r].snap.files[p].content = None
        BY DEF IInv, Bare
  <2>3. \A p \in Paths : NoState.files[p].content = None
        BY ValuesTyped DEF Absent
  <2> QED BY <1>6, <1>8, <2>1, <2>2, <2>3, BareKept
<1>15. Backed'
  <2>1. ASSUME NEW p \in Paths \ exposed'
        PROVE  /\ Dirty(state'.files[p]) => store'[p] # None
               /\ \A x \in Objects : Dirty(objs'[x].files[p]) => Dirty(objs[x].files[p])
               /\ store[p] # None => store'[p] # None
               /\ path = p => store'[p] # None
               /\ p \in failed => p \in failed' \/ store'[p] # None
    <3>1. store'[p] = IF p = path THEN Empty ELSE store[p]
          BY <1>1, <2>1 DEF IInv, Types
    <3>2. Dirty(state.files[p]) => store[p] # None
          BY <1>1, <2>1 DEF IInv, Backed
    <3> QED BY <1>1, <1>9, <2>1, <3>1, <3>2, GvfsAssumption
  <2> QED BY <1>1, <1>6, <1>8, <1>10, <2>1, BackedKept DEF Types
<1>16. Commits'
  <2>1. ASSUME NEW q \in Requests, job'[q].at = "applying"
        PROVE  objs'[job'[q].obj] = objs[job'[q].obj]
        BY <1>9, <1>11, <2>1 DEF WellPlaced
  <2>2. job'[r].op # "commit" /\ job'[r].at # "applying"
        BY <1>6
  <2> QED BY <1>1, <1>8, <1>10, <2>1, <2>2, CommitsKept DEF Types, Stays
<1> QED BY <1>9, <1>10, <1>11, <1>12, <1>13, <1>14, <1>15, <1>16 DEF IInv

\* The stored file is closed, with the bytes that were in its buffer, and the
\* mount is looked at.
LEMMA StoreClosesStep == ASSUME IInv, NEW r \in Requests, StoreCloses(r) PROVE IInv'
<1> DEFINE path == job[r].path
<1>1. /\ job[r].at = "stored" /\ Snapshot(r, objs[job[r].obj])
      /\ store' = IF job[r].open THEN [store EXCEPT ![path] = job[r].buf] ELSE store
      /\ exposed' = exposed \cup Unstored
      /\ UNCHANGED <<objs, mounted, lock, tree, index, head, state, promised, failed, late, missed>>
      BY DEF StoreCloses, clone
<1>2. PICK o \in Objects : o = job[r].obj
      BY <1>1 DEF IInv, WellPlaced
<1>3. /\ job[r].op = "write" /\ path \in Paths /\ job[r].want \in Contents
      /\ job[r].buf \in Bytes /\ objs[o] \in Mounts /\ store \in [Paths -> Bytes \cup {None}]
      BY <1>1 DEF IInv, Types, WellPlaced
<1>4. /\ job' \in [Requests -> Jobs]
      /\ \A q \in Requests : q # r => job'[q] = job[q]
      /\ job'[r].at = "saving" /\ job'[r].open = TRUE /\ job'[r].snap = Image(objs[o])
      /\ job'[r].op = "write" /\ job'[r].obj = o /\ job'[r].path = path
      /\ job'[r].want = job[r].want /\ job'[r].held = job[r].held
      /\ job'[r].alone = job[r].alone
      BY <1>1, <1>2, <1>3, SnapshotFacts
<1>5. /\ Image(objs[o]).kind = "saved"
      /\ \A p \in Paths : /\ Image(objs[o]).files[p].status = objs[o].files[p].status
                          /\ Image(objs[o]).files[p].content = None
      BY <1>3, ImageFacts
<1>6. Step(r)
      BY <1>1, <1>4, FollowsItself DEF Step, IInv, Types
<1>7. \A p \in Paths : store'[p] = IF p = path /\ job[r].open THEN job[r].buf ELSE store[p]
      BY <1>1, <1>3
<1>8. None \notin Bytes
      BY GvfsAssumption DEF Bytes
<1>9. /\ \A x \in Objects : InUse(x)' => InUse(x)
      /\ Homes'
      BY <1>1, <1>2, <1>4, <1>6, SameObjects
<1>10. Types'
  <2>1. store' \in [Paths -> Bytes \cup {None}]
        BY <1>1, <1>3
  <2>2. exposed' \subseteq Paths
        BY <1>1 DEF Unstored, IInv, Types
  <2> QED BY <1>1, <1>4, <2>1, <2>2 DEF IInv, Types
<1>11. \A q \in Requests : WellPlaced(job'[q])
  <2>1. WellPlaced(job'[r])
        BY <1>3, <1>4, <1>5 DEF WellPlaced
  <2> QED BY <1>6, <2>1, WellKept
<1>12. Undisturbed'
  <2>1. ASSUME job'[r].alone PROVE Lone(r)'
    <3>1. Lone(r)
          BY <1>4, <2>1 DEF IInv, Undisturbed
    <3>2. /\ o = mounted /\ job[r].open /\ job[r].held /\ job[r].buf = job[r].want
          /\ Live(objs[o].files[path]) /\ objs[o].files[path].content = job[r].want
          /\ \A q \in Requests : q # r => job[q] = Idle
          BY <1>1, <1>2, <3>1 DEF Lone
    <3>3. /\ \A q \in Requests : q # r => job'[q] = Idle
          /\ job'[r].at = "saving" /\ job'[r].obj = mounted' /\ job'[r].open /\ job'[r].held
          BY <1>1, <1>4, <3>2
    <3>4. /\ Live(objs'[mounted'].files[job'[r].path])
          /\ objs'[mounted'].files[job'[r].path].content = job'[r].want
          BY <1>1, <1>4, <3>2
    <3>5. store'[job'[r].path] = job'[r].want /\ Live(job'[r].snap.files[job'[r].path])
          BY <1>3, <1>4, <1>5, <1>7, <3>2 DEF Live
    <3> QED BY ONLY <3>3, <3>4, <3>5 DEF Lone
  <2>2. job[r].at # "idle"
        BY <1>1
  <2> QED BY <1>6, <2>1, <2>2, UndisturbedKept
<1>13. Promises'
  <2>1. ASSUME NEW p \in Paths, promised'[p] # None
        PROVE  /\ promised[p] = promised'[p] /\ store'[p] = store[p] /\ state' = state
               /\ Respects(job'[r], p, promised[p])
               /\ \A x \in Objects : InUse(x)' =>
                     /\ Live(objs'[x].files[p])
                     /\ objs'[x].files[p].content \in {None, promised[p]}
    <3>1. promised'[p] = promised[p]
          BY <1>1
    <3>2. path # p
          BY <1>1, <2>1, <3>1, PromiseFacts DEF Respects
    <3>3. store'[p] = store[p]
          BY <1>7, <3>2
    <3>4. Live(objs[o].files[p])
      <4>1. InUse(o)
            BY <1>1, <1>2 DEF InUse
      <4> QED BY <2>1, <3>1, <4>1, PromiseFacts
    <3>5. Respects(job'[r], p, promised[p])
          BY <1>4, <1>5, <3>2, <3>4 DEF Respects, Live
    <3>6. ASSUME NEW x \in Objects, InUse(x)
          PROVE  Live(objs'[x].files[p]) /\ objs'[x].files[p].content \in {None, promised[p]}
          BY <1>1, <2>1, <3>1, <3>6, PromiseFacts
    <3> QED BY <1>1, <1>9, <3>1, <3>3, <3>5, <3>6
  <2> QED BY <1>6, <2>1, PromisesKept
<1>14. Bare'
      BY <1>1, <1>4, <1>5, <1>6, BareKept DEF IInv, Bare
<1>15. Backed'
  <2>1. ASSUME NEW p \in Paths \ exposed'
        PROVE  /\ Dirty(state'.files[p]) => store'[p] # None
               /\ Dirty(job'[r].snap.files[p]) => store'[p] # None
               /\ \A x \in Objects : Dirty(objs'[x].files[p]) => Dirty(objs[x].files[p])
               /\ store[p] # None => store'[p] # None
    <3>1. p \in Paths \ exposed /\ p \notin Unstored
          BY <1>1, <2>1
    <3>2. store[p] # None => store'[p] # None
          BY <1>3, <1>7, <1>8, <3>1
    <3>3. Dirty(state.files[p]) => store[p] # None
          BY <3>1 DEF IInv, Backed
    <3>4. Dirty(objs[o].files[p]) => store[p] # None
          BY <1>2, <3>1 DEF IInv, Backed
    <3>5. Dirty(job'[r].snap.files[p]) => Dirty(objs[o].files[p])
          BY <1>4, <1>5, <3>1 DEF Dirty
    <3> QED BY <1>1, <3>2, <3>3, <3>4, <3>5
  <2>2. job[r].at # "storing" /\ exposed \subseteq exposed' /\ failed' = failed
        BY <1>1
  <2> QED BY <1>4, <1>6, <1>10, <2>1, <2>2, BackedKept DEF Types
<1>16. Commits'
  <2>1. job'[r].op # "commit" /\ job'[r].at # "applying"
        BY <1>4
  <2> QED BY <1>1, <1>6, <1>10, <2>1, CommitsKept DEF Types, Stays
<1> QED BY <1>9, <1>10, <1>11, <1>12, <1>13, <1>14, <1>15, <1>16 DEF IInv

\* The state file is opened, and is torn until it is closed.
LEMMA SaveOpensStep == ASSUME IInv, NEW r \in Requests, SaveOpens(r) PROVE IInv'
<1> DEFINE rec == [job[r] EXCEPT !.at = "saved", !.open = TRUE]
<1>1. /\ job[r].at = "saving" /\ state' = Torn
      /\ job' = [job EXCEPT ![r].at = "saved", ![r].open = TRUE]
      /\ UNCHANGED <<objs, mounted, lock, tree, index, head, store>>
      /\ UNCHANGED <<promised, failed, exposed, late, missed>>
      BY DEF SaveOpens, clone, history
<1>2. job[r] \in Jobs /\ job \in [Requests -> Jobs]
      BY DEF IInv, Types
<1>3. /\ rec.at = "saved" /\ rec.open = TRUE /\ rec.snap = job[r].snap /\ rec.op = job[r].op
      /\ rec.obj = job[r].obj /\ rec.path = job[r].path /\ rec.want = job[r].want
      /\ rec.held = job[r].held /\ rec.alone = job[r].alone
      BY ONLY <1>2 DEF Jobs
<1>4. rec \in Jobs
      BY ONLY <1>2 DEF Jobs, Places
<1>5. job' = [job EXCEPT ![r] = rec]
      BY <1>1, <1>2
<1> HIDE DEF rec
<1>6. /\ job' \in [Requests -> Jobs] /\ job'[r] = rec
      /\ \A q \in Requests : q # r => job'[q] = job[q]
      BY <1>2, <1>4, <1>5, MoveFacts
<1>7. Step(r)
      BY <1>1, <1>6, FollowsItself DEF Step, IInv, Types
<1>8. /\ \A x \in Objects : InUse(x)' => InUse(x)
      /\ Homes'
      BY <1>1, <1>3, <1>6, <1>7, SameObjects
<1>9. Types'
      BY <1>1, <1>6, ValuesTyped DEF IInv, Types
<1>10. \A q \in Requests : WellPlaced(job'[q])
  <2>1. WellPlaced(job[r])
        BY DEF IInv
  <2>2. WellPlaced(rec)
        BY <1>1, <1>3, <2>1 DEF WellPlaced
  <2> QED BY <1>6, <1>7, <2>2, WellKept
<1>11. Undisturbed'
  <2>1. ASSUME job'[r].alone PROVE Lone(r)'
    <3>1. Lone(r)
          BY <1>3, <1>6, <2>1 DEF IInv, Undisturbed
    <3>2. /\ job[r].obj = mounted /\ job[r].held
          /\ Live(objs[mounted].files[job[r].path])
          /\ objs[mounted].files[job[r].path].content = job[r].want
          /\ store[job[r].path] = job[r].want /\ Live(job[r].snap.files[job[r].path])
          /\ \A q \in Requests : q # r => job[q] = Idle
          BY <1>1, <3>1 DEF Lone
    <3>3. /\ \A q \in Requests : q # r => job'[q] = Idle
          /\ job'[r].at = "saved" /\ job'[r].obj = mounted' /\ job'[r].open /\ job'[r].held
          BY <1>1, <1>3, <1>6, <3>2
    <3>4. /\ Live(objs'[mounted'].files[job'[r].path])
          /\ objs'[mounted'].files[job'[r].path].content = job'[r].want
          BY <1>1, <1>3, <1>6, <3>2
    <3>5. store'[job'[r].path] = job'[r].want /\ Live(job'[r].snap.files[job'[r].path])
          BY <1>1, <1>3, <1>6, <3>2
    <3> QED BY ONLY <3>3, <3>4, <3>5 DEF Lone
  <2>2. job[r].at # "idle"
        BY <1>1
  <2> QED BY <1>7, <2>1, <2>2, UndisturbedKept
<1>12. Promises'
  <2>1. ASSUME NEW p \in Paths, promised'[p] # None
        PROVE  /\ promised[p] = promised'[p] /\ store'[p] = store[p] /\ state'.kind = "torn"
               /\ Respects(job'[r], p, promised[p])
               /\ \A x \in Objects : InUse(x)' =>
                     /\ Live(objs'[x].files[p])
                     /\ objs'[x].files[p].content \in {None, promised[p]}
    <3>1. promised'[p] = promised[p]
          BY <1>1
    <3>2. Respects(job[r], p, promised[p])
          BY <2>1, <3>1, PromiseFacts
    <3>3. Respects(job'[r], p, promised[p])
          BY <1>1, <1>3, <1>6, <3>2 DEF Respects
    <3>4. ASSUME NEW x \in Objects, InUse(x)
          PROVE  Live(objs'[x].files[p]) /\ objs'[x].files[p].content \in {None, promised[p]}
          BY <1>1, <2>1, <3>1, <3>4, PromiseFacts
    <3> QED BY <1>1, <1>8, <3>1, <3>3, <3>4, ValuesTyped
  <2> QED BY <1>7, <2>1, PromisesKept
<1>13. Bare'
  <2>1. \A p \in Paths : job[r].snap.files[p].content = None
        BY DEF IInv, Bare
  <2>2. \A p \in Paths : Torn.files[p].content = None
        BY ValuesTyped DEF Absent
  <2> QED BY <1>1, <1>3, <1>6, <1>7, <2>1, <2>2, BareKept
<1>14. Backed'
  <2>1. ASSUME NEW p \in Paths \ exposed'
        PROVE  /\ Dirty(state'.files[p]) => store'[p] # None
               /\ Dirty(job'[r].snap.files[p]) => store'[p] # None
    <3>1. Dirty(job[r].snap.files[p]) => store[p] # None
          BY <1>1, <2>1 DEF IInv, Backed
    <3>2. ~Dirty(state'.files[p])
          BY <1>1, ValuesTyped DEF Dirty, Absent
    <3> QED BY <1>1, <1>3, <1>6, <3>1, <3>2
  <2>2. job[r].at # "storing" /\ job'[r].open
        BY <1>1, <1>3, <1>6
  <2> QED BY <1>1, <1>6, <1>7, <1>9, <2>1, <2>2, BackedKept DEF Types
<1>15. Commits'
  <2>1. job'[r].op = job[r].op /\ job'[r].at # "applying"
        BY <1>3, <1>6
  <2> QED BY <1>1, <1>7, <1>9, <2>1, CommitsKept DEF Types, Stays
<1> QED BY <1>8, <1>9, <1>10, <1>11, <1>12, <1>13, <1>14, <1>15 DEF IInv

\* The state file is closed.  A write that nothing disturbed is kept from now on:
\* it is in the mount, in the store and in what was saved.
LEMMA SaveClosesStep == ASSUME IInv, NEW r \in Requests, SaveCloses(r) PROVE IInv'
<1> DEFINE path == job[r].path
<1>1. /\ job[r].at = "saved" /\ End(r) /\ objs' = Kept(objs)
      /\ lock' = IF lock = r THEN None ELSE lock
      /\ promised' = IF job[r].alone THEN [promised EXCEPT ![path] = job[r].want] ELSE promised
      /\ UNCHANGED <<mounted, tree, index, head, store, failed, exposed, late, missed>>
      BY DEF SaveCloses, clone
<1>2. state' \in {state, job[r].snap, Torn}
      BY DEF SaveCloses
<1>3. job[r].open => state' \in {job[r].snap, Torn}
      BY DEF SaveCloses
<1>4. /\ job' \in [Requests -> Jobs] /\ job'[r] = Idle
      /\ \A q \in Requests : q # r => job'[q] = job[q]
      BY <1>1, EndFacts DEF IInv, Types
<1>5. /\ Idle.at = "idle" /\ Idle.op = "none" /\ Idle.obj = None /\ Idle.alone = FALSE
      /\ Idle.open = TRUE /\ Idle.snap = NoState
      BY DEF Idle
<1>6. /\ job[r].snap \in Images /\ job[r].snap.kind = "saved"
      /\ job[r].op = "write" => path \in Paths /\ job[r].want \in Contents
      BY <1>1 DEF IInv, Types, Jobs, WellPlaced
<1>7. objs' \in [Objects -> Mounts]
      BY <1>1, HeldKept DEF IInv, Types
<1>8. Step(r)
      BY <1>4, <1>7, FollowsItself DEF Step
<1>9. /\ \A x \in Objects : InUse(x)' => InUse(x) /\ objs'[x] = objs[x]
      /\ \A x \in Objects, p \in Paths : Dirty(objs'[x].files[p]) => objs'[x] = objs[x]
      /\ \A q \in Requests : job'[q].obj \in Objects => objs'[job'[q].obj] = objs[job'[q].obj]
      /\ Homes'
      BY <1>1, <1>4, <1>5, <1>8, SameFiles
<1>10. job[r].alone => job[r].op = "write" /\ Lone(r)
      BY DEF IInv, WellPlaced, Undisturbed
<1>11. Types'
  <2>1. promised' \in [Paths -> Contents \cup {None}]
        BY <1>1, <1>6, <1>10 DEF IInv, Types
  <2>2. state' \in Images
        BY <1>2, <1>6, ValuesTyped DEF IInv, Types
  <2>3. lock' \in Requests \cup {None}
        BY <1>1 DEF IInv, Types
  <2> QED BY <1>1, <1>4, <1>7, <2>1, <2>2, <2>3 DEF IInv, Types
<1>12. \A q \in Requests : WellPlaced(job'[q])
      BY <1>4, <1>8, ValuesTyped, WellKept
<1>13. Undisturbed'
  <2>1. job[r].at # "idle" /\ ~job'[r].alone
        BY <1>1, <1>4, <1>5
  <2> QED BY <1>8, <2>1, UndisturbedKept
<1>14. Promises'
  <2>1. CASE ~job[r].alone
    <3>1. ASSUME NEW p \in Paths, promised'[p] # None
          PROVE  /\ promised[p] = promised'[p] /\ store'[p] = store[p]
                 /\ \/ state' = state
                    \/ state'.kind = "torn"
                    \/ state'.kind = "saved" /\ Live(state'.files[p])
                 /\ Respects(job'[r], p, promised[p])
                 /\ \A x \in Objects : InUse(x)' =>
                       /\ Live(objs'[x].files[p])
                       /\ objs'[x].files[p].content \in {None, promised[p]}
      <4>1. promised'[p] = promised[p]
            BY <1>1, <2>1
      <4>2. Live(job[r].snap.files[p])
            BY <1>1, <3>1, <4>1, PromiseFacts DEF Respects
      <4>3. \/ state' = state
            \/ state'.kind = "torn"
            \/ state'.kind = "saved" /\ Live(state'.files[p])
            BY <1>2, <1>6, <4>2, ValuesTyped
      <4>4. Respects(job'[r], p, promised[p])
            BY <1>4, <1>5 DEF Respects
      <4>5. ASSUME NEW x \in Objects, InUse(x), objs'[x] = objs[x]
            PROVE  Live(objs'[x].files[p]) /\ objs'[x].files[p].content \in {None, promised[p]}
            BY <3>1, <4>1, <4>5, PromiseFacts
      <4> QED BY <1>1, <1>9, <4>1, <4>3, <4>4, <4>5
    <3> QED BY <1>8, <3>1, PromisesKept
  <2>2. CASE job[r].alone
    <3>1. /\ \A q \in Requests : q # r => job[q] = Idle
          /\ job[r].open /\ job[r].obj = mounted
          /\ Live(objs[mounted].files[path]) /\ objs[mounted].files[path].content = job[r].want
          /\ store[path] = job[r].want /\ Live(job[r].snap.files[path])
          BY <1>1, <1>10, <2>2 DEF Lone
    <3>2. \A q \in Requests : job'[q] = Idle
          BY <1>4, <3>1
    <3>3. \A x \in Objects : InUse(x)' => x = mounted /\ InUse(x) /\ objs'[x] = objs[x]
          BY <1>1, <1>5, <1>9, <3>2, GvfsAssumption DEF InUse
    <3>4. state' \in {job[r].snap, Torn}
          BY <1>3, <3>1
    <3>5. path \in Paths /\ job[r].want \in Contents
          BY <1>6, <1>10, <2>2
    <3>6. \A p \in Paths : promised'[p] = IF p = path THEN job[r].want ELSE promised[p]
          BY <1>1, <2>2 DEF IInv, Types
    <3> SUFFICES ASSUME NEW p \in Paths, promised'[p] # None PROVE Promise(p)'
        BY DEF Promises
    <3>7. \A q \in Requests : Respects(job'[q], p, promised'[p])
          BY <1>5, <3>2 DEF Respects
    <3>8. CASE p = path
      <4>1. promised'[p] = job[r].want /\ store'[p] = job[r].want
            BY <1>1, <3>1, <3>6, <3>8
      <4>2. state'.kind # "missing" /\ (state'.kind = "saved" => Live(state'.files[p]))
            BY <1>6, <3>1, <3>4, <3>8, ValuesTyped
      <4>3. ASSUME NEW x \in Objects, InUse(x)'
            PROVE  Live(objs'[x].files[p]) /\ objs'[x].files[p].content \in {None, promised'[p]}
            BY <3>1, <3>3, <3>8, <4>1, <4>3
      <4> QED BY <3>7, <4>1, <4>2, <4>3 DEF Promise
    <3>9. CASE p # path
      <4>1. promised'[p] = promised[p] /\ promised[p] # None
            BY <3>6, <3>9
      <4>2. store'[p] = promised'[p]
            BY <1>1, <4>1, PromiseFacts
      <4>3. Live(job[r].snap.files[p])
            BY <1>1, <4>1, PromiseFacts DEF Respects
      <4>4. state'.kind # "missing" /\ (state'.kind = "saved" => Live(state'.files[p]))
            BY <1>6, <3>4, <4>3, ValuesTyped
      <4>5. ASSUME NEW x \in Objects, InUse(x)'
            PROVE  Live(objs'[x].files[p]) /\ objs'[x].files[p].content \in {None, promised'[p]}
            BY <3>3, <4>1, <4>5, PromiseFacts
      <4> QED BY <3>7, <4>2, <4>4, <4>5 DEF Promise
    <3> QED BY <3>8, <3>9
  <2> QED BY <2>1, <2>2
<1>15. Bare'
  <2>1. \A p \in Paths : state.files[p].content = None /\ job[r].snap.files[p].content = None
        BY DEF IInv, Bare
  <2>2. \A p \in Paths : Torn.files[p].content = None /\ NoState.files[p].content = None
        BY ValuesTyped DEF Absent
  <2>3. \A p \in Paths : state'.files[p].content = None
        BY <1>2, <2>1, <2>2
  <2>4. job'[r].snap = NoState
        BY <1>4, <1>5
  <2> QED BY <1>8, <2>2, <2>3, <2>4, BareKept
<1>16. Backed'
  <2>1. ASSUME NEW p \in Paths \ exposed'
        PROVE  /\ Dirty(state'.files[p]) => store'[p] # None
               /\ \A x \in Objects : Dirty(objs'[x].files[p]) => Dirty(objs[x].files[p])
    <3>1. /\ Dirty(job[r].snap.files[p]) => store[p] # None
          /\ Dirty(state.files[p]) => store[p] # None
          BY <1>1, <2>1 DEF IInv, Backed
    <3>2. ~Dirty(Torn.files[p])
          BY ValuesTyped DEF Dirty, Absent
    <3> QED BY <1>1, <1>2, <1>9, <3>1, <3>2
  <2>2. job[r].at # "storing" /\ job'[r].open /\ job'[r].at = "idle"
        BY <1>1, <1>4, <1>5
  <2> QED BY <1>1, <1>4, <1>8, <1>11, <2>1, <2>2, BackedKept DEF Types
<1>17. Commits'
  <2>1. ASSUME NEW q \in Requests, job'[q].at = "applying"
        PROVE  objs'[job'[q].obj] = objs[job'[q].obj]
        BY <1>9, <1>12, <2>1 DEF WellPlaced
  <2>2. job'[r].op # "commit" /\ job'[r].at # "applying"
        BY <1>4, <1>5
  <2> QED BY <1>1, <1>8, <1>11, <2>1, <2>2, CommitsKept DEF Types, Stays
<1> QED BY <1>9, <1>11, <1>12, <1>13, <1>14, <1>15, <1>16, <1>17 DEF IInv

-----------------------------------------------------------------------------
(* commit_changes.                                                         *)

\* A commit begins: it has nothing to do for a path without an entry.
LEMMA CommitStep == ASSUME IInv, NEW r \in Requests, Commit(r) PROVE IInv'
<1> DEFINE todo == Present(mounted)
           rec == [Idle EXCEPT !.op = "commit", !.at = "applying", !.obj = mounted,
                               !.todo = todo, !.size = Cardinality(todo)]
<1>1. /\ job[r].at = "idle" /\ mounted # None /\ Begin(r, rec)
      /\ late' = (IF Committing = {} THEN {} ELSE Paths) /\ missed' = {}
      /\ UNCHANGED <<objs, mounted, lock, tree, index, head, store, state>>
      /\ UNCHANGED <<promised, failed, exposed>>
      BY DEF Commit, Asked, Free, clone, disk
<1>2. mounted \in Objects /\ job[r] = Idle
      BY <1>1 DEF IInv, Types, WellPlaced
<1>3. todo \subseteq Paths /\ \A p \in Paths \ todo : objs[mounted].files[p].status = "absent"
      BY DEF Present
<1>4. Cardinality(todo) \in Nat
      BY <1>3, FS_Subset, FS_CardinalityType, GvfsAssumption
<1> HIDE DEF todo
<1>5. /\ rec \in Jobs /\ rec.op = "commit" /\ rec.at = "applying" /\ rec.obj = mounted
      /\ rec.open = TRUE /\ rec.snap = NoState /\ rec.todo = todo
      BY <1>2, <1>3, <1>4, ValuesTyped DEF Jobs, Ops, Places, Idle
<1> HIDE DEF rec
<1>6. /\ job' \in [Requests -> Jobs]
      /\ \A q \in Requests : q # r => Follows(job[q], job'[q]) /\ job'[q].open = job[q].open
      /\ \A q \in Requests : q # r => ~job'[q].alone
      /\ job'[r] = [rec EXCEPT !.alone = (rec.op = "write" /\ Busy = {})]
      BY <1>1, <1>5, BeginFacts DEF IInv, Types
<1>7. /\ job'[r].op = "commit" /\ job'[r].at = "applying" /\ job'[r].obj = mounted
      /\ job'[r].open = TRUE /\ job'[r].snap = NoState /\ job'[r].todo = todo
      /\ job'[r].alone = FALSE
      BY <1>5, <1>6 DEF Jobs
<1>8. Step(r)
      BY <1>1, <1>6 DEF Step, IInv, Types
<1>9. /\ \A x \in Objects : InUse(x)' => InUse(x)
      /\ Homes'
      BY <1>1, <1>7, <1>8, SameObjects
<1>10. Types'
  <2>1. late' \subseteq Paths
        BY <1>1
  <2> QED BY <1>1, <1>6, <2>1 DEF IInv, Types
<1>11. \A q \in Requests : WellPlaced(job'[q])
  <2>1. WellPlaced(job'[r])
        BY <1>2, <1>7 DEF WellPlaced
  <2> QED BY <1>8, <2>1, WellKept
<1>12. Undisturbed'
      BY <1>6, <1>7, <1>8, UndisturbedKept
<1>13. Promises'
  <2>1. ASSUME NEW p \in Paths, promised'[p] # None
        PROVE  /\ promised[p] = promised'[p] /\ store'[p] = store[p] /\ state' = state
               /\ Respects(job'[r], p, promised[p])
               /\ \A x \in Objects : InUse(x)' =>
                     /\ Live(objs'[x].files[p])
                     /\ objs'[x].files[p].content \in {None, promised[p]}
    <3>1. promised'[p] = promised[p]
          BY <1>1
    <3>2. Respects(job'[r], p, promised[p])
          BY <1>7 DEF Respects
    <3>3. ASSUME NEW x \in Objects, InUse(x)
          PROVE  Live(objs'[x].files[p]) /\ objs'[x].files[p].content \in {None, promised[p]}
          BY <1>1, <2>1, <3>1, <3>3, PromiseFacts
    <3> QED BY <1>1, <1>9, <3>1, <3>2, <3>3
  <2> QED BY <1>8, <2>1, PromisesKept
<1>14. Bare'
  <2>1. \A p \in Paths : state.files[p].content = None /\ NoState.files[p].content = None
        BY ValuesTyped DEF IInv, Bare, Absent
  <2> QED BY <1>1, <1>7, <1>8, <2>1, BareKept
<1>15. Backed'
  <2>1. ASSUME NEW p \in Paths \ exposed' PROVE Dirty(state'.files[p]) => store'[p] # None
        BY <1>1, <2>1 DEF IInv, Backed
  <2>2. job[r].at = "idle" /\ job'[r].at = "applying" /\ job'[r].open
        BY <1>1, <1>7
  <2> QED BY <1>1, <1>6, <1>8, <1>10, <2>1, <2>2, BackedKept DEF Types
<1>16. Commits'
  <2>1. CASE Committing # {}
    <3>1. late' = Paths
          BY <1>1, <2>1
    <3> QED BY <3>1 DEF Commits
  <2>2. CASE Committing = {}
    <3>1. \A q \in Requests : q # r => job'[q].op # "commit"
          BY <1>8, <2>2 DEF Committing, Step, Follows
    <3>2. \A q \in Requests : job'[q].at = "applying" => q = r
          BY <1>11, <3>1 DEF WellPlaced
    <3>3. ASSUME NEW p \in Paths, p \notin job'[r].todo
          PROVE  Agrees(objs'[job'[r].obj].files[p], tree'[objs'[job'[r].obj].dir][p])
      <4>1. objs'[job'[r].obj].files[p].status = "absent"
            BY <1>1, <1>3, <1>7, <3>3
      <4> QED BY <4>1 DEF Agrees, Dirty
    <3> QED BY <3>1, <3>2, <3>3 DEF Commits, Committing
  <2> QED BY <2>1, <2>2
<1> QED BY <1>9, <1>10, <1>11, <1>12, <1>13, <1>14, <1>15, <1>16 DEF IInv

\* What apply_to_workspace makes of a file is what its change asks for.
LEMMA AppliedAgrees ==
    ASSUME NEW v \in VirtualFile, NEW b \in Bytes \cup {None}
    PROVE  Applied(v, b) \in Bytes \cup {None} /\ Agrees(v, Applied(v, b))
BY DEF Applied, Agrees, Dirty, HasChanges, VirtualFile

\* One file of the clone is made what its change asks for, or the commit misses it.
LEMMA AppliedStep ==
    ASSUME IInv, NEW r \in Requests, NEW p \in Paths, NEW b \in Bytes \cup {None},
           job[r].at = "applying", p \in job[r].todo,
           tree' = [tree EXCEPT ![objs[job[r].obj].dir][p] = b],
           Agrees(objs[job[r].obj].files[p], b) \/ p \in missed',
           missed \subseteq missed', missed' \subseteq Paths,
           job' = [job EXCEPT ![r].todo = @ \ {p}],
           UNCHANGED <<objs, mounted, lock, index, head, store, state>>,
           UNCHANGED <<promised, failed, exposed, late>>
    PROVE  IInv'
<1> DEFINE rec == [job[r] EXCEPT !.todo = @ \ {p}]
<1>1. PICK o \in Objects : o = job[r].obj
      BY DEF IInv, WellPlaced
<1>2. PICK g \in Repos : g = objs[o].dir
      BY <1>1, GvfsAssumption DEF IInv, Homes
<1> DEFINE v == objs[o].files[p]
<1>3. /\ job[r].at = "applying" /\ p \in job[r].todo
      /\ tree' = [tree EXCEPT ![g][p] = b]
      /\ job' = [job EXCEPT ![r].todo = @ \ {p}]
      /\ UNCHANGED <<objs, mounted, lock, index, head, store, state>>
      /\ UNCHANGED <<promised, failed, exposed, late>>
      BY <1>1, <1>2
<1>4. /\ job[r] \in Jobs /\ job \in [Requests -> Jobs] /\ job[r].op = "commit"
      /\ tree \in [Repos -> [Paths -> Bytes \cup {None}]]
      BY <1>3 DEF IInv, Types, WellPlaced
<1>5. Agrees(v, b) \/ p \in missed'
  <2>1. Agrees(objs[job[r].obj].files[p], b) \/ p \in missed'
        OBVIOUS
  <2> QED BY ONLY <1>1, <2>1
<1>6. /\ tree' \in [Repos -> [Paths -> Bytes \cup {None}]]
      /\ tree'[g][p] = b
      /\ \A y \in Paths : y # p => tree'[g][y] = tree[g][y]
  <2>1. b \in Bytes \cup {None} /\ p \in Paths
        OBVIOUS
  <2>2. tree' = [tree EXCEPT ![g] = [tree[g] EXCEPT ![p] = b]]
        BY <1>3
  <2>3. tree[g] \in [Paths -> Bytes \cup {None}]
        BY ONLY <1>4
  <2>4. [tree[g] EXCEPT ![p] = b] \in [Paths -> Bytes \cup {None}]
        BY ONLY <2>1, <2>3
  <2> QED BY ONLY <1>4, <2>1, <2>2, <2>3, <2>4
<1>7. /\ rec.at = "applying" /\ rec.open = job[r].open /\ rec.snap = job[r].snap
      /\ rec.op = "commit" /\ rec.obj = o /\ rec.path = job[r].path
      /\ rec.todo = job[r].todo \ {p} /\ rec.alone = job[r].alone
      BY ONLY <1>1, <1>3, <1>4 DEF Jobs
<1>8. rec \in Jobs
      BY ONLY <1>4 DEF Jobs
<1>9. job' = [job EXCEPT ![r] = rec]
      BY <1>3, <1>4
<1> HIDE DEF rec, v
<1>10. /\ job' \in [Requests -> Jobs] /\ job'[r] = rec
       /\ \A q \in Requests : q # r => job'[q] = job[q]
      BY <1>4, <1>8, <1>9, MoveFacts
<1>11. Step(r)
      BY <1>3, <1>10, FollowsItself DEF Step, IInv, Types
<1>12. /\ \A x \in Objects : InUse(x)' => InUse(x)
       /\ Homes'
      BY <1>1, <1>3, <1>7, <1>10, <1>11, SameObjects
<1>13. Types'
      BY <1>3, <1>6, <1>10 DEF IInv, Types
<1>14. job[r].alone = FALSE
  <2>1. WellPlaced(job[r]) /\ job[r].alone \in BOOLEAN
        BY <1>4 DEF IInv, Jobs
  <2> QED BY <1>4, <2>1 DEF WellPlaced
<1>15. \A q \in Requests : WellPlaced(job'[q])
  <2>1. WellPlaced(rec)
        BY <1>7, <1>14 DEF WellPlaced
  <2> QED BY <1>10, <1>11, <2>1, WellKept
<1>16. Undisturbed'
  <2>1. job[r].at # "idle" /\ ~job'[r].alone
        BY <1>3, <1>7, <1>10, <1>14
  <2> QED BY <1>11, <2>1, UndisturbedKept
<1>17. Promises'
  <2>1. ASSUME NEW y \in Paths, promised'[y] # None
        PROVE  /\ promised[y] = promised'[y] /\ store'[y] = store[y] /\ state' = state
               /\ Respects(job'[r], y, promised[y])
               /\ \A x \in Objects : InUse(x)' =>
                     /\ Live(objs'[x].files[y])
                     /\ objs'[x].files[y].content \in {None, promised[y]}
    <3>1. promised'[y] = promised[y]
          BY <1>3
    <3>2. Respects(job'[r], y, promised[y])
          BY <1>7, <1>10 DEF Respects
    <3>3. ASSUME NEW x \in Objects, InUse(x)
          PROVE  Live(objs'[x].files[y]) /\ objs'[x].files[y].content \in {None, promised[y]}
          BY <1>3, <2>1, <3>1, <3>3, PromiseFacts
    <3> QED BY <1>3, <1>12, <3>1, <3>2, <3>3
  <2> QED BY <1>11, <2>1, PromisesKept
<1>18. Bare'
  <2>1. \A y \in Paths : state.files[y].content = None /\ job[r].snap.files[y].content = None
        BY DEF IInv, Bare
  <2> QED BY <1>3, <1>7, <1>10, <1>11, <2>1, BareKept
<1>19. Backed'
  <2>1. ASSUME NEW y \in Paths \ exposed' PROVE Dirty(state'.files[y]) => store'[y] # None
        BY <1>3, <2>1 DEF IInv, Backed
  <2>2. job[r].at = "applying" /\ job'[r].at = "applying" /\ job'[r].open = job[r].open
        BY <1>3, <1>7, <1>10
  <2>3. ~job[r].open => exposed = Paths
        BY DEF IInv, Backed
  <2> QED BY <1>3, <1>10, <1>11, <1>13, <2>1, <2>2, <2>3, BackedKept DEF Types
<1>20. Commits'
  <2>1. \A q \in Requests : job'[q].op = job[q].op /\ job'[q].at = job[q].at
        BY <1>3, <1>4, <1>7, <1>10
  <2>2. Committing' = Committing /\ r \in Committing
        BY <1>4, <2>1 DEF Committing
  <2>3. Commits /\ \A q \in Requests : WellPlaced(job[q])
        BY DEF IInv
  <2>4. CASE \E q \in Committing : q # r
    <3>1. late' = Paths
          BY <1>3, <2>2, <2>3, <2>4 DEF Commits
    <3> QED BY <3>1 DEF Commits
  <2>5. CASE \A q \in Committing : q = r
    <3>1. \A q \in Requests : job'[q].at = "applying" => q = r
          BY <2>1, <2>3, <2>5 DEF WellPlaced, Committing
    <3>2. ASSUME NEW y \in Paths \ (late' \cup missed' \cup job'[r].todo)
          PROVE  Agrees(objs'[o].files[y], tree'[g][y])
      <4>1. CASE y = p
            BY <1>3, <1>5, <1>6, <4>1 DEF v
      <4>2. CASE y # p
        <5>1. y \in Paths \ (late \cup missed \cup job[r].todo)
              BY <1>3, <1>7, <1>10, <3>2, <4>2
        <5>2. Agrees(objs[o].files[y], tree[g][y])
              BY <1>1, <1>2, <1>3, <2>3, <5>1 DEF Commits
        <5> QED BY <1>3, <1>6, <4>2, <5>1, <5>2
      <4> QED BY <4>1, <4>2
    <3>3. job'[r].obj = o /\ objs'[o].dir = g
          BY <1>2, <1>3, <1>7, <1>10
    <3> QED BY <2>2, <2>5, <3>1, <3>2, <3>3 DEF Commits
  <2> QED BY <2>4, <2>5
<1> QED BY <1>12, <1>13, <1>15, <1>16, <1>17, <1>18, <1>19, <1>20 DEF IInv

LEMMA ApplyFileStep ==
    ASSUME IInv, NEW r \in Requests, NEW p \in Paths, ApplyFile(r, p)
    PROVE  IInv'
<1>1. PICK o \in Objects : o = job[r].obj
      BY DEF ApplyFile, IInv, WellPlaced
<1>2. PICK g \in Repos : g = objs[o].dir
      BY <1>1, GvfsAssumption DEF IInv, Homes
<1> DEFINE v == objs[o].files[p]
           b == Applied(v, tree[g][p])
<1>3. /\ job[r].at = "applying" /\ p \in job[r].todo
      /\ tree' = [tree EXCEPT ![g][p] = b]
      /\ job' = [job EXCEPT ![r].todo = @ \ {p}]
      /\ UNCHANGED <<objs, mounted, lock, index, head, store, state>>
      /\ UNCHANGED <<promised, failed, exposed, late, missed>>
      BY <1>1, <1>2 DEF ApplyFile, history
<1>4. b \in Bytes \cup {None} /\ Agrees(v, b)
  <2>1. tree[g][p] \in Bytes \cup {None} /\ v \in VirtualFile
        BY DEF IInv, Types, Mounts
  <2> QED BY <2>1, AppliedAgrees
<1> HIDE DEF b
<1> QED BY <1>1, <1>2, <1>3, <1>4, AppliedStep DEF IInv, Types

\* A file that could not be copied is missed.
LEMMA ApplyFailsStep ==
    ASSUME IInv, NEW r \in Requests, NEW p \in Paths, ApplyFails(r, p)
    PROVE  IInv'
<1>1. PICK o \in Objects : o = job[r].obj
      BY DEF ApplyFails, IInv, WellPlaced
<1>2. PICK g \in Repos : g = objs[o].dir
      BY <1>1, GvfsAssumption DEF IInv, Homes
<1>3. /\ job[r].at = "applying" /\ p \in job[r].todo
      /\ tree' = tree \/ tree' = [tree EXCEPT ![g][p] = Empty]
      /\ job' = [job EXCEPT ![r].todo = @ \ {p}] /\ missed' = missed \cup {p}
      /\ UNCHANGED <<objs, mounted, lock, index, head, store, state>>
      /\ UNCHANGED <<promised, failed, exposed, late>>
      BY <1>1, <1>2 DEF ApplyFails
<1>4. tree \in [Repos -> [Paths -> Bytes \cup {None}]]
      BY DEF IInv, Types
<1>5. PICK b \in Bytes \cup {None} : tree' = [tree EXCEPT ![g][p] = b]
  <2>1. tree = [tree EXCEPT ![g][p] = tree[g][p]] /\ tree[g][p] \in Bytes \cup {None}
        BY <1>4
  <2>2. Empty \in Bytes
        BY DEF Bytes
  <2> QED BY <1>3, <2>1, <2>2
<1> QED BY <1>1, <1>2, <1>3, <1>5, AppliedStep DEF IInv, Types

\* git makes a commit; what has not been staged is missed.
LEMMA CommittedStep ==
    ASSUME IInv, NEW r \in Requests, job[r].at = "applying",
           job' = [job EXCEPT ![r].at = "committed"],
           index' \in [Repos -> [Paths -> Bytes \cup {None}]],
           head' \in [Repos -> [cloned : BOOLEAN, files : [Paths -> Bytes \cup {None}]]],
           missed \subseteq missed', missed' \subseteq Paths,
           UNCHANGED <<objs, mounted, lock, tree, store, state>>,
           UNCHANGED <<promised, failed, exposed, late>>
    PROVE  IInv'
<1> DEFINE rec == [job[r] EXCEPT !.at = "committed"]
           g == objs[job[r].obj].dir
<1>1. /\ job[r].at = "applying"
      /\ job' = [job EXCEPT ![r].at = "committed"]
      /\ UNCHANGED <<objs, mounted, lock, tree, store, state>>
      /\ UNCHANGED <<promised, failed, exposed, late>>
      OBVIOUS
<1>2. /\ job[r] \in Jobs /\ job \in [Requests -> Jobs] /\ job[r].op = "commit"
      /\ job[r].obj \in Objects /\ g \in Repos
      BY <1>1, GvfsAssumption DEF IInv, Types, WellPlaced, Homes
<1>3. /\ rec.at = "committed" /\ rec.open = job[r].open /\ rec.snap = job[r].snap
      /\ rec.op = "commit" /\ rec.obj = job[r].obj /\ rec.alone = job[r].alone
      BY ONLY <1>2 DEF Jobs
<1>4. rec \in Jobs
      BY ONLY <1>2 DEF Jobs, Places
<1>5. job' = [job EXCEPT ![r] = rec]
      BY <1>1, <1>2
<1> HIDE DEF rec
<1>6. /\ job' \in [Requests -> Jobs] /\ job'[r] = rec
      /\ \A q \in Requests : q # r => job'[q] = job[q]
      BY <1>2, <1>4, <1>5, MoveFacts
<1>7. Step(r)
      BY <1>1, <1>6, FollowsItself DEF Step, IInv, Types
<1>8. /\ \A x \in Objects : InUse(x)' => InUse(x)
      /\ Homes'
      BY <1>1, <1>3, <1>6, <1>7, SameObjects
<1>9. Types'
      BY <1>1, <1>6 DEF IInv, Types
<1>10. job[r].alone = FALSE
  <2>1. WellPlaced(job[r]) /\ job[r].alone \in BOOLEAN
        BY <1>2 DEF IInv, Jobs
  <2> QED BY <1>2, <2>1 DEF WellPlaced
<1>11. \A q \in Requests : WellPlaced(job'[q])
  <2>1. WellPlaced(rec)
        BY <1>2, <1>3, <1>10 DEF WellPlaced
  <2> QED BY <1>6, <1>7, <2>1, WellKept
<1>12. Undisturbed'
  <2>1. job[r].at # "idle" /\ ~job'[r].alone
        BY <1>1, <1>3, <1>6, <1>10
  <2> QED BY <1>7, <2>1, UndisturbedKept
<1>13. Promises'
  <2>1. ASSUME NEW p \in Paths, promised'[p] # None
        PROVE  /\ promised[p] = promised'[p] /\ store'[p] = store[p] /\ state' = state
               /\ Respects(job'[r], p, promised[p])
               /\ \A x \in Objects : InUse(x)' =>
                     /\ Live(objs'[x].files[p])
                     /\ objs'[x].files[p].content \in {None, promised[p]}
    <3>1. promised'[p] = promised[p]
          BY <1>1
    <3>2. Respects(job'[r], p, promised[p])
          BY <1>3, <1>6 DEF Respects
    <3>3. ASSUME NEW x \in Objects, InUse(x)
          PROVE  Live(objs'[x].files[p]) /\ objs'[x].files[p].content \in {None, promised[p]}
          BY <1>1, <2>1, <3>1, <3>3, PromiseFacts
    <3> QED BY <1>1, <1>8, <3>1, <3>2, <3>3
  <2> QED BY <1>7, <2>1, PromisesKept
<1>14. Bare'
  <2>1. \A p \in Paths : state.files[p].content = None /\ job[r].snap.files[p].content = None
        BY DEF IInv, Bare
  <2> QED BY <1>1, <1>3, <1>6, <1>7, <2>1, BareKept
<1>15. Backed'
  <2>1. ASSUME NEW p \in Paths \ exposed' PROVE Dirty(state'.files[p]) => store'[p] # None
        BY <1>1, <2>1 DEF IInv, Backed
  <2>2. job[r].at = "applying" /\ job'[r].at = "committed" /\ job'[r].open = job[r].open
        BY <1>1, <1>3, <1>6
  <2>3. ~job[r].open => exposed = Paths
        BY DEF IInv, Backed
  <2> QED BY <1>1, <1>6, <1>7, <1>9, <2>1, <2>2, <2>3, BackedKept DEF Types
<1>16. Commits'
  <2>1. job[r].op = "commit" /\ job'[r].at # "applying"
        BY <1>2, <1>3, <1>6
  <2> QED BY <1>1, <1>7, <1>9, <2>1, CommitsKept DEF Types, Stays
<1> QED BY <1>8, <1>9, <1>11, <1>12, <1>13, <1>14, <1>15, <1>16 DEF IInv

\* git takes the working tree.
LEMMA GitCommitsStep == ASSUME IInv, NEW r \in Requests, GitCommits(r) PROVE IInv'
<1> DEFINE g == objs[job[r].obj].dir
<1>1. /\ job[r].at = "applying" /\ job' = [job EXCEPT ![r].at = "committed"]
      /\ index' = [index EXCEPT ![g] = tree[g]] /\ head' = [head EXCEPT ![g].files = tree[g]]
      /\ UNCHANGED <<objs, mounted, lock, tree, store, state>>
      /\ UNCHANGED <<promised, failed, exposed, late, missed>>
      BY DEF GitCommits, Applies, history
<1>2. g \in Repos
      BY <1>1, GvfsAssumption DEF IInv, WellPlaced, Homes
<1> HIDE DEF g
<1>3. /\ index' \in [Repos -> [Paths -> Bytes \cup {None}]]
      /\ head' \in [Repos -> [cloned : BOOLEAN, files : [Paths -> Bytes \cup {None}]]]
      /\ missed \subseteq missed' /\ missed' \subseteq Paths
      BY <1>1, <1>2 DEF IInv, Types
<1> QED BY <1>1, <1>3, CommittedStep

\* git takes what was staged before, and misses everything.
LEMMA GitCommitsStagedStep == ASSUME IInv, NEW r \in Requests, GitCommitsStaged(r) PROVE IInv'
<1> DEFINE g == objs[job[r].obj].dir
<1>1. /\ job[r].at = "applying" /\ job' = [job EXCEPT ![r].at = "committed"]
      /\ head' = [head EXCEPT ![g].files = index[g]] /\ missed' = Paths
      /\ UNCHANGED <<objs, mounted, lock, tree, index, store, state>>
      /\ UNCHANGED <<promised, failed, exposed, late>>
      BY DEF GitCommitsStaged, Applies
<1>2. g \in Repos
      BY <1>1, GvfsAssumption DEF IInv, WellPlaced, Homes
<1> HIDE DEF g
<1>3. /\ index' \in [Repos -> [Paths -> Bytes \cup {None}]]
      /\ head' \in [Repos -> [cloned : BOOLEAN, files : [Paths -> Bytes \cup {None}]]]
      /\ missed \subseteq missed' /\ missed' \subseteq Paths
      BY <1>1, <1>2 DEF IInv, Types
<1> QED BY <1>1, <1>3, CommittedStep

\* The changes of the mount are marked as committed: none is left, what was live
\* stays live, and another commit knows that it was disturbed.
LEMMA CommitMarksStep == ASSUME IInv, NEW r \in Requests, CommitMarks(r) PROVE IInv'
<1>1. PICK o \in Objects : o = job[r].obj
      BY DEF CommitMarks, IInv, WellPlaced
<1> DEFINE mark(v) == IF HasChanges(v) THEN [v EXCEPT !.status = "unchanged", !.head = v.sha]
                      ELSE v
           marked == [p \in Paths |-> mark(objs[o].files[p])]
           m == [objs[o] EXCEPT !.files = marked]
<1>2. /\ job[r].at = "committed" /\ objs' = [objs EXCEPT ![o].files = marked]
      /\ Snapshot(r, objs'[o]) /\ exposed' = exposed \cup Unstored
      /\ UNCHANGED <<mounted, lock, tree, index, head, store, state>>
      /\ UNCHANGED <<promised, failed, late, missed>>
      BY <1>1 DEF CommitMarks, clone, disk
<1>3. /\ job[r].op = "commit" /\ objs \in [Objects -> Mounts] /\ objs[o] \in Mounts
      /\ job[r].alone = FALSE
  <2>1. job[r].op = "commit" /\ objs \in [Objects -> Mounts] /\ job[r] \in Jobs
        BY <1>2 DEF IInv, Types, WellPlaced
  <2>2. job[r].alone = FALSE
        BY <2>1 DEF IInv, WellPlaced, Jobs
  <2> QED BY <2>1, <2>2
<1>4. ASSUME NEW v \in VirtualFile
      PROVE  /\ mark(v) \in VirtualFile /\ ~Dirty(mark(v))
             /\ mark(v).content = v.content /\ (Live(v) => Live(mark(v)))
      BY DEF HasChanges, Dirty, Live, VirtualFile, Statuses
<1> HIDE DEF mark
<1>5. /\ marked \in [Paths -> VirtualFile]
      /\ \A p \in Paths : /\ ~Dirty(marked[p]) /\ marked[p].content = objs[o].files[p].content
                          /\ Live(objs[o].files[p]) => Live(marked[p])
  <2>1. \A p \in Paths : objs[o].files[p] \in VirtualFile
        BY <1>3 DEF Mounts
  <2> QED BY <1>4, <2>1
<1>6. m \in Mounts /\ m.dir = objs[o].dir /\ m.files = marked
      BY <1>3, <1>5 DEF Mounts
<1>7. objs' = [objs EXCEPT ![o] = m]
      BY <1>2, <1>3
<1> HIDE DEF m, marked
<1>8. /\ objs' \in [Objects -> Mounts] /\ objs'[o] = m
      /\ \A x \in Objects : x # o => objs'[x] = objs[x]
      BY <1>3, <1>6, <1>7
<1>9. /\ job' \in [Requests -> Jobs]
      /\ \A q \in Requests : q # r => job'[q] = job[q]
      /\ job'[r].at = "saving" /\ job'[r].open = TRUE /\ job'[r].snap = Image(m)
      /\ job'[r].op = "commit" /\ job'[r].obj = o /\ job'[r].path = job[r].path
      /\ job'[r].alone = FALSE
  <2>1. Snapshot(r, m)
        BY <1>2, <1>8
  <2> QED BY <1>1, <1>3, <1>6, <2>1, SnapshotFacts
<1>10. /\ Image(m).kind = "saved"
       /\ \A p \in Paths : /\ Image(m).files[p].status = marked[p].status
                           /\ Image(m).files[p].content = None
      BY <1>6, ImageFacts
<1>11. Step(r)
      BY <1>8, <1>9, FollowsItself DEF Step
<1>12. Homes'
  <2>1. \A x \in Objects : objs'[x].dir = objs[x].dir
        BY <1>6, <1>8
  <2> QED BY <1>1, <1>2, <1>9, <1>11, <2>1, HomesKept
<1>13. \A x \in Objects : InUse(x)' => InUse(x)
  <2>1. \A q \in Requests : /\ job'[q].obj = job[q].obj
                            /\ job[q].at \in {"mounting", "cloning"} =>
                                  job'[q].at \in {"mounting", "cloning"}
        BY <1>1, <1>2, <1>9
  <2> QED BY <1>2, <2>1 DEF InUse
<1>14. Types'
  <2>1. exposed' \subseteq Paths
        BY <1>2 DEF Unstored, IInv, Types
  <2> QED BY <1>2, <1>8, <1>9, <2>1 DEF IInv, Types
<1>15. \A q \in Requests : WellPlaced(job'[q])
  <2>1. WellPlaced(job'[r])
        BY <1>9, <1>10 DEF WellPlaced
  <2> QED BY <1>11, <2>1, WellKept
<1>16. Undisturbed'
  <2>1. job[r].at # "idle"
        BY <1>2
  <2> QED BY <1>9, <1>11, <2>1, UndisturbedKept
<1>17. Promises'
  <2>1. ASSUME NEW p \in Paths, promised'[p] # None
        PROVE  /\ promised[p] = promised'[p] /\ store'[p] = store[p] /\ state' = state
               /\ Respects(job'[r], p, promised[p])
               /\ \A x \in Objects : InUse(x)' =>
                     /\ Live(objs'[x].files[p])
                     /\ objs'[x].files[p].content \in {None, promised[p]}
    <3>1. promised'[p] = promised[p]
          BY <1>2
    <3>2. ASSUME NEW x \in Objects, InUse(x)
          PROVE  Live(objs'[x].files[p]) /\ objs'[x].files[p].content \in {None, promised[p]}
      <4>1. Live(objs[x].files[p]) /\ objs[x].files[p].content \in {None, promised[p]}
            BY <2>1, <3>1, <3>2, PromiseFacts
      <4> QED BY <1>5, <1>6, <1>8, <4>1
    <3>3. Live(marked[p])
      <4>1. InUse(o)
            BY <1>1, <1>2 DEF InUse
      <4> QED BY <1>6, <1>8, <3>2, <4>1
    <3>4. Respects(job'[r], p, promised[p])
          BY <1>9, <1>10, <3>3 DEF Respects, Live
    <3> QED BY <1>2, <1>13, <3>1, <3>2, <3>4
  <2> QED BY <1>11, <2>1, PromisesKept
<1>18. Bare'
  <2>1. \A p \in Paths : state.files[p].content = None
        BY DEF IInv, Bare
  <2> QED BY <1>2, <1>9, <1>10, <1>11, <2>1, BareKept
<1>19. Backed'
  <2>1. ASSUME NEW p \in Paths \ exposed'
        PROVE  /\ Dirty(state'.files[p]) => store'[p] # None
               /\ ~Dirty(job'[r].snap.files[p])
               /\ \A x \in Objects : Dirty(objs'[x].files[p]) => Dirty(objs[x].files[p])
    <3>1. Dirty(state.files[p]) => store[p] # None
          BY <1>2, <2>1 DEF IInv, Backed
    <3>2. ~Dirty(marked[p])
          BY <1>5
    <3>3. ~Dirty(job'[r].snap.files[p])
          BY <1>9, <1>10, <3>2 DEF Dirty
    <3> QED BY <1>2, <1>6, <1>8, <3>1, <3>2, <3>3
  <2>2. job[r].at # "storing" /\ exposed \subseteq exposed'
        BY <1>2
  <2> QED BY <1>2, <1>9, <1>11, <1>14, <2>1, <2>2, BackedKept DEF Types
<1>20. Commits'
  <2>1. ASSUME NEW q \in Requests, job'[q].at = "applying" PROVE late = Paths
    <3>1. q # r /\ q \in Committing /\ r \in Committing
          BY <1>3, <1>9, <2>1 DEF Committing, IInv, WellPlaced
    <3> QED BY <3>1 DEF IInv, Commits
  <2>2. ASSUME NEW q \in Requests, job'[q].at = "applying"
        PROVE  /\ objs'[job'[q].obj].dir = objs[job'[q].obj].dir
               /\ \A p \in Paths \ late' :
                     Stays(objs[job'[q].obj].files[p], objs'[job'[q].obj].files[p])
    <3>1. job'[q].obj \in Objects
          BY <1>15, <2>2 DEF WellPlaced
    <3> QED BY <1>2, <1>6, <1>8, <2>1, <2>2, <3>1
  <2>3. job[r].op = "commit" /\ job'[r].at # "applying"
        BY <1>3, <1>9
  <2> QED BY <1>2, <1>11, <1>14, <2>2, <2>3, CommitsKept DEF Types
<1> QED BY <1>12, <1>14, <1>15, <1>16, <1>17, <1>18, <1>19, <1>20 DEF IInv

-----------------------------------------------------------------------------
(* The invariant and what follows from it.                                 *)

LEMMA InitSound == ASSUME Init PROVE IInv
<1>1. /\ Idle.at = "idle" /\ Idle.op = "none" /\ Idle.obj = None /\ Idle.alone = FALSE
      /\ Idle.open = TRUE /\ Idle.snap = NoState
      BY DEF Idle
<1>2. Types
  <2>1. NoFiles \in [Paths -> Bytes \cup {None}] /\ NoFiles \in [Paths -> Contents \cup {None}]
        BY DEF NoFiles
  <2>2. NoClone \in [cloned : BOOLEAN, files : [Paths -> Bytes \cup {None}]]
        BY <2>1 DEF NoClone
  <2> QED BY <2>1, <2>2, ValuesTyped DEF Init, Types
<1>3. /\ \A r \in Requests : job[r] = Idle
      /\ \A o \in Objects : objs[o] = Blank
      /\ mounted = None /\ state = NoState
      /\ \A p \in Paths : promised[p] = None
      BY DEF Init, NoFiles
<1>4. \A r \in Requests : WellPlaced(job[r])
      BY <1>3, ValuesTyped
<1>5. Homes /\ Undisturbed /\ Promises /\ Commits
      BY <1>1, <1>3 DEF Homes, Undisturbed, Promises, Commits, Committing
<1>6. Bare
      BY <1>1, <1>3, ValuesTyped DEF Bare, Absent
<1>7. Backed
      BY <1>1, <1>3, ValuesTyped DEF Backed, Dirty, Absent
<1> QED BY <1>2, <1>4, <1>5, <1>6, <1>7 DEF IInv

LEMMA RequestSound == ASSUME IInv, NEW r \in Requests, Request(r) PROVE IInv'
<1>1. ASSUME UnmountCleanUp(r) PROVE IInv'
      BY <1>1, CleanUpStep DEF UnmountCleanUp
<1>2. ASSUME CleanUpRaises(r) PROVE IInv'
      BY <1>2, CleanUpStep DEF CleanUpRaises
<1> QED BY <1>1, <1>2, MountBeginStep, UnmountPersistStep, ReadFileStep, DeleteFileStep,
           WriteFileStep, CommitStep DEF Request

LEMMA ContinueSound == ASSUME IInv, NEW r \in Requests, Continue(r) PROVE IInv'
BY RestoreStep, CloneBeginsStep, MountFailsStep, LoadReadsStep, LoadAssignsStep, StoreOpensStep,
   StoreClosesStep, SaveOpensStep, SaveClosesStep, FileRaisesStep, ApplyFileStep, ApplyFailsStep,
   ApplyRaisesStep, GitCommitsStep, GitCommitsStagedStep, GitRefusesStep, CommitMarksStep
   DEF Continue

LEMMA CloneEndsSound == ASSUME IInv, NEW r \in Requests, CloneEnds(r) PROVE IInv'
BY CloneStep, MountFailsStep DEF CloneEnds

LEMMA NextSound == ASSUME IInv, [Next]_vars PROVE IInv'
<1>1. CASE Next
      BY <1>1, RequestSound, ContinueSound, CloneEndsSound, CrashStep DEF Next
<1>2. CASE UNCHANGED vars
  <2>1. /\ objs' = objs /\ mounted' = mounted /\ lock' = lock /\ job' = job
        /\ tree' = tree /\ index' = index /\ head' = head /\ store' = store /\ state' = state
        /\ promised' = promised /\ failed' = failed /\ exposed' = exposed
        /\ late' = late /\ missed' = missed
        BY <1>2 DEF vars, clone, disk, history
  <2>2. Types' /\ Homes' /\ \A r \in Requests : WellPlaced(job[r])'
        BY <2>1 DEF IInv, Types, Homes
  <2>3. Undisturbed'
        BY <2>1 DEF IInv, Undisturbed, Lone
  <2>4. Promises'
        BY <2>1 DEF IInv, Promises, Promise, InUse
  <2>5. Bare' /\ Backed'
        BY <2>1 DEF IInv, Bare, Backed, Unstored
  <2>6. Commits'
        BY <2>1 DEF IInv, Commits, Committing
  <2> QED BY <2>2, <2>3, <2>4, <2>5, <2>6 DEF IInv
<1> QED BY <1>1, <1>2

LEMMA Invariance == Spec => []IInv
BY InitSound, NextSound, PTL DEF Spec

\* Read your writes, over any number of requests, mounts and crashes: write_file
\* and persist_file_change keep the content that they were given, in the mount
\* that read_file looks at and in the store it is loaded from.
THEOREM WritesAreKept == Spec => []ReadYourWrites
<1>1. ASSUME IInv PROVE ReadYourWrites
  <2> SUFFICES ASSUME NEW p \in Paths, promised[p] # None, mounted # None
               PROVE  LET v == objs[mounted].files[p]
                      IN /\ v.status \notin {"absent", "deleted"}
                         /\ v.content \in {None, promised[p]}
                         /\ store[p] = promised[p]
      BY DEF ReadYourWrites
  <2>1. mounted \in Objects /\ InUse(mounted)
        BY <1>1 DEF IInv, Types, InUse
  <2> QED BY <1>1, <2>1, PromiseFacts DEF Live
<1> QED BY <1>1, Invariance, PTL

\* The state file that save_mount_state leaves behind, at any crash, lists no
\* added or modified file of which persist_file_change has stored nothing, unless
\* it was exposed: saved while it was being stored, or after storing it had
\* raised, or cleaned up under requests or in part; and every variable has its type.
THEOREM StateStaysSound == Spec => []StateIsSound
<1>1. ASSUME IInv PROVE TypeOK
  <2>1. Types
        BY <1>1 DEF IInv
  <2>2. \A o \in Objects : /\ objs[o].url.repo \in Repos \cup {None}
                           /\ objs[o].dir \in Repos \cup {None}
                           /\ objs[o].files \in [Paths -> VirtualFile]
        BY <2>1 DEF Types, Mounts, Urls
  <2>3. state.kind \in {"missing", "torn", "saved"}
        BY <2>1 DEF Types, Images
  <2>4. \A r \in Requests : job[r].op \in Ops /\ job[r].at \in Places
        BY <2>1 DEF Types, Jobs
  <2> QED BY <2>1, <2>2, <2>3, <2>4 DEF Types, TypeOK
<1>2. ASSUME IInv PROVE StateIsBacked
      BY <1>2 DEF IInv, Backed, Dirty, StateIsBacked
<1>3. IInv => StateIsSound
      BY <1>1, <1>2 DEF StateIsSound
<1> QED BY <1>3, Invariance, PTL

\* Only git commit makes an applying commit a committed one; of a commit without
\* git add everything is missed.
LEMMA OnlyGitCommits ==
    ASSUME IInv, [Next]_vars, NEW r \in Requests, job[r].at = "applying",
           job'[r].at = "committed"
    PROVE  GitCommits(r) \/ GitCommitsStaged(r)
<1>1. /\ job \in [Requests -> Jobs] /\ job[r] \in Jobs
      /\ Idle.at = "idle"
      BY DEF IInv, Types, Idle
<1>2. /\ [job[r] EXCEPT !.alone = FALSE].at = "applying"
      /\ \A x : [job[r] EXCEPT !.alone = FALSE, !.held = FALSE, !.buf = x].at = "applying"
      /\ \A x : [job[r] EXCEPT !.alone = FALSE, !.open = x].at = "applying"
      BY <1>1 DEF Jobs
<1>3. ASSUME NEW q \in Requests, NEW rec, Begin(q, rec), Asked(q) PROVE FALSE
  <2>1. q # r
        BY <1>3 DEF Asked, Free
  <2>2. job'[r] = [job[r] EXCEPT !.alone = FALSE]
        BY <1>1, <1>3, <2>1 DEF Begin, Disturb
  <2> QED BY <1>2, <2>2
<1>4. \A q \in Requests : ~End(q)
      BY <1>1, EndFacts
<1>5. ASSUME NEW q \in Requests, Request(q) PROVE FALSE
  <2>1. \A g \in Repos, token \in BOOLEAN : ~MountBegin(q, g, token)
        BY <1>3 DEF MountBegin
  <2>2. ~UnmountPersist(q) /\ ~Commit(q)
        BY <1>3 DEF UnmountPersist, Commit
  <2>3. \A p \in Paths, c \in Contents : ~WriteFile(q, p, c)
        BY <1>3 DEF WriteFile
  <2>4. \A p \in Paths : ~ReadFile(q, p)
        BY <1>3 DEF ReadFile
  <2>5. ASSUME NEW S, NEW gone, CleanUp(q, S, gone) PROVE FALSE
    <3>1. \E x : job'[r] = [job[r] EXCEPT !.alone = FALSE, !.open = x]
          BY <2>5 DEF CleanUp
    <3> QED BY <1>2, <3>1
  <2>7. ~UnmountCleanUp(q) /\ ~CleanUpRaises(q)
        BY <2>5 DEF UnmountCleanUp, CleanUpRaises
  <2>6. ASSUME NEW p \in Paths, DeleteFile(q, p) PROVE FALSE
    <3>1. \/ job'[r] = [job[r] EXCEPT !.alone = FALSE]
          \/ job'[r] = [job[r] EXCEPT !.alone = FALSE, !.held = FALSE, !.buf = job[r].buf]
          BY <1>1, <2>6 DEF DeleteFile
    <3> QED BY <1>2, <3>1
  <2> QED BY <1>5, <2>1, <2>2, <2>3, <2>4, <2>6, <2>7 DEF Request
<1>6. ASSUME NEW q \in Requests, Continue(q) \/ CloneEnds(q)
      PROVE  GitCommits(r) \/ GitCommitsStaged(r)
  <2>1. ~Restore(q) /\ ~Clone(q) /\ ~MountFails(q)
        BY <1>4 DEF Restore, Clone, MountFails, MountEnds
  <2>9. ~CloneBegins(q)
        BY <1>1 DEF CloneBegins
  <2>2. ~LoadReads(q) /\ ~LoadAssigns(q)
        BY <1>1, <1>4 DEF LoadReads, LoadAssigns
  <2>3. ~StoreOpens(q) /\ ~SaveOpens(q) /\ ~SaveCloses(q) /\ ~FileRaises(q)
        BY <1>1, <1>4 DEF StoreOpens, SaveOpens, SaveCloses, FileRaises
  <2>4. ~StoreCloses(q)
        BY <1>1 DEF StoreCloses, Snapshot
  <2>5. ~CommitMarks(q)
        BY <1>1 DEF CommitMarks, Snapshot
  <2>6. \A p \in Paths : ~ApplyFile(q, p) /\ ~ApplyFails(q, p)
        BY <1>1 DEF ApplyFile, ApplyFails, Jobs
  <2>7. ~ApplyRaises(q) /\ ~GitRefuses(q)
        BY <1>4 DEF ApplyRaises, GitRefuses
  <2>8. GitCommits(q) \/ GitCommitsStaged(q) => q = r
        BY <1>1 DEF GitCommits, GitCommitsStaged
  <2> QED BY <1>6, <2>1, <2>2, <2>3, <2>4, <2>5, <2>6, <2>7, <2>8, <2>9 DEF Continue, CloneEnds
<1>7. ~Crash
      BY <1>1 DEF Crash
<1>8. ~UNCHANGED vars
      BY DEF vars
<1> QED BY <1>5, <1>6, <1>7, <1>8 DEF Next

\* A commit that git accepts has all the changes that were loaded, that no one
\* disturbed, and that neither the copying nor git add has failed on, which the
\* code does not look at: apply_to_workspace has brought the working tree,
\* whatever was in it before, to agree with the mount, and git add -A takes it.
THEOREM CommitsAreComplete == Spec => CommitTakesLoadedChanges
<1> DEFINE Taken(r) ==
              LET o == objs[job[r].obj]
              IN \A p \in Paths \ (late \cup missed') :
                    /\ o.files[p].status = "deleted" => head'[o.dir].files[p] = None
                    /\ o.files[p].status \in {"added", "modified"} /\ o.files[p].content # None
                          => head'[o.dir].files[p] = o.files[p].content
<1>1. ASSUME IInv, [Next]_vars, NEW r \in Requests, job[r].at = "applying",
             job'[r].at = "committed"
      PROVE  Taken(r)
  <2>1. PICK o \in Objects : o = job[r].obj
        BY <1>1 DEF IInv, WellPlaced
  <2>2. PICK g \in Repos : g = objs[o].dir
        BY <1>1, <2>1, GvfsAssumption DEF IInv, Homes
  <2>3. CASE GitCommitsStaged(r)
        BY <2>3 DEF GitCommitsStaged
  <2>4. CASE GitCommits(r)
    <3>1. job[r].todo = {} /\ head' = [head EXCEPT ![g].files = tree[g]] /\ missed' = missed
          BY <2>1, <2>2, <2>4 DEF GitCommits, Applies, history
    <3>2. head'[g].files = tree[g]
          BY <1>1, <3>1 DEF IInv, Types
    <3>3. \A p \in Paths \ (late \cup missed') : Agrees(objs[o].files[p], tree[g][p])
          BY <1>1, <2>1, <2>2, <3>1 DEF IInv, Commits
    <3> QED BY <2>1, <2>2, <3>2, <3>3 DEF Agrees, Dirty
  <2> QED BY <1>1, <2>3, <2>4, OnlyGitCommits
<1>2. IInv /\ [Next]_vars =>
         [\A r \in Requests : job[r].at = "applying" /\ job'[r].at = "committed"
             => Taken(r)]_vars
      BY <1>1
<1> QED BY <1>2, Invariance, PTL DEF Spec, CommitTakesLoadedChanges
=============================================================================
