# git-backed-rest in TLA+

git-backed-rest serves GET, POST, PUT and DELETE over HTTP and keeps what it
stores in a git repository (or a map, or S3). These modules model the parts of
it in which order, concurrency and failure matter, model-check them with TLC
and prove the central ones with TLAPS. Paths below are relative to `src/`.

## The system

| component | state | operations | meets |
|---|---|---|---|
| contract (`api.go`, `errors.go`) | none | `APIBackend`: GET, POST, PUT, DELETE; errors that carry a status | every backend |
| gitprotocol backend (`backends/gitprotocol/api.go`, `api_impl.go`) | in-memory object store under `storeMtx`, `sessionMtx` (read-write), `writeMtx` | the four verbs, retries, one pack goroutine per push, one cleanup goroutine per process | the remote, over fetch and push; other processes only through the remote |
| gitprotocol tree editing (`api_impl.go`) | none | `setTreePath`, `getObjectAtPath`, `walkTree` | the remote's check that a pushed tree is complete |
| gitporcelain backend (`backends/gitporcelain/api.go`) | one clone: work tree, index, local main | pull, stat, write or remove, `add --all`, commit, push, all unlocked | the remote; its own concurrent requests, through the work tree |
| s3 backend (`backends/s3/api.go`) | none | HEAD, then PUT or DELETE; `CleanupPrefix` | the bucket |
| memory backend (`backends/memory/api.go`) | a map, unlocked | look up, then set or delete | concurrent handlers |
| HTTP server, metrics (`server/`) | counters | `HandleRequest`: route, call the backend, answer, count | backend below, client above |
| client, uptime tester (`client/`, `cmd/uptime_test/`) | `TestStats` | six requests per action, at random names, within a minute | the server |
| other commands, example, scripts, dashboards | configuration | one-shot tools, wiring | not part of the service |

What makes each of them right, and what makes that hard:

* **gitprotocol.** No update of main may vanish, and a request answered 2xx,
  404 or 409 must have met, at one instant during the call, a tree that calls
  for that answer. Hard because several processes write without knowing of each
  other, the tree a write checks is old by the time its push arrives, an error
  from `Push` does not say whether the push was applied, and pushes may arrive
  after their caller has gone. Inside a process, three locks, the pack
  goroutines and the ten-second cleanup must neither lose an object that is
  about to be sent nor stop one another.
* **tree editing.** A write changes its own path only, and the pack holds what
  the remote lacks. Hard because directories are rebuilt by hand.
* **gitporcelain.** What was answered with success must be on the remote, and an
  answer must be no older than the call. Hard because requests share one work
  tree and index without a lock, nothing is retried, and a refused push leaves
  its commit behind.
* **s3 and memory.** Check and write are two steps, and whoever meets no other
  write must not notice. The SDK sends again what got no answer.
* **server, metrics, client, tester.** The counters, the client's statuses and
  the tester's statistics must tell one story, and an action may fail only for
  a reason. Hard because counters are written after the answer, one after the
  other, the tester leaves after a minute while the handler goes on, and the memory
  backend's unlocked map may lose a write, panic, or stop the process.

`hazards` in `PROJECT.json` lists the dangerous places by line.

## Modules

| module | what it is |
|---|---|
| `RestOperations` | the four verbs as pure operators on a tree (path to body): what they answer and what they leave. Read off the memory backend, one call at a time |
| `RestStore` | the abstract specification: what callers of `APIBackend` may rely on |
| `GitProtocol` | the gitprotocol backend: servers, their locks, requests, attempts, packers, the remote, faults; properties; refinement of `RestStore` |
| `GitProtocolInv` | the inductive invariants, in named parts |
| `GitProtocolProofs` | linearizability, no lost update, final answers |
| `GitProtocolSharingProofs` | what the three locks and the counting of lost answers give |
| `GitProtocolRefinementProofs` | `GitProtocol` implements `RestStore` |
| `TreePath`, `TreePathInv`, `TreePathProofs` | tree editing with nested paths and directories made by git itself, the invariant, proofs |
| `GitPorcelain`, `GitPorcelainInv`, `GitPorcelainProofs` | the shared clone, its inductive invariant, proofs |
| `S3Backend`, `S3BackendInv`, `S3BackendProofs` | the s3 backend and `CleanupPrefix`, the invariant, proofs |
| `Server`, `ServerInv` | tester, client, handlers, metrics and the memory backend end to end, the invariant |
| `ServerProofs` | types, retries, and what becomes of an action that nobody disturbs |
| `ServerAgreementProofs` | counters and statistics agree, with the lemmas about sums this takes |
| `MC...` | the instances for TLC, one module per model |

Each `...Inv` extends its model, the `...Proofs` and `MC...` modules extend the
`...Inv`. `GitProtocol` instantiates `RestStore`. All models build on
`RestOperations`, so "what a map would answer" is one definition for all backends.

### RestStore: the promise

One tree. Every call is executed once (`Execute`) between call and return and
answered with what it found there. Two things are conceded. A result that
changed nothing may be forgotten and found again (`Forget`: a refused attempt,
a GET whose blob could not be fetched). And a write the backend lost sight of
may be executed without an answer (`Stray`), even after the caller was told 500
or the server crashed. It may never be executed after a 2xx, a 404 or a 409.
`Stray` may also precede the answered execution of the same request: a PUT
whose first push was applied unheard is applied again by its retry, and a POST
in that position is answered 409 because of its own file. The code does both.

### GitProtocol: state and actions

The remote is `main`, a sequence of commits, each with its tree, and `pushes`,
the complete pushes on their way. A commit is named by its position, which the
remote's compare-and-swap may do because a commit name fixes all history below
it. Git would give two commits one name if the same tree was committed on the
same parent in the same second; then the second push is a push of what is
already there, and this is left out.

A request walks through `pc`:

| `pc` | code |
|---|---|
| `idle`, `rlock`, `wlock` | before the call; waiting for `sessionMtx.RLock`; waiting for `writeMtx` |
| `start` | `getReadConnection`, `getMainHash` (`ReadMain`) |
| `fetch` | `fetchTree`, under `storeMtx`, and the checks of `updateFile` or `simpleGET` (`FetchForUpdate`, `FetchForGet`) |
| `blob` | `getObjectByHash` (`ReadBlob`) |
| `build` | `createBlobHash`, `addToTree`, `createCommit` (`BuildCommit`) |
| `connect`, `push` | `getWriteConnection`, `buildPackfile`; `Push` reads the pipe (`OpenPush`, `SendPack`, `PushBreaks`) |
| `await` | the pack is sent, the report is not yet read (`PushAccepted`, `PushRefused`, `ReplyLost`) |
| `backoff` | between two attempts of `backoff.Retry` (`Retry`, `GiveUp`) |
| `return` | the deferred unlocks (`Return`) |

`PackerLock`, `SendPack` and `PackerExit` are the goroutine of `buildPackfile`;
`Tick` and `Clean` the one of `newSession`; `PushUnheard` is a remote whose
answer nobody reads; `Crash` ends a process and starts another.

Choices worth knowing:

* `storeMtx` is an owner variable only for packers, the one holder that keeps it
  over several steps. Every other critical section is one action, enabled
  while no packer holds the lock. A fetch under the lock is one action too: it
  either succeeds or breaks (`NetworkFails`).
* The three short sections of `createBlobHash`, `addToTree` and `createCommit`
  are one action: they add objects under fresh names that no other request
  looks up, so nobody can tell them apart. The store holds what a push needs
  (the commit, standing for its tree, and the blob) and the blobs GET caches.
* A fetched commit is read in the same critical section, so the cleanup (which
  waits for all requests) cannot take it away and it is not kept in `store`.
* `NetworkFails`, `PushBreaks` and `ReplyLost` happen at any time, as often as
  there are attempts. A broken `Push` may or may not have closed the pipe
  (`leftOpen`): `pushCommit` never closes it, so this depends on how the
  transport fails.
* Two errors of `Push` are final for `updateFile` (api_impl.go:145): "malformed unpack
  status", a report cut short (`ReplyLost`), and "encoding packfile", an object that the
  pack lacks, which does not happen (`PackObjectsKept`). Every other one is retried, a
  refusal included.
* `MaxRetries` stands for the time after which backoff gives up. `GiveUp` is
  enabled from the first failure on, because elapsed time and a cancelled
  context can end the retries at any attempt.
* The repository has a main branch with at least one commit. Without one,
  `getMainHash` returns the zero hash and every request fails in `fetchTree`.
* Paths are single names; `TreePath` is about the others. Bodies are opaque.

`began` and `unheard` are history variables that only properties read.

### TreePath

An object is its own hash. `SetTreePath`, `WalkTree` and `ObjectAtPath` are what
the functions of the code do, including what they get wrong: `setTreePath`
gives a rebuilt directory the mode of a file, and `getObjectAtPath` only looks
at the top tree. Where the code recurses, the model has a function over the
levels: `Along` and `SetTreePath` over the levels of the path (down to find the
trees, up to rebuild them), `Levels` over those of the tree that `walkTree`
walks. `Depth` bounds how deep the directories are that git made; the backend makes
none, because its own have the mode of a file. The remote accepts a new tree if every object below it is in
the pack or was reachable from main; objects that an older commit left behind
on the remote are not counted on. `due` is the tree README.md describes, kept
by `RestOperations` beside the real one.

Trees are sets of entries. Their order matters in one place: go-git's encoder
refuses a tree whose entries are not in git's order, in which a directory's name
ends in a slash. `Between` says for which names that differs from the order of
the bare names ("d" before "d.json", but "d.json" before "d/"), and `Unsorted`
when `setTreePath` gets it wrong.

### S3Backend

| `pc` | code |
|---|---|
| `idle`, `get`, `head` | before the call; `GetObject`; `HeadObject` |
| `write` | about to send PutObject or DeleteObject (`Send`) |
| `await`, `answered` | sent; carried out and answered, the answer on its way (`CarryOut`, `AnswerCame`, `NoAnswerCame`) |
| `done` | returned |

The bucket carries out each call at one instant and at any later time, also after the SDK
has given up on it and sent it again (`MaxAttempts` times in all; the SDK's
default is three) and after the caller has its answer. An error that the SDK takes for
final ends the sendings early, which to everybody else is an answer that did not
come and sendings that are not carried out. `HeadFailing` says for
which verbs HEAD may fail for another reason than a missing object. There is
no `RestStore` behind this backend: two POSTs of one path may both find it
absent, so the run asks for what is left of the promise.

### GitPorcelain

One clone per process, shared by all its requests, and the remote's `main`. A
commit is a record of its ancestors (as a set), its tree and its request; a
clone is `local` (its main), `index` and `work` (its files).

| `pc` | code |
|---|---|
| `idle`, `pull` | before the call; `pull` (`PullUpToDate`, `PullFastForward`, `PullRefused`, `PullFails`, `PullBreaks`) |
| `stat`, `read` | `os.Stat` and the refusals; `os.ReadFile` |
| `write`, `fill`, `remove` | `os.WriteFile`, which first empties the file; `os.Remove` |
| `add`, `commit`, `push`, `sent` | the three commands of `commitAndPush`; `sent` is a push that the remote has not looked at |
| `done` | returned |

Choices worth knowing:

* Every git command is one step, except push. Any of them may fail, at any time
  and for a request that is alone too: git locks its index while it works, so a command
  that meets the lock of another, or of one that was killed, fails; a disk is full;
  git has no identity to commit with.
* A failed `git add` or `git commit` (`GitFails`) answers 500 and leaves the changed file
  where it is, in the work tree and perhaps in the index. Nothing in the code
  takes it back: the next GET of the process reads it, and the next write commits and pushes
  it along with its own. A fast-forward that breaks off (`PullBreaks`) leaves files half
  updated in the same way.
* Since git 2.33 `git pull` without a strategy refuses to merge branches that have
  diverged, and so it is here: no commit has two parents, and a clone that has
  diverged is stuck. An older git, or `pull.rebase`, would behave otherwise.
* `git add --all` and `git commit` take whatever is in the work tree and in the index,
  no matter which request put it there. `Torn` is what a file holds while it
  is being written; another request can commit it.
* A fast-forward changes the paths the remote changed, and is refused if one of
  them was changed here (`Mergeable`).
* The commands run without the request's context, so nothing is cancelled.
  A push may break off before or after the remote has it, and be applied
  later (`PushFails`, `PushUnheard`).
* `Directories` are paths that are directories, on which POST answers 409 and
  the others 404. A file call may fail for any other reason (`FileCallFails`,
  `WriteBreaks`).
* The clone is there when the model starts. A process does not start again on an
  existing clone: `git clone` would refuse.

`began`, `late`, `muddled` and `clashed` are read by properties only. A clone is
*muddled* once two of its requests were under way together, or a write, an add, a commit
or a pull broke off in it. `LinearUnlessMuddled` and `AnswersFresh` are about the clones that
are not: for the others both are false, as the failed commit above shows.
`SuccessIsPublished`, `BodyIsPublished`, `DivergedServesErrors` and `MainGrows` are about all.

### Server

| state | code |
|---|---|
| `at`, `step`, `names`, `serial`, `reply` | the tester's loop and `executeUserActions`; one request of the client at a time |
| `stats` | `TestStats` |
| `handlers`: `received`, `assigning`, `count`, `counted`, `flush` | calls of `HandleRequest`: before the backend, between look-up and assignment of the memory backend, before the deferred function, between its two counters, and after it |
| `requestCount`, `retryCount` | `RequestCount`, `RetryCount`, with their labels |
| `data`, `strays` | the memory backend's map, or the tree of a remote with the writes it lost sight of |
| `raced` | two handlers have changed the map at once, and nobody noticed |

Choices worth knowing:

* The client has its response when the handler has returned, after the deferred function
  has counted (`Flush`). A long body is on its way before, but ends only then, and
  `client.GET` reads to the end of it.
* The deferred function sets the two counters one after the other (`CountRequest`,
  `CountRetries`); a scrape or another handler may come in between.
* A request whose client has gone fails in reading its body, or goes on
  and is counted without anybody to hear of it.
* The memory backend looks a path up in one step and changes it in another, and in
  between lies all that `mapassign` and the store into the place it returned take
  (`assigning`). Go promises nothing for a map that is changed while somebody else uses
  it. A handler that uses the map while another changes it may find anything at its path
  (`MapAnswers`), may panic (`Panics`: the connection is closed, and the deferred
  function counts a request whose status is still ""), or may be found out by the
  runtime, which stops the process (`MapRace`). Two handlers that change it at once may also
  spoil it unnoticed, whatever their paths (`MapSpoiled`): a value lost when the
  table grew under it, an entry that is gone. From then on every look-up may find
  anything. The process does not start again.
* A backend with a remote is known by what `RestStore` promises: it answers as its
  tree calls for, after some retries, or reports an error and may still apply
  the write later.
* `handleError` does not hand on the retries, so a failed request is counted as one
  without (server.go:76-81). This is what the dashboards show, and
  `RetriesAreOfSuccesses` says so.
* The tester draws names at random, which always have two hyphens in them, so they are
  never `/metrics`; other clients may use that name. `excused` notes the actions that
  have a reason to fail: a name in use or shared, `/metrics` as a name (answered 200 to
  every method), no answer in time, a failing remote, a look-up that another handler's
  change of the map made wrong, and for all of them at once a map that two have changed
  together or a process that stopped.

## Runs

| run | instance | question | states |
|---|---|---|---|
| `gp_two` | two servers, one request of any verb each, one path, two bodies, one retry, broken networks, lost answers | are answers linearizable, is no update lost, is a definite answer final, is the promise kept | 1.1 M |
| `gp_one` | one server, two requests of any verb, cleanup, all faults, one retry | is the inductive invariant true, do packs keep their objects, can retries alone apply a write twice, does `writeMtx` do its work | 3.1 M |
| `gp_three` | two requests on one server, a write on another, two retries, crashes | the same promise when locked and unlocked writers meet, and when a server dies between push and answer | 0.7 M |
| `gp_live` | one server, a GET or POST and a PUT, failing network, abandoned packers, under fairness | does every call return, does the cleanup get its turn | 0.1 M |
| `tree_flat` | three names, two bodies, every repository over them, directories and a directory in a directory included | do calls on top-level names answer as documented, and touch nothing else | 3132 |
| `s3_serve` | two requests of any verb on one path, another path beside it, two sendings per call, a cleanup whose listing fits a page | is whoever meets no other write served as by a map, do answers say what was done, does the cleanup empty the prefix | 0.75 M |
| `porcelain` | two requests on one clone and one on another, one path beside a second, a directory, all faults, failing git commands among them | is a success published, with its body; is a commit the effect of its operation; are answers fresh; what does a diverged clone do | 1.76 M |
| `server` | a tester with its six requests and a client with POST and PATCH, names of their own and shared, `/metrics` among them; memory and remote backend | do counters, statuses and statistics agree; does an action fail only for a reason; does a success leave what it wrote | 1.32 M |
| `tree_nested` | one path with a directory, as in README.md's example | violated, see below | - |
| `tree_sorted` | a directory `d` and a new name that begins with it | violated, see below | - |
| `s3_head` | one POST, HEAD fails | violated, see below | - |
| `s3_cleanup` | two keys, one per page | violated, see below | - |

Why these bounds are enough to be worth running. All conflict is about one path
(writes on different paths conflict just the same, as pushes compare whole
commits, and the tree part is what `TreePath` checks). One retry gives two
attempts per request, which is the least that lets an abandoned push race the
attempt that replaced it; two requests with an abandoned push each give main up
to four new commits. `gp_three` has the only pattern two requests cannot show, two
writers that exclude each other against one that is not excluded; there two retries are
more than the other writers can force. Two bodies let a lost update show. In `gp_two` and
`gp_one` requests, servers and bodies are interchangeable together, and the
symmetry sets permute them together.

In `s3_serve` two requests are enough because every other caller only shows as
a change of the object, which the second request's three writes, sent twice
and delayed, produce in every order.

In `porcelain` two requests on one clone interleave all their commands, and a
third on another clone makes it fall behind, diverge, or lose the race of two
pushes. In `server` each client has one or two actions, requests together have two
retries and actions one timeout (`MaxActions`, `MaxRetries`, `MaxTimeouts`); a
handler left behind by its client then meets the client's next action, one request
may have two retries or two have one each, and a handler may be between its counters
while another one counts.

Runs end, so deadlock is not checked in any of these: requests are called once, the
cleanup is bounded by having nothing left to wait for, a crashed server's
requests do not come back, and a wedged server (below) really stops.

### Properties

Each one is stated above its definition. In short:

* `LinearHistory`: every commit of main is what its operation makes of the tree
  just below, and was allowed there. This is what `Old: oldHash` in the push buys.
* `AnswersLinearizable`: a definite answer is right for one head of main
  between call and answer.
* `DefiniteIsFinal`: after a definite answer no push of that request that is
  still on its way can be applied, not even one from an earlier attempt.
* `AppliedOncePerSilence`: a write is applied at most once per push whose
  answer was lost, plus once if it was answered with success.
* `PackObjectsKept`: the cleanup never removes an object that a push still has
  to pack. This is why requests hold `sessionMtx`.
* `LockKeepsBaseFresh`: with `lockWrites`, only another server, or an earlier
  push this server lost sight of, can make a write's push stale.
* `EveryCallReturns`, `CleanupRuns`: liveness, with one exception named
  `Wedged`. If `Push` fails without closing the pack's pipe, the goroutine of
  `buildPackfile` blocks on the pipe with `storeMtx` held, and no request of
  that process that needs a tree is answered again.
* `ImplementsRestStore`: the refinement. A request that reads or is refused
  executes when it reads the head of main; one that succeeds, when its push is
  accepted.
* `AnswersAsDocumented`, `OnlyAtPath`: every call on a tree answers as the
  documented tree does, and changes nothing outside its path.

* `AloneIsSequential` (s3): a request during which nobody else changed its object
  is answered as `RestOperations` says, or with an error, and a success leaves
  what it should. The gap between HEAD and PUT shows only to those who meet a write.
* `TookAsAnswered`: a refused request never changes the bucket, now or later; a
  success changed it at least once, and no oftener than it was sent.
* `CleanupEmpties`: `CleanupPrefix` leaves nothing if nobody writes meanwhile.
* `SuccessIsPublished` (gitporcelain): a write answered with success has a commit
  on the remote, whatever the requests of its clone did to each other.
* `BodyIsPublished`: the body of a success has been on main since the call, if no
  other request of the clone used its path. For DELETE this is not so: a
  pull of another request brings the file back before it is committed.
* `LinearUnlessMuddled`, `AnswersFresh`: while requests take turns and no write or git
  command but the push fails half way, every commit is the effect of its operation on its
  parent, and every definite answer is right for a tree no older than the remote's main at the
  call. That tree may be the clone's own, with a commit whose push was refused.
* `DivergedServesErrors`: a clone that has diverged answers every later request
  with an error. `MainGrows`: no push takes a commit off main.
* `CountersAgree` (server): every request that arrived is counted once or still
  served; the tester's successes and the counted ones differ only by
  requests that are on their way or were given up.
* `RetriesAreOfSuccesses`: the retry counters are about requests that succeeded. At any
  instant `retry_count` lies between one and `MaxRetries` times the requests counted with
  retries, less those whose handler is between the two counters.
* `FailsForAReason`: requests on other paths that do not overlap with those of an action in
  the memory backend's map never make it fail, and client and server agree on the status of
  each verb.
* `SuccessLeavesItsWrites`: an action that succeeds on names of its own leaves
  its last writes, whoever else is served meanwhile, unless two writers spoiled the map.

### Fairness

`FairSpec` assumes that every network call returns (with an answer or an
error) and timers fire: weak fairness of a request's unlocked steps. Steps that
take a lock have strong fairness: Go's `sync.Mutex` is starvation-free (a waiter
of a millisecond is handed the lock), and `sync.RWMutex` blocks new readers once
a writer waits and admits the waiting readers when it unlocks. `Clean` has weak
fairness because once it waits no new reader comes, so it stays enabled when
the last one is through. Nothing is assumed about a packer whose reader
left, about faults, or about calls being made.

### Findings

* `tree_nested`: README.md:30 documents `POST /users/alice/profile` as answered
  201 and README.md:51 says the path structure is arbitrary. `setTreePath`
  enters the rebuilt directory as a file (`api_impl.go:217, 226`), `walkTree`
  therefore does not pack the tree below, the remote refuses the push for a
  missing object, and the request is answered 500 when the retries end.
* `tree_sorted`: `api_impl.go:229` announces the order git requires and sorts by
  bare names. Next to a directory `d`, POST of `d.json` is answered 500.
* `s3_head`: `s3/api_test.go:72` expects a conflict for POST on an existing path.
  `s3/api.go:145` takes every error of HEAD for absence, and overwrites.
* `s3_cleanup`: `s3/api.go:291` promises to delete all objects; one page is listed.

TLC shows the first two in one step and the others in five and three.

What the models of the shared clone and the service also show, and no
document denies: a PUT of the content that is already there is answered 500
("nothing to commit"); so is a request whose change another request's commit took
along, although it is published; a write answered 500 after a refused push
is seen by later GETs of its process as long as the clone has not diverged, and may
be published by the next push; a half-written file may be published. The first
refused push makes the clone diverge, and from then on the process answers
every request with 500 until somebody repairs the clone. A write answered 500 because
git add or git commit failed stays in the work tree, is read by the next GET and
published by the next write, of whatever path. In the memory backend a write answered
204 may be lost to one of another path.

## Proofs

All theorems hold for all finite or infinite sets of servers, requests, paths
and bodies, for every value of the bounds and every choice of faults. The
assumptions are those named in the models: `NoFile` is no body, `NoOne` is no
request and no attempt, `Torn` is no body a client sends, the clients of `Server`
are finitely many, the constants have their types. Every model has `Spec => []IInv`
(`Invariance`; `FullInvariance` for `Server`) and `TypeCorrect`.

| module | theorems |
|---|---|
| `GitProtocolProofs` | `NoLostUpdate`, `DefiniteAnswersAreFinal`, `Linearizability`: `LinearHistory`, `DefiniteIsFinal`, `AnswersLinearizable` |
| `GitProtocolSharingProofs` | `PackedObjectsStay`, `RetriesApplyOnce`, `LockedWritesKeepTheirBase`: `PackObjectsKept`, `AppliedOncePerSilence`, `LockKeepsBaseFresh` |
| `GitProtocolRefinementProofs` | `Refinement`: `ImplementsRestStore` |
| `GitPorcelainProofs` | `SuccessHasACommit`, `SuccessHasItsBody`, `RemoteKeepsCommits`, `DivergedIsForGood`, `TurnsMakeALine`, `AnswersAreFresh`: all properties of the run |
| `TreePathProofs` | `AnswersAsDocumentedHolds`, if names are plain; `OnlyAtPathHolds`, if paths are top-level names |
| `S3BackendProofs` | `TookAsAnsweredHolds`; `AloneIsServedAsAlone`, if HEAD does not fail for POST; `CleanupSweeps`, if a listing holds every key |
| `ServerProofs` | `RetriesAreOfSuccessesHolds`; `SuccessLeavesItsWritesHolds`; `FailsForAReasonHolds`, if scripts are orderly |
| `ServerAgreementProofs` | `CountersAgreeHolds`, if reads follow |

The two conditions in `S3BackendProofs` are needed: `s3_head` and `s3_cleanup` are
what happens without them. So is `Plain` (`Flat`: paths are top-level names; and no name
begins another, `Between` is empty): `tree_nested` and `tree_sorted` show what happens
when the one or the other is not so. `OnlyAtPath` needs `Flat`, because a
write below a directory that git made turns that directory into a file. The two about scripts are of the kind of script only,
not of names, clients or timing, and the tester's script and the other client's in
`MCServer` meet both. `Orderly`: a script creates what is not there and reads,
updates and deletes what is, going by its own requests; any other script fails when
nobody disturbs it. `ReadsFollow`: it reads a name only after it has tried something
else there. A client whose first request is a GET of `/metrics` sees a success that no
counter has.

**gitprotocol.** None of the three properties of `GitProtocolProofs` is inductive:
that a push which the remote accepts is right depends on what the request
checked many steps before. `IInv` carries that knowledge. `BaseInv`: an attempt past
the checks has a base commit in main, no older than its call, on which its
operation is allowed. `PushInv`: a push on its way carries exactly the effect of its
operation on the commit it names as old, and names none above its request's
present base. `AnswerInv`: a success stands in main right above its base, every
other definite answer is what the base calls for. These stay true because main
only grows (`MainPrefix`) and a commit keeps its place. Then a push is applied
only if its old commit is the head, so `PushInv` at that moment is
`LinearHistory` for the new commit. `UnsentInv` and `PackerInv` tie a packer and
a push to the attempt they belong to, so an answer is never credited to the wrong
attempt. `DefiniteIsFinal` follows: a success is below the head its own
pushes name, and a refusal says that the operation is not allowed on the base,
while a push that could still be applied there is one that is allowed.

**Locks and lost answers.** `PackObjectsKept` is inductive beside the types: objects
leave the store only in `Clean`, which no request with `sessionMtx` shares its
time with. `LockKeepsBaseFresh` needs `MutexOf` (the writer at work holds
`writeMtx`) and `StrayOf` (a push that nobody waits for got no answer). For
`AppliedOncePerSilence`, `SilenceOf` counts: the commits of a request and its pushes
on their way are together no more than the answers it did not hear, plus one
if it waits for one or was answered with success.

**Refinement.** One lemma per action names the abstract step: `Call` and `Return`
are those of `RestStore`; `ReadMain` is `Execute` for a request that will be
refused or only reads; `PushAccepted` is `Execute` for a write; `NetworkFails`
may be `Forget`; `PushUnheard` is `Stray`; `Crash` is `Crash`; every other step
stutters. The side conditions, that the abstract operation is allowed at that
moment and answers as the code does, come from `IInv`.

**gitporcelain.** Two facts carry the invariant. As nothing is ever merged, the
commits below a commit form a line (`LineInv`); so a clone that has diverged stays
diverged, whatever is pushed. And a clone whose requests take turns, and where nothing broke
off half way, is clean between them (`TurnsInv`, `CleanInv`), so what a request stages and commits is its own
(`CheckedInv`, `EffectInv`). `BodyInv` follows the body of a write through the
work tree, the index and the commits of others: a pull may overwrite it only if
it was committed before.

**Tree editing.** `NewTree`: whatever the path, the new top tree is the old one with at
most one other entry, at the first name, so a tree keeps one entry per name
(`TypeOK`). `PackComplete` is the heart of `AnswersAsDocumented`: if the new tree differs
from the old in files whose blob is the changed one, all that is reachable
from it is in the pack of `walkTree` or was reachable before, at any depth
(`LevelsBelow`, level by level). So the remote takes every write to a plain name,
and `FilesInv`, that the files at the top are those due, is inductive.
That the functions over levels exist and obey their equations (`LevelsAre`,
`AlongIs`, `SetTreePathIs`) is proved from a least counterexample (`Induction`).

**s3.** Every sending of a write is on its way or was carried out (`CountInv`), so
an answer says which (`AnswerInv`); an undisturbed request still knows what is at
its path (`AloneInv`).

**Service, retries.** Between a handler's answer and its count the retries are in the
handler; `RetryInv` says that only a success of a remote backend has any. The handlers
between the two counters (`Halfway`) carry the difference: `CountRequest` adds one to
the requests and, if there are retries, one to them (`RetriesCounted`), `CountRetries` takes
one of them and adds its retries (`RetriesAdded`); every other step leaves all three alone.

**Service, requests.** `HandlerInv` and `AskedInv` tie a handler to the request its
client waits for: one handler per number, serving what was asked, gone or
past its answer once the client has a reply. All the steps that serve a request are
one kind of step, `Served` (a start, an answer, and a change of the data exactly with a
success of a write), which `ServingStep` shows once for the seven actions.
`UndisturbedInv` then follows an action that nobody disturbs: its names are its own
(`Alone`: no other action, handler or stray write is at them), the backend holds
there what its requests so far have left (`Story`, `Leaves`), and, for an orderly
script, every answer so far is the expected one (`Hopeful`). A handler whose client has
gone is harmless because an action whose client gives up is excused, and one that
finds such a handler at its names is too. A look-up that is wrong and a panic excuse the
action they happen to, a spoiled map all (`MapInv`), so for the others `data` is what the map
says.

**Service, counters.** `CountersAgree` is not inductive: that a success seen is
counted depends on what each client has still to see. `SumsInv` counts them: `ToSee`,
the clients with a counted success on its way; `Abandoned`, the requests to be counted that
no client waits for. `MetricsInv` keeps `/metrics` apart, which answers and is not counted. `SumOf` is
a fold; that it adds up (`TotalSplit`, `SumSame`, `SumGrows`) rests on unfolding one
element at a time. The library's induction theorems cannot be used here, so
`SubsetInduction` is had from the well-founded order of the subsets of a finite
set instead: a set of counterexamples has a least member.

TLC checks every `IInv` in a run. Only model-checked: liveness (`EveryCallReturns`,
`CleanupRuns`), which the provers do not reach.

## Not modelled

* `createrepo.go`, `cmd/gitcleanup/`, `cmd/create_repo/`, `examples/`, `monitoring/`,
  `presentation/`, `scripts/`: one-shot calls of the GitHub API, an example,
  dashboards. They keep no state and run nothing concurrently with the service.
* The wiring of `cmd/server`, beyond the choice of a backend.
* The duration histogram and the uptime gauge: times that nothing depends on.
* Error texts and wrapping, tracing, logging, content types, commit authors and
  dates.
* s3 prefixes as strings: `buildKey` joins, and a listing for one prefix also
  matches the keys of a prefix that it begins.
* The git wire protocol below handshake, fetch and push.
* Restarts of the gitporcelain backend and of a stopped server process: both
  need somebody from outside.

What could come next: one gitprotocol server without `lockWrites`; three requests
with failing networks, which at present takes too long to check; a gitporcelain
clone under an older git that merges.
