-------------------------------- MODULE Server --------------------------------
(***************************************************************************)
(* The service from end to end: uptime testers and other users, the client *)
(* package, the handlers of the HTTP server with their metrics, and behind *)
(* them either the memory backend, a map that all handlers use without a   *)
(* lock, or a backend with a remote, of which only what it promises (see   *)
(* RestStore) and how it counts its retries is known here.                 *)
(***************************************************************************)
EXTENDS RestOperations, Naturals, Sequences, FiniteSetsExt

CONSTANTS
    Clients,      \* processes that send requests, one at a time each
    ScriptOf,     \* the requests of one action of a client, in order
    NamesFor,     \* the pairs of names its random choice may come to
    MaxActions,   \* how many actions each client goes through
    Backends,     \* the values of BACKEND_TYPE: "memory", "remote"
    Found,        \* the trees a remote may hold when the process starts
    MaxRetries,   \* the most retries of all requests together
    MaxTimeouts,  \* how many actions run out of time
    MetricsPath   \* the name /metrics

Methods == {"GET", "POST", "PUT", "DELETE", "PATCH"}

(* What a client may ask for, at the first or the second of its names.       *)
Asks == [verb : {"POST", "PUT"}, name : {1, 2}, body : Bodies]
          \cup [verb : {"GET", "DELETE", "PATCH"}, name : {1, 2}, body : {NoFile}]

ASSUME ServerAssumption ==
    /\ IsFiniteSet(Clients)
    /\ MaxActions \in [Clients -> Nat] /\ MaxRetries \in Nat /\ MaxTimeouts \in Nat
    /\ Backends \subseteq {"memory", "remote"}
    /\ MetricsPath \in Paths
    /\ Found \subseteq Trees
    /\ NamesFor \in [Clients -> SUBSET (Paths \X Paths)]
    /\ ScriptOf \in [Clients -> Seq(Asks) \ {<<>>}]

VARIABLES
    backend,   \* which backend the process was started with
    up,        \* whether it still runs
    data,      \* what the backend holds
    strays,    \* writes a remote backend lost sight of
    raced,     \* two handlers have changed the memory backend's map at once:
               \* from then on it need not answer with what data says
    handlers,  \* the running calls of HandleRequest
    requestCount, retryCount,
    at,        \* each client is idle, ready, waiting, or finished
    step,      \* which request of its script it is at
    names,     \* the two names of its current action
    serial,    \* how many requests it has sent
    reply,     \* the status it got for the last one
    stats,     \* its TestStats
    \* history, read by the properties only
    arrived,   \* how many requests have to be counted
    givenUp,   \* how many of them had no client any more when they were answered
    excused    \* clients whose current action has a reason to fail

serverVars  == <<backend, up, data, strays, raced, handlers, requestCount, retryCount>>
clientVars  == <<at, step, names, serial, reply, stats>>
history     == <<arrived, givenUp, excused>>
vars == <<serverVars, clientVars, history>>

NoReply == 0
Broken  == 1     \* the connection ended without a status

Codes == {NoReply, Broken, 200, 201, 204, 404, 405, 409, 500}

Handlers == [from : Clients, n : Nat, verb : Methods, path : Paths,
             body : Bodies \cup {NoFile}, retries : 0..MaxRetries, code : Codes,
             pc : {"received", "assigning", "count", "counted", "flush"}]
Counts   == [good : Nat, bad : Nat]

(* status is still "" if the handler panics.                                *)
Labels == Methods \X {"success", "error", ""} \X BOOLEAN

Init ==
    /\ backend \in Backends
    /\ up = TRUE
    /\ data \in IF backend = "memory" THEN {[x \in Paths |-> NoFile]} ELSE Found
    /\ strays = {}
    /\ raced = FALSE
    /\ handlers = {}
    /\ requestCount = [l \in Labels |-> 0]
    /\ retryCount = [v \in Methods |-> 0]
    /\ at = [c \in Clients |-> "idle"]
    /\ step = [c \in Clients |-> 1]
    /\ names = [c \in Clients |-> <<MetricsPath, MetricsPath>>]
    /\ serial = [c \in Clients |-> 0]
    /\ reply = [c \in Clients |-> NoReply]
    /\ stats = [c \in Clients |-> [requests |-> [good |-> 0, bad |-> 0],
                                   actions  |-> [good |-> 0, bad |-> 0]]]
    /\ arrived = 0
    /\ givenUp = 0
    /\ excused = {}

-----------------------------------------------------------------------------
(* The uptime tester and the client package.                                *)

ActionsOf(c) == stats[c].actions.good + stats[c].actions.bad
Busy(c)      == at[c] \in {"ready", "waiting"}
NamesOf(c)   == {names[c][ScriptOf[c][i].name] : i \in DOMAIN ScriptOf[c]}

(* The next tick: two random names.  Somebody else may have come to the     *)
(* same ones, or they may be in use.                                        *)
BeginAction(c) ==
    /\ at[c] = "idle"
    /\ ActionsOf(c) < MaxActions[c]
    /\ \E chosen \in NamesFor[c] :
         LET slots   == {ScriptOf[c][i].name : i \in DOMAIN ScriptOf[c]}
             mine    == {chosen[i] : i \in slots}
             sharers == {e \in Clients \ {c} : Busy(e) /\ NamesOf(e) \cap mine # {}}
             taken   == \/ Cardinality(mine) < Cardinality(slots)
                        \/ ~up \/ raced \/ MetricsPath \in mine
                        \/ \E x \in mine : data[x] # NoFile
                        \/ \E h \in handlers : h.path \in mine
                        \/ \E o \in strays : o.path \in mine
         IN  /\ names' = [names EXCEPT ![c] = chosen]
             /\ excused' = (excused \ {c}) \cup sharers
                             \cup (IF taken \/ sharers # {} THEN {c} ELSE {})
    /\ at' = [at EXCEPT ![c] = "ready"]
    /\ step' = [step EXCEPT ![c] = 1]
    /\ UNCHANGED <<serverVars, serial, reply, stats, arrived, givenUp>>

(* One more outcome, good or bad.                                           *)
Tally(counts, good) ==
    IF good THEN [counts EXCEPT !.good = @ + 1] ELSE [counts EXCEPT !.bad = @ + 1]

(* RecordHTTPRequest.                                                       *)
RecordRequest(c, good) == [stats EXCEPT ![c].requests = Tally(@, good)]

(* RecordAction, after the request that ended the action.                   *)
RecordAction(c, good) ==
    [RecordRequest(c, good) EXCEPT ![c].actions = Tally(@, good)]

(* The first error ends the action.                                         *)
Fail(c) ==
    /\ at' = [at EXCEPT ![c] = "idle"]
    /\ stats' = RecordAction(c, FALSE)
    /\ reply' = [reply EXCEPT ![c] = NoReply]
    /\ UNCHANGED step

Send(c) ==
    LET ask == ScriptOf[c][step[c]]
        h == [from |-> c, n |-> serial[c] + 1, verb |-> ask.verb,
              path |-> names[c][ask.name], body |-> ask.body,
              pc |-> "received", retries |-> 0, code |-> NoReply]
    IN  /\ at[c] = "ready"
        /\ up
        /\ handlers' = handlers \cup {h}
        /\ serial' = [serial EXCEPT ![c] = @ + 1]
        /\ at' = [at EXCEPT ![c] = "waiting"]
        /\ arrived' = IF h.path = MetricsPath THEN arrived ELSE arrived + 1
        /\ UNCHANGED <<backend, up, data, strays, raced, requestCount, retryCount,
                       step, names, reply, stats, givenUp, excused>>

(* Nobody listens.                                                          *)
SendFails(c) ==
    /\ at[c] = "ready"
    /\ ~up
    /\ Fail(c)
    /\ UNCHANGED <<serverVars, names, serial, history>>

(* The status client.GET, POST, PUT and DELETE take for success.            *)
Expected(verb) ==
    CASE verb = "GET" -> 200
      [] verb = "POST" -> 201
      [] verb \in {"PUT", "DELETE"} -> 204
      [] OTHER -> 405

(* Mutant: the step is counted on behind the last one.                      *)
ReceivePastEnd(c) ==
    LET good == reply[c] = Expected(ScriptOf[c][step[c]].verb)
        last == step[c] = Len(ScriptOf[c])
    IN  /\ at[c] = "waiting"
        /\ reply[c] # NoReply
        /\ IF ~good
             THEN Fail(c)
             ELSE /\ reply' = [reply EXCEPT ![c] = NoReply]
                  /\ at' = [at EXCEPT ![c] = IF last THEN "idle" ELSE "ready"]
                  /\ step' = [step EXCEPT ![c] = @ + 1]
                  /\ stats' = IF last THEN RecordAction(c, TRUE) ELSE RecordRequest(c, TRUE)
        /\ UNCHANGED <<serverVars, names, serial, history>>

(* The client has the status, and the tester goes on or gives up.           *)
Receive(c) ==
    LET good == reply[c] = Expected(ScriptOf[c][step[c]].verb)
        last == step[c] = Len(ScriptOf[c])
    IN  /\ at[c] = "waiting"
        /\ reply[c] # NoReply
        /\ IF ~good
             THEN Fail(c)
             ELSE /\ reply' = [reply EXCEPT ![c] = NoReply]
                  /\ at' = [at EXCEPT ![c] = IF last THEN "idle" ELSE "ready"]
                  /\ step' = IF last THEN step ELSE [step EXCEPT ![c] = @ + 1]
                  /\ stats' = IF last THEN RecordAction(c, TRUE) ELSE RecordRequest(c, TRUE)
        /\ UNCHANGED <<serverVars, names, serial, history>>

(* The minute of the action is over; the handler goes on without its client. *)
Timeout(c) ==
    /\ at[c] = "waiting"
    /\ givenUp < MaxTimeouts
    /\ Fail(c)
    /\ excused' = excused \cup {c}
    /\ givenUp' = givenUp + 1
    /\ UNCHANGED <<serverVars, names, serial, arrived>>

-----------------------------------------------------------------------------
(* HandleRequest.                                                           *)

Awaited(h) == at[h.from] = "waiting" /\ serial[h.from] = h.n /\ reply[h.from] = NoReply

Becomes(h, g) == handlers' = (handlers \ {h}) \cup {g}

(* Handler steps that touch neither the clients nor the counters.           *)
Within ==
    UNCHANGED <<backend, up, raced, requestCount, retryCount, clientVars, arrived, givenUp>>

(* Mutant: every success is a 200.                                          *)
StatusAlwaysOk(verb, code) ==
    CASE code = "ok" -> 200
      [] code = "notFound" -> 404
      [] code = "conflict" -> 409
      [] OTHER -> 500

(* The status for what the backend said.                                    *)
Status(verb, code) ==
    CASE code = "ok" /\ verb = "GET" -> 200
      [] code = "ok" /\ verb = "POST" -> 201
      [] code = "ok" /\ verb \in {"PUT", "DELETE"} -> 204
      [] code = "notFound" -> 404
      [] code = "conflict" -> 409
      [] OTHER -> 500

(* Mutant: handleError passes the retries on.                               *)
WriteRetries(h, code, n) ==
    Becomes(h, [h EXCEPT !.pc = "count", !.code = Status(h.verb, code), !.retries = n])

(* The handler writes the status and returns; handleError knows of no       *)
(* retries.                                                                 *)
Write(h, code, n) ==
    Becomes(h, [h EXCEPT !.pc = "count", !.code = Status(h.verb, code),
                         !.retries = IF code = "ok" THEN n ELSE 0])

(* /metrics is answered whatever the method is, and not counted.            *)
Scrape(h) ==
    /\ h.pc = "received" /\ h.path = MetricsPath
    /\ Becomes(h, [h EXCEPT !.pc = "flush", !.code = 200])
    /\ Within /\ UNCHANGED <<data, strays, excused>>

Received(h) == h.pc = "received" /\ h.path # MetricsPath

NotAllowed(h) ==
    /\ Received(h) /\ h.verb = "PATCH"
    /\ Becomes(h, [h EXCEPT !.pc = "count", !.code = 405])
    /\ Within /\ UNCHANGED <<data, strays, excused>>

(* A body cannot be read to its end when the client has gone.               *)
BodyBreaks(h) ==
    /\ Received(h) /\ h.verb \in {"POST", "PUT"} /\ ~Awaited(h)
    /\ Write(h, "error", 0)
    /\ Within /\ UNCHANGED <<data, strays, excused>>

Operation(h) == [verb |-> h.verb, path |-> h.path, body |-> h.body]

AtBackend(h, kind) == Received(h) /\ h.verb # "PATCH" /\ backend = kind

(* The memory backend: a Go map, used without a lock.  A handler looks its   *)
(* path up, and then sets or deletes it, which takes its time.              *)
UsesMap(h) == h.pc = "assigning" \/ AtBackend(h, "memory")

(* Go promises nothing for what uses a map that somebody else is changing,   *)
(* or that two have changed at once.                                        *)
Disturbed(h) == raced \/ \E g \in handlers \ {h} : g.pc = "assigning"

(* What the map may answer about the path of h.                             *)
MapAnswers(h) ==
    {data} \cup IF Disturbed(h)
                THEN {[data EXCEPT ![h.path] = v] : v \in Bodies \cup {NoFile}}
                ELSE {}

(* Mutant: DELETE only looks.                                               *)
LookupNoDelete(h) ==
    /\ AtBackend(h, "memory")
    /\ \E found \in MapAnswers(h) :
         /\ IF Writes(Operation(h), found) /\ h.verb # "DELETE"
              THEN Becomes(h, [h EXCEPT !.pc = "assigning"])
              ELSE Write(h, Outcome(Operation(h), found).code, 0)
         /\ excused' = IF found = data THEN excused ELSE excused \cup {h.from}
    /\ Within /\ UNCHANGED <<data, strays>>

Lookup(h) ==
    /\ AtBackend(h, "memory")
    /\ \E found \in MapAnswers(h) :
         /\ IF Writes(Operation(h), found)
              THEN Becomes(h, [h EXCEPT !.pc = "assigning"])
              ELSE Write(h, Outcome(Operation(h), found).code, 0)
         /\ excused' = IF found = data THEN excused ELSE excused \cup {h.from}
    /\ Within /\ UNCHANGED <<data, strays>>

Assign(h) ==
    /\ h.pc = "assigning"
    /\ data' = [data EXCEPT ![h.path] = h.body]
    /\ Write(h, "ok", 0)
    /\ Within /\ UNCHANGED <<strays, excused>>

(* Two that change the map at once spoil it, and nobody notices: the value   *)
(* of one is stored in a place the other has moved the table away from, say. *)
(* Any entry may be wrong or missing from then on.                          *)
MapSpoiled ==
    /\ \E h, g \in handlers : h # g /\ h.pc = "assigning" /\ g.pc = "assigning"
    /\ ~raced
    /\ raced' = TRUE
    /\ excused' = Clients
    /\ UNCHANGED <<backend, up, data, strays, handlers, requestCount, retryCount,
                   clientVars, arrived, givenUp>>

(* It may be noticed, as a panic, after which net/http closes the connection *)
(* and the deferred function still counts (an entry that is there all the    *)
(* same is MapSpoiled before the panic), ...                                *)
Panics(h) ==
    /\ UsesMap(h) /\ Disturbed(h)
    /\ Becomes(h, [h EXCEPT !.pc = "count", !.code = Broken])
    /\ excused' = excused \cup {h.from}
    /\ Within /\ UNCHANGED <<data, strays>>

(* ... or by Go, which then stops the process, with everything it holds.    *)
MapRace ==
    /\ \E h \in handlers : UsesMap(h) /\ Disturbed(h)
    /\ up' = FALSE
    /\ handlers' = {}
    /\ reply' = [c \in Clients |-> IF at[c] = "waiting" /\ reply[c] = NoReply
                                     THEN Broken ELSE reply[c]]
    /\ excused' = Clients
    /\ UNCHANGED <<backend, data, strays, raced, requestCount, retryCount,
                   at, step, names, serial, stats, arrived, givenUp>>

(* The sum of f over the finite set S; most terms are 0.                    *)
SumOf(f, S) == LET term(x) == f[x] IN MapThenSumSet(term, {x \in S : f[x] # 0})

(* The bound on the retries of all requests together.                       *)
Retriable(n) ==
    LET pending == [h \in handlers |-> h.retries]
    IN  n + SumOf(retryCount, Methods) + SumOf(pending, handlers) <= MaxRetries

RetriesLeft == {n \in 0..MaxRetries : Retriable(n)}

(* A backend with a remote, after some retries.                             *)
RemoteAnswers(h) ==
    /\ AtBackend(h, "remote")
    /\ \E n \in RetriesLeft : Write(h, Outcome(Operation(h), data).code, n)
    /\ data' = Effect(Operation(h), data)
    /\ Within /\ UNCHANGED <<strays, excused>>

(* It reports an error; a write may be applied all the same, at any time.   *)
RemoteFails(h) ==
    /\ AtBackend(h, "remote")
    /\ \E n \in RetriesLeft : Write(h, "error", n)
    /\ strays' = IF IsWrite(Operation(h)) THEN strays \cup {Operation(h)} ELSE strays
    /\ excused' = excused \cup {h.from}
    /\ Within /\ UNCHANGED data

RemoteApplies ==
    /\ \E o \in strays : data' = Effect(o, data) /\ strays' = strays \ {o}
    /\ UNCHANGED <<backend, up, raced, handlers, requestCount, retryCount, clientVars, history>>

(* The label: what the handler returned to HandleRequest.                   *)
Success(h) == h.code \in {200, 201, 204}

StatusOf(h) == IF Success(h) THEN "success" ELSE IF h.code = Broken THEN "" ELSE "error"

CountOne(h) ==
    /\ h.pc = "count"
    /\ Becomes(h, [h EXCEPT !.pc = IF h.retries > 0 THEN "counted" ELSE "flush"])
    /\ UNCHANGED <<backend, up, data, strays, raced, retryCount, clientVars, history>>

(* Mutant: only successes are counted.                                      *)
CountSuccess(h) ==
    LET label == <<h.verb, "success", h.retries > 0>>
    IN  /\ CountOne(h)
        /\ requestCount' = IF Success(h) THEN [requestCount EXCEPT ![label] = @ + 1]
                                         ELSE requestCount

(* The deferred function of HandleRequest: it counts the request, ...       *)
CountRequest(h) ==
    LET label == <<h.verb, StatusOf(h), h.retries > 0>>
    IN  /\ CountOne(h)
        /\ requestCount' = [requestCount EXCEPT ![label] = @ + 1]

(* ... and then its retries, if there are any.                              *)
CountRetries(h) ==
    /\ h.pc = "counted"
    /\ retryCount' = [retryCount EXCEPT ![h.verb] = @ + h.retries]
    /\ Becomes(h, [h EXCEPT !.pc = "flush", !.retries = 0])
    /\ UNCHANGED <<backend, up, data, strays, raced, requestCount, clientVars, history>>

(* The handler has returned and net/http ends the answer.  (A long body is   *)
(* on its way earlier, but the client reads to the end of it.)              *)
Flush(h) ==
    /\ h.pc = "flush"
    /\ handlers' = handlers \ {h}
    /\ reply' = IF Awaited(h) THEN [reply EXCEPT ![h.from] = h.code] ELSE reply
    /\ UNCHANGED <<backend, up, data, strays, raced, requestCount, retryCount,
                   at, step, names, serial, stats, history>>

Handler(h) ==
    \/ Scrape(h) \/ NotAllowed(h) \/ BodyBreaks(h)
    \/ Lookup(h) \/ Assign(h) \/ Panics(h) \/ RemoteAnswers(h) \/ RemoteFails(h)
    \/ CountRequest(h) \/ CountRetries(h) \/ Flush(h)

Client(c) == BeginAction(c) \/ Send(c) \/ SendFails(c) \/ Receive(c)

Next ==
    \/ \E c \in Clients : Client(c) \/ Timeout(c)
    \/ \E h \in handlers : Handler(h)
    \/ MapSpoiled \/ MapRace \/ RemoteApplies

Spec == Init /\ [][Next]_vars

-----------------------------------------------------------------------------
(* Properties.                                                              *)

(* Every variable has its type.                                             *)
TypeOK ==
    /\ backend \in Backends /\ up \in BOOLEAN
    /\ data \in Trees
    /\ strays \subseteq Operations /\ raced \in BOOLEAN
    /\ handlers \subseteq Handlers
    /\ \A h \in handlers : h.n \in 1..serial[h.from]
    /\ requestCount \in [Labels -> Nat] /\ retryCount \in [Methods -> Nat]
    /\ at \in [Clients -> {"idle", "ready", "waiting"}]
    /\ step \in [Clients -> Nat] /\ \A c \in Clients : step[c] \in DOMAIN ScriptOf[c]
    /\ names \in [Clients -> Paths \X Paths]
    /\ serial \in [Clients -> Nat]
    /\ reply \in [Clients -> Codes]
    /\ stats \in [Clients -> [requests : Counts, actions : Counts]]
    /\ \A c \in Clients : ActionsOf(c) <= MaxActions[c]
    /\ arrived \in Nat /\ givenUp \in Nat
    /\ excused \subseteq Clients

(* What of the counters and of the requests the two sides can compare: the  *)
(* labels of successes (what a user of PATCH waits for is the refusal), the *)
(* successes each client has seen, the requests still to be counted.        *)
Successes == {l \in Labels : l[2] = "success" \/ l[1] = "PATCH"}
Seen      == [c \in Clients |-> stats[c].requests.good]
Uncounted == {h \in handlers : h.path # MetricsPath /\ h.pc \notin {"counted", "flush"}}

(* request_count and the tester's own statistics tell the same story while  *)
(* the process lives: every request that arrived is counted once or still   *)
(* being served; a success the tester has seen is counted; a counted success *)
(* was or will be seen, unless its client has given up.                     *)
CountersAgree ==
    LET waiting == {c \in Clients : at[c] = "waiting"}
        counted == SumOf(requestCount, Successes)
        seen    == SumOf(Seen, Clients)
    IN  up => /\ SumOf(requestCount, Labels) + Cardinality(Uncounted) = arrived
              /\ seen <= counted
              /\ counted <= seen + Cardinality(waiting) + givenUp

(* What the retry counters mean: they are about requests that succeeded in   *)
(* the end.  A request that failed after retries is counted as one without   *)
(* (server.go:76-81), and the memory backend never adds to them.  The two     *)
(* counters are set one after the other (:50, :54): a scrape in between, or   *)
(* another handler, finds a request with retries whose retries are missing,  *)
(* but never retries without their request.                                 *)
RetriesAreOfSuccesses ==
    \A v \in Methods :
       LET halfway == {h \in handlers : h.verb = v /\ h.pc = "counted"}
           retried == requestCount[<<v, "success", TRUE>>]
           added   == retried - Cardinality(halfway)
       IN  /\ requestCount[<<v, "error", TRUE>>] = 0
           /\ requestCount[<<v, "", TRUE>>] = 0
           /\ added <= retryCount[v]
           /\ retryCount[v] <= MaxRetries * added
           /\ backend = "memory" => retried = 0 /\ retryCount[v] = 0

(* An action of the tester fails only for a reason: a name in use or shared  *)
(* with somebody, no answer in time, a failing remote, or a map that two      *)
(* handlers used at once.  Requests on other paths that do not overlap with  *)
(* its own in the map never make it fail, and client and server agree on the *)
(* status of each verb.                                                     *)
FailsForAReason ==
    [][ \A c \in Clients :
          stats'[c].actions.bad > stats[c].actions.bad => c \in excused' ]_vars

IsWriteAt(c, i) == ScriptOf[c][i].verb \in {"POST", "PUT", "DELETE"}
LastWrite(c, i) ==
    /\ IsWriteAt(c, i)
    /\ \A j \in DOMAIN ScriptOf[c] :
         j > i /\ IsWriteAt(c, j) => ScriptOf[c][j].name # ScriptOf[c][i].name

(* An action that succeeds with names of its own leaves the first resource   *)
(* with its updated body and the second one deleted, whoever else is served  *)
(* at the same time, unless two writers have spoiled the map (main.go:142-205). *)
SuccessLeavesItsWrites ==
    [][ \A c \in Clients \ excused :
          stats'[c].actions.good > stats[c].actions.good =>
            \A i \in DOMAIN ScriptOf[c] :
               LastWrite(c, i) =>
                 data[names[c][ScriptOf[c][i].name]] = ScriptOf[c][i].body ]_vars
=============================================================================
