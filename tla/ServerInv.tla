------------------------------- MODULE ServerInv -------------------------------
(***************************************************************************)
(* The inductive invariant of Server, in three parts: the types and the    *)
(* counters of retries; what is counted against what is seen; and what an  *)
(* action finds that nobody disturbs.                                      *)
(***************************************************************************)
EXTENDS Server

-----------------------------------------------------------------------------
(* Types and retries.                                                        *)

(* A client at work has an action left to account for.                      *)
SpareInv == \A c \in Clients : at[c] # "idle" => ActionsOf(c) < MaxActions[c]

(* A request carries a body if its verb has one.                            *)
BodyInv ==
    \A h \in handlers :
       IF h.verb \in {"POST", "PUT"} THEN h.body \in Bodies ELSE h.body = NoFile

(* Only a success of a backend with a remote brings retries to be counted.  *)
RetryInv ==
    \A h \in handlers :
       /\ h.retries > 0 =>
            h.pc \in {"count", "counted"} /\ Success(h) /\ backend = "remote"
       /\ h.pc = "counted" => h.retries > 0

(* The map is the memory backend's; once it is spoiled anything may fail.    *)
MapInv ==
    /\ \A h \in handlers : h.pc = "assigning" => backend = "memory"
    /\ raced => backend = "memory" /\ excused = Clients

TypesInv == TypeOK /\ SpareInv /\ BodyInv /\ RetryInv /\ MapInv

-----------------------------------------------------------------------------
(* Requests and their answers.                                               *)

(* h serves the request its client waits for.                               *)
Current(h)  == at[h.from] = "waiting" /\ serial[h.from] = h.n
Answered(h) == h.pc \in {"count", "counted", "flush"}
AskOf(c)    == ScriptOf[c][step[c]]
Good(c)     == reply[c] = Expected(AskOf(c).verb)

(* What a handler answered is the status its client takes for success        *)
(* exactly if it is counted as one; /metrics always answers 200.            *)
FitHandler(h) ==
    /\ Answered(h) => h.code # NoReply
    /\ h.pc = "assigning" => h.verb \in {"POST", "PUT", "DELETE"}
    /\ IF h.path = MetricsPath
         THEN h.pc # "received" => h.pc = "flush" /\ h.code = 200
         ELSE Answered(h) => (h.code = Expected(h.verb) <=> Success(h) \/ h.verb = "PATCH")

(* There is one handler per request.                                         *)
HandlerInv ==
    /\ IsFiniteSet(handlers)
    /\ \A h, g \in handlers : g.from = h.from /\ g.n = h.n => g = h
    /\ \A h \in handlers : FitHandler(h)

(* A handler a client waits for serves what the client asked, and has not     *)
(* sent the answer.                                                         *)
AskedFor(h) ==
    Current(h) =>
      /\ h.verb = AskOf(h.from).verb /\ h.body = AskOf(h.from).body
      /\ h.path = names[h.from][AskOf(h.from).name]
      /\ reply[h.from] = NoReply

(* A client that waits has a handler until it has a reply.                    *)
Attended(c) ==
    /\ at[c] # "waiting" => reply[c] = NoReply
    /\ at[c] = "waiting" /\ reply[c] = NoReply =>
         \E h \in handlers : h.from = c /\ h.n = serial[c]

AskedInv ==
    /\ ~up => handlers = {}
    /\ \A h \in handlers : AskedFor(h)
    /\ \A c \in Clients : Attended(c)

(* Only a GET of /metrics looks like a success to its client.                *)
Unscraped(c) ==
    Busy(c) =>
       /\ at[c] = "waiting" /\ names[c][AskOf(c).name] = MetricsPath =>
            reply[c] \in {NoReply, Broken, 200}
       /\ \A i \in 1..step[c]-1 :
            ScriptOf[c][i].verb # "GET" => names[c][ScriptOf[c][i].name] # MetricsPath

MetricsInv == \A c \in Clients : Unscraped(c)

(* What CountersAgree needs of the scripts: a name is not read before        *)
(* something else was tried on it.                                          *)
ReadsFollow ==
    \A c \in Clients :
       \A i \in DOMAIN ScriptOf[c] : ScriptOf[c][i].verb = "GET" =>
         \E j \in 1..i-1 : ScriptOf[c][j].verb # "GET" /\ ScriptOf[c][j].name = ScriptOf[c][i].name

-----------------------------------------------------------------------------
(* What is counted and what is seen.                                         *)

(* Clients with a success to see: it has come, or its handler has counted it *)
(* and is about to send it.                                                 *)
Sure(c) ==
    /\ at[c] = "waiting"
    /\ \/ Good(c)
       \/ /\ reply[c] = NoReply
          /\ \E h \in handlers :
               /\ h.from = c /\ Current(h) /\ h.path # MetricsPath
               /\ h.pc \in {"counted", "flush"} /\ h.code = Expected(h.verb)

ToSee == {c \in Clients : Sure(c)}
(* Requests to be counted that no client waits for any more.                 *)
Abandoned == {h \in Uncounted : ~Current(h)}

SumsInv ==
    LET counted == SumOf(requestCount, Successes)
        seen    == SumOf(Seen, Clients)
    IN  up => /\ SumOf(requestCount, Labels) + Cardinality(Uncounted) = arrived
              /\ seen + Cardinality(ToSee) <= counted
              /\ counted + Cardinality(Abandoned) <= seen + Cardinality(ToSee) + givenUp

-----------------------------------------------------------------------------
(* An action that nobody disturbs.                                           *)

Slots(c) == {ScriptOf[c][i].name : i \in DOMAIN ScriptOf[c]}
WritesSlot(c, i, k) == IsWriteAt(c, i) /\ ScriptOf[c][i].name = k

(* The first n requests of c leave v at its name k.                          *)
Leaves(c, n, k, v) ==
    \/ v = NoFile /\ \A i \in 1..n : ~WritesSlot(c, i, k)
    \/ \E i \in 1..n : /\ WritesSlot(c, i, k) /\ v = ScriptOf[c][i].body
                       /\ \A j \in i+1..n : ~WritesSlot(c, j, k)

(* What FailsForAReason needs of a script: it creates what is not there, and *)
(* reads, updates and deletes what is.                                       *)
Orderly(c) ==
    \A i \in DOMAIN ScriptOf[c] :
       LET ask == ScriptOf[c][i]
       IN  CASE ask.verb = "POST"  -> Leaves(c, i-1, ask.name, NoFile)
             [] ask.verb = "PATCH" -> TRUE
             [] OTHER -> \E body \in Bodies : Leaves(c, i-1, ask.name, body)

Undisturbed(c) == Busy(c) /\ c \notin excused

(* Its names are its own.                                                    *)
Alone(c) ==
    /\ up
    /\ \A j, k \in Slots(c) : names[c][j] = names[c][k] => j = k
    /\ MetricsPath \notin NamesOf(c)
    /\ \A e \in Clients \ {c} : Busy(e) => NamesOf(e) \cap NamesOf(c) = {}
    /\ \A h \in handlers :
         h.path \in NamesOf(c) /\ ~Answered(h) => h.from = c /\ Current(h)
    /\ \A o \in strays : o.path \notin NamesOf(c)

(* The backend holds what its requests so far have left there.               *)
Story(c) ==
    \A k \in Slots(c) :
       LET held == data[names[c][k]]
       IN  /\ at[c] = "ready" => Leaves(c, step[c] - 1, k, held)
           /\ at[c] = "waiting" /\ Good(c) => Leaves(c, step[c], k, held)
           /\ \A h \in handlers :
                h.from = c /\ Current(h) =>
                  IF Answered(h) THEN h.code = Expected(h.verb) => Leaves(c, step[c], k, held)
                                 ELSE Leaves(c, step[c] - 1, k, held)

(* It gets the answers it expects.                                           *)
Hopeful(c) ==
    /\ reply[c] = NoReply \/ Good(c)
    /\ \A h \in handlers :
         h.from = c /\ Current(h) /\ Answered(h) => h.code = Expected(h.verb)

UndisturbedInv ==
    \A c \in Clients :
       Undisturbed(c) => /\ Alone(c) /\ Story(c)
                         /\ Orderly(c) => Hopeful(c)

IInv == /\ TypesInv /\ RetriesAreOfSuccesses
        /\ HandlerInv /\ AskedInv /\ MetricsInv
        /\ ReadsFollow => SumsInv
        /\ UndisturbedInv
=============================================================================
