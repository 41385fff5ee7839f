------------------------------ MODULE AcpProxy ------------------------------
(***************************************************************************)
(* The ACP proxy (packages/connector-acp): it stands between an editor and *)
(* the agent the editor spawned, forwards every line both ways, captures   *)
(* what the lines say on the side, and adds one block to some of them.     *)
(*                                                                         *)
(* Two pumps forward.  Client to agent, one line at a time is held until   *)
(* the injector has decided it (inject/line-pump.ts, inject/injector.ts);  *)
(* agent to client, every line goes through untouched.  A copy of what was *)
(* forwarded is queued for the capture engine (capture/engine.ts), which   *)
(* works the queue off one event after the other and may wait for the hub  *)
(* or git on each.  The two pumps, the queue and the shutdown run in one   *)
(* process and interleave where they await.                                *)
(*                                                                         *)
(* A client line is its number in the client's script; the number is also  *)
(* the id of its request.                                                  *)
(***************************************************************************)
EXTENDS Naturals, Sequences, FiniteSets

CONSTANTS
  Sessions,    \* ACP session ids the agent may hand out
  Connected,   \* those whose directory is a repository connected to a hub
  Scenarios,   \* bound: what a client sends, as a sequence of [method, session],
               \* and how many edits, faults and hangups go with it
  QueueCap,    \* lines the capture queue holds: ACP_CAPTURE_MAX_PENDING_BYTES
  PendingCap,  \* ACP_MAX_PENDING_REQUESTS
  Nil

Method == {"initialize", "session/new", "session/load", "session/prompt",
           "session/close", "session/cancel"}

Setup == {"session/new", "session/load"}

Supported == 1   \* ACP_PROTOCOL_VERSION

Line == [method : {"initialize"}, session : {Nil}]
          \cup [method : Method \ {"initialize"}, session : Sessions]

\* An id the agent hands out is new: no earlier line names it.
HandsOutNew(lines) ==
    \A i, j \in 1..Len(lines) :
        lines[i].method = "session/new" /\ lines[j].session = lines[i].session
            => i = j \/ (i < j /\ lines[j].method # "session/new")

ASSUME AcpProxyAssumption ==
    /\ Connected \subseteq Sessions
    /\ \A c \in Scenarios :
          /\ c.lines \in Seq(Line) /\ HandsOutNew(c.lines)
          /\ c.edits \in Nat /\ c.faults \in Nat /\ c.hangups \in Nat
    /\ Nil \notin Sessions \cup Nat
    /\ QueueCap \in Nat \ {0}
    /\ PendingCap \in Nat \ {0}

VARIABLES
  script,      \* the lines this client means to send
  sent,        \* how many it has sent
  client,      \* "open", "gone" once it hung up, "cut" once that is known
  known,       \* sessions the client may name
  held,        \* the line the c2a pump holds: Nil, or [n, stage]
  toAgent,     \* what was written to the agent: [n, edit], in order
  agent,       \* "runs" or "exited"
  pipes,       \* its "stdout" and "stderr" that some process still has open
  answered,    \* requests it has answered
  fromAgent,   \* what it wrote, in order
  delivered,   \* how much of that the a2c pump has forwarded
  left,        \* edits, faults and hangups that may still happen
  initPending, \* the injector: initialize requests awaiting an answer
  negotiated,  \* Nil, or the version the gate was decided on
  chain,       \* events queued behind the one in work
  job,         \* the session whose registration is in work, or Nil
  pending,     \* client requests awaiting an answer; the lower is the older
  sessions,    \* the engine's sessions: [status, briefing]
  proxy,       \* "runs", "settling", "ending" or "exited"
  visited,     \* sessions the shutdown loop has been at
  late,        \* history: the shutdown's wait ran out
  lives,       \* history: registrations of a session begun
  ends,        \* history: ends of it begun
  stranded,    \* history: registrations of it that threw, whatever the hub has
  records,     \* history: briefings recorded as delivered
  told,        \* history: briefings forwarded
  due,         \* history: sessions an edit was forwarded of while they stood
  captured,    \* history: sessions with a captured target
  excused      \* history: sessions of events that were dropped or threw

wire == <<script, sent, client, known, held, toAgent, fromAgent, delivered>>
peer == <<agent, pipes, answered>>
gate == <<initPending, negotiated>>
engine == <<job, pending, sessions>>
exit == <<proxy, visited, late>>
history == <<lives, ends, stranded, records, told, due, captured, excused>>

proxyVars == <<wire, peer, gate, chain, engine, exit, history, left>>

----------------------------------------------------------------------------

Absent == [status |-> "absent", briefing |-> "off"]

ProxyInit ==
    /\ \E c \in Scenarios :
          /\ script = c.lines
          /\ left = [edits |-> c.edits, faults |-> c.faults, hangups |-> c.hangups]
    /\ sent = 0
    /\ client = "open"
    /\ known = {}
    /\ held = Nil
    /\ toAgent = <<>>
    /\ agent = "runs" /\ pipes = {"stdout", "stderr"}
    /\ answered = {}
    /\ fromAgent = <<>>
    /\ delivered = 0
    /\ initPending = {}
    /\ negotiated = Nil
    /\ chain = <<>>
    /\ job = Nil
    /\ pending = {}
    /\ sessions = [s \in Sessions |-> Absent]
    /\ proxy = "runs"
    /\ visited = {}
    /\ late = FALSE
    /\ lives = [s \in Sessions |-> 0]
    /\ ends = [s \in Sessions |-> 0]
    /\ stranded = [s \in Sessions |-> 0]
    /\ records = [s \in Sessions |-> 0]
    /\ told = [s \in Sessions |-> 0]
    /\ due = {}
    /\ captured = {}
    /\ excused = {}

Spend(what) == left[what] > 0 /\ left' = [left EXCEPT ![what] = @ - 1]

Fault == Spend("faults")

Live(s) == sessions[s].status = "live"

\* Whether a session stands, as the wire alone has it: its creation succeeded, or
\* its load was requested, and it was not closed since.
Standing(s) ==
    LET opened == {i \in 1..Len(toAgent) : LET l == script[toAgent[i].n]
                     IN  l.session = s /\ l.method \in Setup}
        closed == {i \in 1..Len(toAgent) : script[toAgent[i].n] =
                                             [method |-> "session/close", session |-> s]}
    IN  \E i \in opened : \A j \in closed : j < i

----------------------------------------------------------------------------
(* The client and the agent.                                               *)

Created(s) == \E i \in 1..Len(script) : script[i] = [method |-> "session/new", session |-> s]

\* A client names a session once its creation was answered, or it loads it: one
\* that is in the agent's store from before.
Send ==
    /\ client = "open"
    /\ sent < Len(script)
    /\ LET l == script[sent + 1]
       IN  /\ \/ l.method \in {"initialize", "session/new"}
              \/ l.method = "session/load" /\ ~Created(l.session)
              \/ l.session \in known
           /\ known' = IF l.method = "session/load" THEN known \cup {l.session}
                       ELSE known
    /\ sent' = sent + 1
    /\ UNCHANGED <<script, client, held, toAgent, fromAgent, delivered, peer, gate,
                   chain, engine, exit, history, left>>

HangUp ==
    /\ client = "open"
    /\ Spend("hangups")
    /\ client' = "gone"
    /\ UNCHANGED <<script, sent, known, held, toAgent, fromAgent, delivered, peer,
                   gate, chain, engine, exit, history>>

Says(event) ==
    /\ fromAgent' = Append(fromAgent, event)
    /\ UNCHANGED <<script, sent, client, known, held, toAgent, delivered, agent, pipes,
                   gate, chain, engine, exit, history>>

\* A request is answered once, in any order; an initialize answer names a version.
\* Answers to other requests only free their pending entry: left out.
AgentAnswers ==
    /\ agent = "runs"
    /\ \E i \in 1..Len(toAgent), ok \in BOOLEAN, version \in {Supported, Supported + 1} :
          LET n == toAgent[i].n
          IN  /\ n \notin answered
              /\ script[n].method \in {"initialize", "session/new"}
              /\ script[n].method # "initialize" => version = Supported
              /\ ok \/ version = Supported
              /\ answered' = answered \cup {n}
              /\ Says([kind |-> "answer", n |-> n, ok |-> ok, version |-> version])
    /\ UNCHANGED left

\* A session the agent made or was told to load reports an edit: the agent, or a
\* helper that has its stdout.
AgentEdits ==
    /\ "stdout" \in pipes
    /\ Spend("edits")
    /\ \E i \in 1..Len(toAgent) :
          LET n == toAgent[i].n
              l == script[n]
          IN  /\ \/ l.method = "session/load"
                 \/ l.method = "session/new" /\ \E k \in 1..Len(fromAgent) :
                       fromAgent[k].kind = "answer" /\ fromAgent[k].n = n /\ fromAgent[k].ok
              /\ Says([kind |-> "edit", session |-> l.session])
    /\ UNCHANGED answered

\* The agent dies; a helper that inherited its pipes may keep them open.
AgentExits ==
    /\ agent = "runs"
    /\ agent' = "exited"
    /\ pipes' \in SUBSET pipes
    /\ UNCHANGED <<wire, answered, gate, chain, engine, exit, history, left>>

\* The last helper closes one of them, if ever.
HelperLetsGo ==
    /\ agent = "exited"
    /\ \E p \in pipes : pipes' = pipes \ {p}
    /\ UNCHANGED <<wire, agent, answered, gate, chain, engine, exit, history, left>>

----------------------------------------------------------------------------
(* The capture queue.                                                      *)

\* An event is a client line, an answer or an edit.
Load == Len(chain) + (IF job = Nil THEN 0 ELSE 1)

SessionOf(event) == IF event.kind = "edit" THEN event.session ELSE script[event.n].session

\* offer: dropped when the queue is full.  Nothing is offered once shutdown began.
Offer(event) ==
    IF Load >= QueueCap
    THEN excused' = excused \cup {SessionOf(event)} /\ UNCHANGED chain
    ELSE chain' = Append(chain, event) /\ UNCHANGED excused

----------------------------------------------------------------------------
(* Client to agent: the line pump and the injector.                        *)

\* Seeded fault: any decided version opens the gate.
GateAnyVersion == negotiated # Nil

GateOpen == negotiated = Supported

\* The agent's stdin is ended once it or the client is known to be gone.
Writable == agent = "runs" /\ client # "cut" /\ proxy = "runs"

\* Writes the held line to the agent, and then offers it to capture.  A dead
\* agent fails the write, and the pump stops.
Forward(n, edit) ==
    IF Writable
    THEN /\ toAgent' = Append(toAgent, [n |-> n, edit |-> edit])
         /\ Offer([kind |-> "line", n |-> n])
         /\ held' = Nil
    ELSE /\ held' = [n |-> n, stage |-> "stopped"]
         /\ UNCHANGED <<toAgent, chain, excused>>

Pumped ==
    UNCHANGED <<script, sent, client, known, fromAgent, delivered, peer, negotiated,
                engine, exit, lives, ends, stranded, due, captured>>

Hold(n, stage) == held' = [n |-> n, stage |-> stage]

\* Seeded fault: a notification is not held back by the line before it.
MayTakeNotification ==
    IF held = Nil THEN TRUE
    ELSE sent > held.n /\ script[held.n + 1].method = "session/cancel"

\* The next line is looked at once the one before it is written.
MayTake == held = Nil

NextLine == IF held = Nil THEN Len(toAgent) + 1 ELSE held.n + 1

\* What the c2a pump does with the next line it reads.  Only a setup request or a
\* prompt under an open gate waits for anything.
TakeLine ==
    /\ proxy = "runs"
    /\ MayTake
    /\ sent >= NextLine
    /\ LET n == NextLine
           method == script[n].method
       IN  /\ initPending' = IF method = "initialize" THEN initPending \cup {n}
                             ELSE initPending
           /\ IF GateOpen /\ method \in Setup \cup {"session/prompt"}
              THEN /\ Hold(n, IF method \in Setup THEN "setup"
                              ELSE IF Live(script[n].session) THEN "take" ELSE "settle")
                   /\ UNCHANGED <<toAgent, chain, excused>>
              ELSE Forward(n, "none")
    /\ Pumped /\ UNCHANGED <<records, told, left>>

Holding(stage) == held # Nil /\ held.stage = stage /\ proxy # "exited"

\* Launcher and directory probe, each raced against the setup deadline: the entry
\* is appended for a connected directory, or the line goes as it came.
DecideSetup ==
    /\ Holding("setup")
    /\ \/ script[held.n].session \in Connected /\ Forward(held.n, "mcp")
       \/ Forward(held.n, "none")
    /\ Pumped /\ UNCHANGED <<initPending, records, told, left>>

\* Seeded fault: the wait for registration has no deadline of its own.
SettleWithoutTimer ==
    /\ Holding("settle")
    /\ chain = <<>>
    /\ job = Nil
    /\ IF Live(script[held.n].session)
       THEN Hold(held.n, "take") /\ UNCHANGED <<toAgent, chain, excused>>
       ELSE Forward(held.n, "none")
    /\ Pumped /\ UNCHANGED <<initPending, records, told, left>>

\* A prompt racing its session's registration waits for the queue as it stands, or
\* for the timer, whichever is first; then it looks again.
Settle ==
    /\ Holding("settle")
    /\ IF Live(script[held.n].session)
       THEN Hold(held.n, "take") /\ UNCHANGED <<toAgent, chain, excused>>
       ELSE Forward(held.n, "none")
    /\ Pumped /\ UNCHANGED <<initPending, records, told, left>>

\* Seeded fault (KeepBriefing): the slot is not marked.
\* takeBriefing: a briefing still in preparation is left for the next prompt; one
\* that is ready is spent here, before anything is awaited.
KeepBriefing(s) == UNCHANGED sessions
SpendBriefing(s) == sessions' = [sessions EXCEPT ![s].briefing = "taken"]

TakeBriefing ==
    /\ Holding("take")
    /\ LET n == held.n
           s == script[n].session
           slot == sessions[s].briefing
       IN  \/ slot = "pending" /\ Forward(n, "none") /\ UNCHANGED sessions
           \/ /\ slot # "pending"
              /\ Hold(n, IF slot = "ready" THEN "record" ELSE "hint")
              /\ IF slot \in {"ready", "empty"} THEN SpendBriefing(s) ELSE UNCHANGED sessions
              /\ UNCHANGED <<toAgent, chain, excused>>
    /\ UNCHANGED <<script, sent, client, known, fromAgent, delivered, peer, gate,
                   job, pending, exit, lives, ends, stranded, due, captured,
                   records, told, left>>

\* The deliveries are recorded before the text leaves; when that throws, the line
\* goes as it came and the briefing is spent.
RecordBriefing ==
    /\ Holding("record")
    /\ LET s == script[held.n].session
       IN  \/ /\ records' = [records EXCEPT ![s] = @ + 1]
              /\ Hold(held.n, "tell")
              /\ UNCHANGED <<toAgent, chain, excused, late, left>>
           \/ /\ Fault
              /\ Forward(held.n, "none")
              /\ UNCHANGED records
    /\ Pumped /\ UNCHANGED <<initPending, told>>

Tell(s) == told' = IF Writable THEN [told EXCEPT ![s] = @ + 1] ELSE told

TellBriefing ==
    /\ Holding("tell")
    /\ Forward(held.n, "briefing")
    /\ Tell(script[held.n].session)
    /\ Pumped /\ UNCHANGED <<initPending, records, left>>

\* The hint flow, raced against what is left of the prompt's budget.
DecideHint ==
    /\ Holding("hint")
    /\ Forward(held.n, "hint") \/ Forward(held.n, "none")
    /\ Pumped /\ UNCHANGED <<initPending, records, told, left>>

PumpStep ==
    TakeLine \/ DecideSetup \/ Settle \/ TakeBriefing \/ RecordBriefing
    \/ TellBriefing \/ DecideHint

----------------------------------------------------------------------------
(* Agent to client: forwarded first, and the copy observed.                *)

\* The first successful answer to an initialize decides the gate, for good.
Deciding(event) == event.n \in initPending /\ negotiated = Nil /\ event.ok

DecideGate(event) ==
    IF event.kind = "answer" /\ negotiated = Nil
    THEN /\ negotiated' = IF Deciding(event) THEN event.version ELSE negotiated
         /\ initPending' = initPending \ {event.n}
    ELSE UNCHANGED gate

\* One line is written to the client and observed; a client that hung up fails
\* the write, and nothing more is read from the agent.
Deliver ==
    /\ client # "cut"
    /\ delivered < Len(fromAgent)
    /\ proxy = "runs"
    /\ LET event == fromAgent[delivered + 1]
       IN  /\ Offer(event)
           /\ DecideGate(event)
           /\ known' = IF event.kind = "answer" /\ event.ok
                            /\ script[event.n].method = "session/new" /\ client = "open"
                       THEN known \cup {script[event.n].session} ELSE known
           /\ due' = IF event.kind = "edit" /\ Standing(event.session)
                     THEN due \cup {event.session} ELSE due
    /\ delivered' = delivered + 1
    /\ client' = IF client = "open" THEN "open" ELSE "cut"
    /\ UNCHANGED <<script, sent, held, toAgent, fromAgent, peer,
                   engine, exit, lives, ends, stranded, records, told, captured, left>>

----------------------------------------------------------------------------
(* The capture engine works the queue off, one event after the other.      *)

\* A request past the cap evicts the oldest.
Put(n) ==
    LET all == pending \cup {n}
        Oldest(m) == \A k \in all : m <= k
    IN  IF Cardinality(all) > PendingCap THEN {m \in all : ~Oldest(m)} ELSE all

Evicted(n) == (pending \cup {n}) \ Put(n)

\* Seeded faults: a load always registers; a load registers only what was known.
LoadAlways(s) == TRUE
LoadOfKnown(s) == sessions[s].status \in {"off", "ended"}

\* A load or resume registers unless the session is live here already.
LoadRegisters(s) == sessions[s].status \in {"absent", "off", "ended"}

StartRegister(s) ==
    /\ job' = s
    /\ lives' = IF s \in Connected THEN [lives EXCEPT ![s] = @ + 1] ELSE lives

NoWork == UNCHANGED <<job, lives>>

\* endOneSession: the session is marked ended before anything is awaited.
EndSession(s) ==
    /\ sessions' = [sessions EXCEPT ![s].status = "ended"]
    /\ ends' = [ends EXCEPT ![s] = @ + 1]

DispatchRequest(n) ==
    LET l == script[n]
    IN  /\ pending' = IF l.method = "session/cancel" THEN pending ELSE Put(n)
        /\ excused' = IF l.method = "session/cancel" THEN excused
                      ELSE excused \cup {script[m].session : m \in Evicted(n)}
        /\ IF l.method = "session/load" /\ LoadRegisters(l.session)
           THEN StartRegister(l.session) ELSE NoWork
        /\ IF l.method = "session/close" /\ Live(l.session)
           THEN EndSession(l.session) ELSE UNCHANGED <<sessions, ends>>
        /\ UNCHANGED captured

DispatchAnswer(event) ==
    /\ pending' = pending \ {event.n}
    /\ IF event.n \in pending /\ event.ok
            /\ script[event.n].method = "session/new"
       THEN StartRegister(script[event.n].session) ELSE NoWork
    /\ UNCHANGED <<sessions, ends, captured, excused>>

\* An edit of a live session is captured; of any other it is skipped.
DispatchEdit(s) ==
    /\ captured' = IF Live(s) THEN captured \cup {s} ELSE captured
    /\ NoWork
    /\ UNCHANGED <<pending, sessions, ends, excused>>

\* The event at the head is dispatched, up to where a registration awaits the
\* hub.  A dispatch that throws is counted, and the queue goes on.
Dispatch ==
    /\ chain # <<>>
    /\ job = Nil
    /\ proxy # "exited"
    /\ LET event == Head(chain)
       IN  \/ /\ \/ event.kind = "line" /\ DispatchRequest(event.n)
                 \/ event.kind = "answer" /\ DispatchAnswer(event)
                 \/ event.kind = "edit" /\ DispatchEdit(event.session)
              /\ UNCHANGED left
           \/ /\ Fault
              /\ excused' = excused \cup {SessionOf(event)}
              /\ UNCHANGED <<engine, lives, ends, captured>>
    /\ chain' = Tail(chain)
    /\ UNCHANGED <<wire, peer, gate, exit, stranded, records, told, due>>

\* The registration's awaits are over: the session is live and its briefing in
\* preparation, or off when its directory is not connected.  What throws on the
\* way, be it the state's write after the hub accepted the session, is counted
\* by the queue: nothing is entered, and the hub may have a session of no entry.
FinishRegister ==
    /\ job # Nil
    /\ proxy # "exited"
    /\ \/ /\ sessions' = [sessions EXCEPT ![job] =
                             IF job \in Connected
                             THEN [status |-> "live", briefing |-> "pending"]
                             ELSE [status |-> "off", briefing |-> "off"]]
          /\ UNCHANGED <<stranded, excused, left>>
       \/ /\ Fault
          /\ stranded' = [stranded EXCEPT ![job] = IF job \in Connected THEN @ + 1 ELSE @]
          /\ excused' = excused \cup {job}
          /\ UNCHANGED sessions
    /\ job' = Nil
    /\ UNCHANGED <<wire, peer, gate, chain, pending, exit, lives, ends, records, told,
                   due, captured>>

\* The detached prefetch lands; a failed one leaves an empty slot.
BriefingLands(s) ==
    /\ proxy # "exited"
    /\ sessions[s].briefing = "pending"
    /\ \E outcome \in {"ready", "empty"} :
          sessions' = [sessions EXCEPT ![s].briefing = outcome]
    /\ UNCHANGED <<wire, peer, gate, chain, job, pending, exit, history, left>>

----------------------------------------------------------------------------
(* Shutdown.                                                               *)

\* The pumps from the agent are through at the end of its pipes, or where the
\* client hung up.
Drained ==
    /\ ("stdout" \notin pipes /\ delivered = Len(fromAgent)) \/ client = "cut"
    /\ "stderr" \notin pipes

\* Seeded fault: the exit also waits for the client to end its side.
BothSidesDone == agent = "exited" /\ Drained /\ client # "open"

\* The agent is gone and its tail forwarded, whatever the c2a pump still holds.
\* A helper with one of the pipes defers this for as long as it likes.
AgentSideDone == agent = "exited" /\ Drained

BeginShutdown ==
    /\ proxy = "runs"
    /\ AgentSideDone
    /\ proxy' = "settling"
    /\ UNCHANGED <<wire, peer, gate, chain, engine, visited, late, history, left>>

\* Seeded fault: nothing waits for the queue.
EndAtOnce ==
    /\ proxy = "settling"
    /\ proxy' = "ending"
    /\ UNCHANGED <<wire, peer, gate, chain, engine, visited, late, history, left>>

\* The queue is worked off, or the exit budget runs out first.
EndSettling ==
    /\ proxy = "settling"
    /\ late' = (late \/ chain # <<>> \/ job # Nil)
    /\ proxy' = "ending"
    /\ UNCHANGED <<wire, peer, gate, chain, engine, visited, history, left>>

ToEnd == {s \in Sessions : sessions[s].status # "absent"} \ visited

EndEach ==
    /\ proxy = "ending"
    /\ \E s \in ToEnd :
          /\ visited' = visited \cup {s}
          /\ IF Live(s) THEN EndSession(s) ELSE UNCHANGED <<sessions, ends>>
    /\ UNCHANGED <<wire, peer, gate, chain, job, pending, proxy, late, lives, stranded,
                   records, told, due, captured, excused, left>>

Exit ==
    /\ proxy = "ending"
    /\ ToEnd = {}
    /\ proxy' = "exited"
    /\ UNCHANGED <<wire, peer, gate, chain, engine, visited, late, history, left>>

ShutdownStep == BeginShutdown \/ EndSettling \/ EndEach \/ Exit

----------------------------------------------------------------------------

ProxyNext ==
    \/ Send \/ HangUp
    \/ AgentAnswers \/ AgentEdits \/ AgentExits \/ HelperLetsGo
    \/ PumpStep \/ Deliver
    \/ Dispatch \/ FinishRegister \/ \E s \in Sessions : BriefingLands(s)
    \/ ShutdownStep

\* The pumps and the shutdown go on: every wait in them has a timer or ends with
\* the peer.  Nothing is asked of the hub, of the queue or of the agent.
Fairness == WF_proxyVars(PumpStep) /\ WF_proxyVars(Deliver) /\ WF_proxyVars(ShutdownStep)

ProxySpec == ProxyInit /\ [][ProxyNext]_proxyVars /\ Fairness

----------------------------------------------------------------------------
(* Correctness.                                                            *)

\* The agent reads the client's lines in the order they were sent, none missing
\* and none twice, however long a line before one was held.
LinesKeepOrder == \A i \in 1..Len(toAgent) : toAgent[i].n = i

FirstNegotiation ==
    {i \in 1..delivered :
        /\ fromAgent[i].kind = "answer"
        /\ script[fromAgent[i].n].method = "initialize"
        /\ fromAgent[i].ok}

\* A line reaches the agent changed only when the first successful initialize
\* answer the client was given named the supported version, and then only a
\* prompt, or a setup request for a connected directory.
EditsAreEntitled ==
    \A i \in 1..Len(toAgent) :
        toAgent[i].edit # "none" =>
            /\ \E k \in FirstNegotiation :
                  /\ \A j \in FirstNegotiation : k <= j
                  /\ fromAgent[k].version = Supported
            /\ script[toAgent[i].n].session \in Connected
            /\ toAgent[i].edit = "mcp" <=> script[toAgent[i].n].method \in Setup

\* A briefing is shown at most once per registration of its session, and never
\* before the hub is owed the record of it.
BriefingToldOnce ==
    \A s \in Sessions : told[s] <= records[s] /\ records[s] <= lives[s]

\* Two registrations of a session have an end between them, whatever loads,
\* answers and closes are queued, unless the first one threw: a session that the
\* hub had accepted by then has no entry here, and a load registers it again.
OneLifeAtATime ==
    \A s \in Sessions :
        LET over == ends[s] + stranded[s] IN over <= lives[s] /\ lives[s] <= over + 1

\* When the exit budget sufficed, no session this proxy registered is left
\* without an end, whatever events of it were lost.  A registration that threw
\* is the one exception: nothing here knows of it any more.
ExitLeavesNoneOpen ==
    proxy = "exited" /\ ~late => \A s \in Sessions : lives[s] = ends[s] + stranded[s]

\* Once the queue is worked off, an edit the agent reported of a connected
\* session that stood on the wire has been captured, also when it was reported
\* before the answer to the load, unless an event of that session was lost or threw.
StandingEditsAreCaptured ==
    chain = <<>> /\ job = Nil /\ ~late =>
        due \cap Connected \subseteq captured \cup excused

\* Every line the client sends reaches the agent, or one of them is gone: no
\* hub, no queue and no slow registration holds the wire.
LinesGoThrough ==
    []<>(Len(toAgent) = sent \/ agent = "exited" \/ client = "cut")

\* Once the agent is gone and its pipes are at their end, or the client that read
\* them has hung up, the proxy exits, with the client's own side still open and a
\* line held.  proxy.ts:543 leaves out a helper that keeps a pipe: until it lets
\* go of stderr, and of stdout or the client hangs up, nothing bounds the wait.
ExitFollowsAgent ==
    agent = "exited" /\ "stderr" \notin pipes /\ ("stdout" \notin pipes \/ client = "cut")
        ~> proxy = "exited"

=============================================================================
