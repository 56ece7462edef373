----------------------------- MODULE AgentTurns -----------------------------
(***************************************************************************)
(* One model turn after another: adapters/acp.ts, which spawns an agent    *)
(* process per turn and drives it over JSON-RPC, the stream of             *)
(* adapters/claude-code.ts, the three watchdogs that cut a turn short, the *)
(* structured roles' ladder of adapters/shared/structured.ts, and what     *)
(* orchestrator/worker.ts does to git when a worker's turn is over.        *)
(* A process that was told to stop goes on for a while, and a provider     *)
(* session outlives the turns that resume it, with a cost of its own.      *)
(***************************************************************************)
EXTENDS Integers, FiniteSetsExt

CONSTANTS TurnRoles,    \* roles called: "worker", "review", "lead"
          Routings,     \* configurations: the backend, "acp" or "sdk", of each role
          MaxTurns,     \* bound: turns run
          MaxCost,      \* bound: what one provider session costs, in units
          MaxEdits,     \* bound: edits the agents make to the worktree
          MaxAttempts   \* attempts of the structured ladder

ASSUME AgentTurnsAssumption ==
    /\ TurnRoles \subseteq {"worker", "review", "lead"} /\ Routings \subseteq [TurnRoles -> {"acp", "sdk"}]
    /\ {MaxTurns, MaxAttempts} \subseteq Nat \ {0} /\ {MaxCost, MaxEdits} \subseteq Nat

TurnNos == 1 .. MaxTurns
Edits == 1 .. MaxEdits
NoSession == 0          \* no provider session
Unknown == -1           \* no figure was reported

VARIABLES
    routing,     \* the configuration of this process
    probed,      \* the OpenCode backend passed its live permission probe
    call,        \* the role call in progress, its ladder and its result
    current,     \* the turn in progress: the locals of runWorkerAcp
    armed,       \* the watchdogs that are armed
    agents,      \* agents[t]: the process of turn t and the session it works on
    accrued,     \* accrued[s]: what the provider says session s has cost
    recorded,    \* provider_session_usage.cumulative_cost_usd
    ledger,      \* what settled calls were billed
    tree         \* the worktree: uncommitted and committed edits, commits

turnVars == <<routing, probed, call, current, armed, agents, accrued, recorded, ledger, tree>>

Waiting == {"initialize", "load", "new", "configure", "prompt", "stream"}
Cuts == {"none", "open", "token", "overall"}
Stops == {"end_turn", "max_tokens", "tool_error", "timeout", "first_token_timeout"}

TurnsTypeOK ==
    /\ probed \in BOOLEAN /\ routing \in Routings
    /\ current.n \in 0 .. MaxTurns /\ current.step \in Waiting \cup {"idle", "returned"}
    /\ current.cut \in Cuts /\ current.sess \in 0 .. current.n /\ current.stop \in Stops
    /\ {current.base, current.latest} \subseteq Unknown .. MaxCost
    /\ armed \subseteq Cuts \ {"none"}
    /\ \A t \in TurnNos : agents[t].is \in {"none", "up", "leaving", "gone"}
    /\ \A s \in TurnNos : accrued[s] \in 0 .. MaxCost /\ recorded[s] \in Unknown .. MaxCost
    /\ call.at \in {"idle", "begin", "turn", "head", "status", "commit", "recount", "settle"}
    /\ call.tries \in 0 .. MaxAttempts /\ {call.cost, ledger} \subseteq 0 .. MaxTurns * MaxCost
    /\ tree.dirty \cup tree.committed \subseteq 1 .. tree.made /\ tree.made \in 0 .. MaxEdits

NoTurn == [n |-> 0, step |-> "idle", sess |-> NoSession, from |-> NoSession, base |-> 0,
           latest |-> Unknown, mismatch |-> FALSE, tokens |-> FALSE,
           opened |-> FALSE, token |-> FALSE, text |-> FALSE, cut |-> "none", stop |-> "end_turn"]

NoCall == [role |-> "none", engine |-> "none", at |-> "idle", resume |-> NoSession,
           tries |-> 0, cost |-> 0, measured |-> TRUE, outcome |-> "none",
           last |-> NoSession, upto |-> Unknown, whole |-> TRUE, cut |-> FALSE, partial |-> FALSE,
           base |-> 0, head |-> 0, dirty |-> {}, harness |-> FALSE, commit |-> FALSE]

NoAgent == [is |-> "none", on |-> NoSession, busy |-> FALSE, hands |-> FALSE]

TurnsInit ==
    /\ routing \in Routings
    /\ probed = FALSE /\ call = NoCall /\ current = NoTurn /\ armed = {}
    /\ agents = [t \in TurnNos |-> NoAgent]
    /\ accrued = [s \in TurnNos |-> 0] /\ recorded = [s \in TurnNos |-> Unknown]
    /\ ledger = 0
    /\ tree = [dirty |-> {}, committed |-> {}, made |-> 0, head |-> 0]

Alive(t) == agents[t].is \in {"up", "leaving"}

(* reap: SIGTERM to the process group, once; SIGKILL follows after 5 s.     *)
Reaped(as) == [t \in TurnNos |-> IF t = current.n /\ as[t].is = "up"
                               THEN [as[t] EXCEPT !.is = "leaving"] ELSE as[t]]

StopOf(cut) == IF cut = "overall" THEN "timeout" ELSE "first_token_timeout"

(* The finally of a turn: the timers are cleared and the agent reaped; the  *)
(* reason of a watchdog replaces whatever the agent answered.               *)
Ends(stop, as) ==
    /\ current' = [current EXCEPT !.step = "returned",
                            !.stop = IF current.cut = "none" THEN stop ELSE StopOf(current.cut)]
    /\ armed' = {}
    /\ agents' = Reaped(as)

----------------------------------------------------------------------------
(* Calls                                                                    *)

(* A role is called; a worker's correction resumes the session before it.   *)
CallRole(role, resume) ==
    /\ call.at = "idle" /\ current.n < MaxTurns
    /\ resume # NoSession => role = "worker" /\ resume = call.last
    /\ call' = [NoCall EXCEPT !.role = role, !.engine = routing[role], !.at = "begin",
                              !.resume = resume, !.base = tree.head, !.last = call.last]
    /\ UNCHANGED <<routing, probed, current, armed, agents, accrued, recorded, ledger, tree>>

(* ensureBackendReady: a probe that fails is not remembered.                *)
Probe ==
    /\ call.at = "begin" /\ call.engine = "acp" /\ ~probed
    /\ \/ probed' = TRUE /\ UNCHANGED call
       \/ call' = [call EXCEPT !.at = "settle", !.outcome = "failed", !.measured = FALSE]
          /\ UNCHANGED probed
    /\ UNCHANGED <<routing, current, armed, agents, accrued, recorded, ledger, tree>>

(* The baseline of the cost: what the checkpoint says of the session that   *)
(* is asked for, whichever session the turn ends up on.                     *)
BaselineOf(resume) == IF resume = NoSession THEN 0 ELSE recorded[resume]

(* runWorkerAcp spawns its agent and arms the overall watchdog; the SDK's   *)
(* stream has its open watchdog armed from the start as well.               *)
Begin ==
    /\ call.at = "begin" /\ (call.engine = "acp" => probed)
    /\ current.n < MaxTurns
    /\ LET n == current.n + 1 IN
       /\ current' = [NoTurn EXCEPT !.n = n, !.from = call.resume, !.base = BaselineOf(call.resume),
                                 !.step = IF call.engine = "acp" THEN "initialize" ELSE "stream"]
       /\ agents' = [agents EXCEPT ![n] = [NoAgent EXCEPT !.is = "up",
                                                         !.hands = call.role = "worker"]]
    /\ armed' = IF call.engine = "acp" THEN {"overall"} ELSE {"overall", "open"}
    /\ call' = [call EXCEPT !.at = "turn"]
    /\ UNCHANGED <<routing, probed, accrued, recorded, ledger, tree>>

----------------------------------------------------------------------------
(* The ACP conversation                                                     *)

(* The agent of the turn answers the request that is pending; one that was  *)
(* told to stop may still do so.                                            *)
Answers(step) == current.step = step /\ call.engine = "acp" /\ Alive(current.n)

GoesOn(step) ==
    /\ current' = [current EXCEPT !.step = step]
    /\ UNCHANGED <<armed, agents>>

Initialized ==
    /\ Answers("initialize")
    /\ GoesOn(IF current.from = NoSession THEN "new" ELSE "load")
    /\ UNCHANGED <<routing, probed, call, accrued, recorded, ledger, tree>>

OnSession(s) ==
    /\ current' = [current EXCEPT !.sess = s, !.step = "configure"]
    /\ agents' = [agents EXCEPT ![current.n].on = s]
    /\ UNCHANGED <<routing, armed, probed, call, accrued, recorded, ledger, tree>>

Loaded == Answers("load") /\ OnSession(current.from)

(* session/load is refused: a fresh session is started instead.             *)
LoadRefused ==
    /\ Answers("load") /\ GoesOn("new")
    /\ UNCHANGED <<routing, probed, call, accrued, recorded, ledger, tree>>

Created == Answers("new") /\ OnSession(current.n)

(* The model and the effort are confirmed: the prompt goes out.             *)
Prompted ==
    /\ Answers("configure")
    /\ current' = [current EXCEPT !.step = "prompt"]
    /\ armed' = armed \cup {"open"}
    /\ agents' = [agents EXCEPT ![current.n].busy = TRUE]
    /\ UNCHANGED <<routing, probed, call, accrued, recorded, ledger, tree>>

(* A request is refused: initialize, session/new, the model or the effort.  *)
Refused ==
    /\ \E step \in {"initialize", "new", "configure", "prompt"} : Answers(step)
    /\ Ends("tool_error", agents)
    /\ UNCHANGED <<routing, probed, call, accrued, recorded, ledger, tree>>

(* handleUpdate: before the prompt only a usage_update counts, as the       *)
(* baseline; a different one than the baseline known is a mismatch.         *)
CostReplayed ==
    /\ \E step \in {"load", "configure"} : Answers(step)
    /\ LET s == IF current.sess = NoSession THEN current.from ELSE current.sess IN
       current' = [current EXCEPT !.base = accrued[s],
                            !.mismatch = @ \/ current.base \notin {Unknown, accrued[s]}]
    /\ UNCHANGED <<routing, probed, call, armed, agents, accrued, recorded, ledger, tree>>

(* markActivity: the first update opens the stream and arms the watchdog    *)
(* for a token, which only text or a thought is.                            *)
Activity(t) == [t EXCEPT !.opened = TRUE]
ArmedByActivity == IF current.opened THEN armed ELSE armed \cup {"token"}

Streams(kind) ==
    /\ Answers("prompt")
    /\ current' = CASE kind = "text" -> [Activity(current) EXCEPT !.token = TRUE, !.text = TRUE]
                 [] kind = "tool" -> Activity(current)
                 [] kind = "cost" -> [Activity(current) EXCEPT !.latest = accrued[current.sess]]
    /\ armed' = ArmedByActivity
    /\ UNCHANGED <<routing, probed, call, agents, accrued, recorded, ledger, tree>>

(* Assumed: an agent that was told to stop is gone, after five seconds at   *)
(* the most, before the agent of a later turn has answered.                 *)
EarlierGone == \A t \in 1 .. current.n - 1 : ~Alive(t)

(* The answer to session/prompt, with a split of the tokens or without.     *)
PromptAnswered(stop, tokens) ==
    /\ Answers("prompt") /\ EarlierGone
    /\ current' = [current EXCEPT !.step = "returned", !.tokens = tokens,
                            !.stop = IF current.cut = "none" THEN stop ELSE StopOf(current.cut)]
    /\ armed' = {}
    /\ agents' = Reaped([agents EXCEPT ![current.n].busy = FALSE])
    /\ UNCHANGED <<routing, probed, call, accrued, recorded, ledger, tree>>

----------------------------------------------------------------------------
(* The stream of the SDK                                                    *)

StreamAlive == current.step = "stream" /\ Alive(current.n)

(* The init message: the stream is open; a worker's first token is due.     *)
StreamOpens ==
    /\ StreamAlive /\ ~current.opened
    /\ LET s == IF current.from = NoSession THEN current.n ELSE current.from IN
       /\ current' = [current EXCEPT !.opened = TRUE, !.sess = s, !.base = accrued[s]]
       /\ agents' = [agents EXCEPT ![current.n].on = s, ![current.n].busy = TRUE]
    /\ armed' = (armed \ {"open"}) \cup (IF call.role = "worker" THEN {"token"} ELSE {})
    /\ UNCHANGED <<routing, probed, call, accrued, recorded, ledger, tree>>

StreamSpeaks ==
    /\ StreamAlive /\ current.opened /\ ~current.token
    /\ current' = [current EXCEPT !.token = TRUE, !.text = TRUE]
    /\ armed' = armed \ {"open", "token"}
    /\ UNCHANGED <<routing, probed, call, agents, accrued, recorded, ledger, tree>>

(* The result message, with the cost of the query, and the stream ends.     *)
StreamResult(stop) ==
    /\ StreamAlive /\ current.opened /\ EarlierGone
    /\ current' = [current EXCEPT !.step = "returned", !.latest = accrued[current.sess],
                            !.stop = IF current.cut = "none" THEN stop ELSE StopOf(current.cut)]
    /\ armed' = {}
    /\ agents' = Reaped([agents EXCEPT ![current.n].busy = FALSE])
    /\ UNCHANGED <<routing, probed, call, accrued, recorded, ledger, tree>>

----------------------------------------------------------------------------
(* Watchdogs and processes                                                  *)

WouldCutSilent(w) == IF w = "open" THEN ~current.opened ELSE ~current.token
WouldCut(w) == CASE w = "open" -> ~current.opened
                 [] w = "token" -> ~current.token
                 [] OTHER -> TRUE

(* A watchdog runs out; it cuts the turn unless what it waits for has come. *)
WatchdogFires(w) ==
    /\ w \in armed
    /\ armed' = armed \ {w}
    /\ IF WouldCut(w) THEN /\ current' = [current EXCEPT !.cut = w]
                           /\ agents' = Reaped(agents)
                      ELSE UNCHANGED <<current, agents>>
    /\ UNCHANGED <<routing, probed, call, accrued, recorded, ledger, tree>>

(* A process exits, of itself or by the signal; every request pending on it *)
(* is rejected, and so is every later one.                                  *)
AgentExits(t) ==
    /\ Alive(t)
    /\ LET as == [agents EXCEPT ![t] = [NoAgent EXCEPT !.is = "gone"]] IN
       IF t = current.n /\ current.step \in Waiting
       THEN Ends("tool_error", as)
       ELSE agents' = as /\ UNCHANGED <<current, armed>>
    /\ UNCHANGED <<routing, probed, call, accrued, recorded, ledger, tree>>

Working(t) == Alive(t) /\ agents[t].busy

(* The provider charges the session an agent is working on.                 *)
AgentSpends(t) ==
    /\ Working(t) /\ accrued[agents[t].on] < MaxCost
    /\ accrued' = [accrued EXCEPT ![agents[t].on] = @ + 1]
    /\ UNCHANGED <<routing, probed, call, current, armed, agents, recorded, ledger, tree>>

(* A worker's agent edits a file, or commits what it edited.                *)
AgentEdits(t) ==
    /\ Working(t) /\ agents[t].hands /\ tree.made < MaxEdits
    /\ tree' = [tree EXCEPT !.made = @ + 1, !.dirty = @ \cup {tree.made + 1}]
    /\ UNCHANGED <<routing, probed, call, current, armed, agents, accrued, recorded, ledger>>

AgentCommits(t) ==
    /\ Working(t) /\ agents[t].hands /\ tree.dirty # {}
    /\ tree' = [tree EXCEPT !.dirty = {}, !.committed = @ \cup tree.dirty, !.head = @ + 1]
    /\ UNCHANGED <<routing, probed, call, current, armed, agents, accrued, recorded, ledger>>

----------------------------------------------------------------------------
(* What a turn is said to have cost                                         *)

DeltaMeasured ==
    /\ current.latest # Unknown /\ ~current.mismatch
    /\ current.base # Unknown /\ current.latest >= current.base

UsageSource == IF current.latest = Unknown
               THEN IF current.tokens THEN "tokens-only" ELSE "unavailable"
               ELSE IF DeltaMeasured THEN "acp-delta" ELSE "unavailable"

CostOfTurn == IF DeltaMeasured THEN current.latest - current.base ELSE 0

(* priceTurn: only a turn of unavailable usage has no price; a turn of the  *)
(* SDK always counts as measured.                                           *)
TurnMeasured == call.engine = "sdk" \/ UsageSource # "unavailable"

----------------------------------------------------------------------------
(* A worker's turn is over: reconcileWorkerCommit                           *)

Returned(role) == current.step = "returned" /\ call.at = "turn" /\ call.role = role

WorkerStatus(stop) == CASE stop = "end_turn" -> "completed"
                        [] stop \in {"timeout", "first_token_timeout"} -> stop
                        [] OTHER -> "failed"

Cumulative == IF call.engine = "acp" /\ UsageSource = "acp-delta" THEN current.latest ELSE Unknown

TakeTurn ==
    /\ Returned("worker")
    /\ call' = [call EXCEPT !.at = "head", !.outcome = WorkerStatus(current.stop),
                            !.cost = CostOfTurn, !.measured = TurnMeasured,
                            !.last = current.sess, !.upto = Cumulative, !.cut = current.cut # "none"]
    /\ current' = [NoTurn EXCEPT !.n = current.n]
    /\ UNCHANGED <<routing, probed, armed, agents, accrued, recorded, ledger, tree>>

ReadHead ==
    /\ call.at = "head"
    /\ call' = [call EXCEPT !.at = "status", !.head = tree.head]
    /\ UNCHANGED <<routing, probed, current, armed, agents, accrued, recorded, ledger, tree>>

ReadStatus ==
    /\ call.at = "status"
    /\ call' = [call EXCEPT !.dirty = tree.dirty, !.commit = call.head # call.base,
                            !.at = IF tree.dirty # {} THEN "commit" ELSE "settle"]
    /\ UNCHANGED <<routing, probed, current, armed, agents, accrued, recorded, ledger, tree>>

GitFails ==
    /\ call.at \in {"head", "status", "commit"}
    /\ call' = [call EXCEPT !.at = "settle", !.outcome = "failed"]
    /\ UNCHANGED <<routing, probed, current, armed, agents, accrued, recorded, ledger, tree>>

(* git.commit: everything is staged but the edits to paths that are never   *)
(* committed, which are reverted; nothing staged is no commit.              *)
Commit ==
    /\ call.at = "commit"
    /\ \E never \in SUBSET tree.dirty :
        LET staged == tree.dirty \ never IN
        /\ tree' = [tree EXCEPT !.dirty = {}, !.committed = @ \cup staged,
                                !.head = IF staged = {} THEN @ ELSE @ + 1]
        /\ call' = [call EXCEPT !.at = IF staged = {} THEN "settle" ELSE "recount",
                                !.harness = staged # {}, !.commit = @ \/ staged # {}]
    /\ UNCHANGED <<routing, probed, current, armed, agents, accrued, recorded, ledger>>

(* What is dirty after the harness commit, or what was if that fails.       *)
Recount ==
    /\ call.at = "recount"
    /\ \E dirty \in {tree.dirty, call.dirty} :
        call' = [call EXCEPT !.at = "settle", !.dirty = dirty]
    /\ UNCHANGED <<routing, probed, current, armed, agents, accrued, recorded, ledger, tree>>

----------------------------------------------------------------------------
(* A structured turn is over: runStructuredLadder                           *)

(* What extraction can make of a reply. A text that ends inside the JSON    *)
(* document is repaired, by closing it, into a part of the document.        *)
Readings == IF ~current.text THEN {"invalid"}
            ELSE IF current.stop = "end_turn" THEN {"valid", "invalid"}
            ELSE {"valid", "repaired", "invalid"}

(* runLeadSdk has a ladder of its own over calls of the SDK: it does not    *)
(* repair, but salvages the plan from the last reply; a call that threw is  *)
(* not repeated unless its stream never opened.                             *)
LeadOfSdk == call.role = "lead" /\ call.engine = "sdk"

LastAttempt == call.tries + 1 >= MaxAttempts

(* Rung 0: a turn a watchdog cut has no reply to read; neither has a call   *)
(* of the SDK that threw.                                                   *)
NoReplyButThrown == call.engine = "sdk" /\ current.latest = Unknown
NoReply == current.cut # "none" \/ (call.engine = "sdk" /\ current.latest = Unknown)

MayRetry == ~LastAttempt /\ (LeadOfSdk => ~NoReply \/ current.cut = "open")

(* What is read of a reply: the ladder repairs at once, the lead at last.   *)
ReadAs == IF NoReply THEN {"none"}
          ELSE Readings \ (IF LeadOfSdk /\ ~LastAttempt THEN {"repaired"} ELSE {})

(* The usage of the attempts together: reviewOnce hears of each of them,    *)
(* runStructuredAcp and runLeadSdk say what the last one was.               *)
HeardOf == call.role = "review" => call.measured

CountedAgain(c) == [c EXCEPT !.tries = @ + 1, !.cost = 2 * @ + CostOfTurn,
                             !.measured = TurnMeasured /\ HeardOf]
Counted(c) == [c EXCEPT !.tries = @ + 1, !.cost = @ + CostOfTurn,
                        !.measured = TurnMeasured /\ HeardOf]

TakeReply(reading) ==
    /\ \E role \in {"review", "lead"} : Returned(role)
    /\ reading \in ReadAs
    /\ LET c == Counted(call) IN
       call' = IF reading \in {"valid", "repaired"}
               THEN [c EXCEPT !.at = "settle", !.outcome = "answered", !.cut = current.cut # "none",
                              !.whole = current.stop = "end_turn", !.partial = reading = "repaired"]
               ELSE IF MayRetry THEN [c EXCEPT !.at = "begin"]
               ELSE [c EXCEPT !.at = "settle", !.outcome = "exhausted"]
    /\ current' = [NoTurn EXCEPT !.n = current.n]
    /\ UNCHANGED <<routing, probed, armed, agents, accrued, recorded, ledger, tree>>

----------------------------------------------------------------------------
(* Settling a call                                                          *)

(* The cumulative checkpoint moves only from the baseline of the turn.      *)
CheckpointMoved == /\ call.upto # Unknown /\ recorded[call.last] # Unknown
                   /\ recorded[call.last] # call.upto - call.cost

(* finishProviderCallWithSpend: the spend and the checkpoint, or neither.   *)
Settle ==
    /\ call.at = "settle"
    /\ IF ~call.measured \/ CheckpointMoved THEN UNCHANGED <<ledger, recorded>>
       ELSE /\ ledger' = ledger + call.cost
            /\ recorded' = IF call.upto = Unknown THEN recorded
                             ELSE [recorded EXCEPT ![call.last] = call.upto]
    /\ call' = [NoCall EXCEPT !.last = call.last]
    /\ UNCHANGED <<routing, probed, current, armed, agents, accrued, tree>>

(* The bound of the turns is reached in the middle of a ladder.             *)
OutOfTurns ==
    /\ call.at = "begin" /\ current.n = MaxTurns
    /\ call' = [call EXCEPT !.at = "settle", !.outcome = "exhausted"]
    /\ UNCHANGED <<routing, probed, current, armed, agents, accrued, recorded, ledger, tree>>

----------------------------------------------------------------------------
Conversation ==
    \/ Initialized \/ Loaded \/ LoadRefused \/ Created \/ Prompted \/ Refused \/ CostReplayed
    \/ \E kind \in {"text", "tool", "cost"} : Streams(kind)
    \/ \E stop \in {"end_turn", "max_tokens", "tool_error"}, tokens \in BOOLEAN :
          PromptAnswered(stop, tokens)
    \/ StreamOpens \/ StreamSpeaks
    \/ \E stop \in {"end_turn", "max_tokens", "tool_error"} : StreamResult(stop)

Caller ==
    \/ Probe \/ Begin \/ TakeTurn \/ ReadHead \/ ReadStatus \/ GitFails \/ Commit \/ Recount
    \/ \E reading \in {"none", "valid", "repaired", "invalid"} : TakeReply(reading)
    \/ Settle \/ OutOfTurns

TurnsNext ==
    \/ \E role \in TurnRoles, resume \in {NoSession, call.last} : CallRole(role, resume)
    \/ Conversation \/ Caller
    \/ \E w \in {"open", "token", "overall"} : WatchdogFires(w)
    \/ \E t \in TurnNos : AgentExits(t) \/ AgentSpends(t) \/ AgentEdits(t) \/ AgentCommits(t)

TurnsSpec == TurnsInit /\ [][TurnsNext]_turnVars

(* The caller's code runs on; the overall timer fires; a process that got   *)
(* SIGTERM, and SIGKILL five seconds later, exits. Of an agent nothing is   *)
(* assumed: it may never answer, stream or exit.                            *)
TurnsFair ==
    /\ TurnsSpec
    /\ WF_turnVars(Caller)
    /\ WF_turnVars(WatchdogFires("overall"))
    /\ \A t \in TurnNos : WF_turnVars(agents[t].is = "leaving" /\ AgentExits(t))

----------------------------------------------------------------------------
(* Properties                                                               *)

(* A turn a watchdog cut never yields an answer, whatever its agent said    *)
(* before it died, and a worker's turn counts as completed only when its    *)
(* agent ended it: a reply raced by a watchdog is not a reply.              *)
CutTurnsAnswerNothing ==
    (call.at = "settle" /\ call.outcome \in {"answered", "completed"}) => ~call.cut

(* Over all the turns that resume, reload or replace a provider session,    *)
(* the deltas billed never add up to more than the providers charged: no    *)
(* cost is billed twice.                                                    *)
BilledNeverExceedsCharged == ledger <= MapThenSumSet(LAMBDA s : accrued[s], TurnNos)

(* A completed worker result accounts for the worktree: an edit that is in  *)
(* no commit is reported as uncommitted, and a commit beyond the base is    *)
(* reported as one, whoever of the agent and the harness made it.           *)
CompletedIsAccounted ==
    (call.at = "settle" /\ call.outcome = "completed") =>
        /\ tree.dirty \subseteq call.dirty
        /\ tree.head # call.base => call.commit

(* Every call ends, though its agent may hang, ignore SIGTERM or never say  *)
(* a word, and no agent process outlives its turn for good.                 *)
TurnsEnd ==
    /\ (call.at # "idle") ~> (call.at = "idle")
    /\ \A t \in TurnNos : (agents[t].is = "up") ~> (agents[t].is = "gone")

-----------------------------------------------------------------------------
(* What docs and comments claim, and TLC refutes (README, section 14)      *)

(* adapters/shared/structured.ts:191-194 of a reply that was cut off: to    *)
(* repair its fragment into a document would fabricate a review.            *)
AnswersAreWhole ==
    (call.at = "settle" /\ call.outcome = "answered" /\ ~call.whole) => ~call.partial

(* adapters/acp.ts:217 of "acp-delta": the cost is a real delta of the      *)
(* agent's cumulative figure.                                               *)
DeltaIsReal ==
    (current.step = "returned" /\ call.engine = "acp" /\ UsageSource = "acp-delta"
       /\ current.sess # current.from) => current.base = 0
=============================================================================
