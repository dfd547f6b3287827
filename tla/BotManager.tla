----------------------------- MODULE BotManager -----------------------------
(***************************************************************************)
(* The life of the process (main.py) and of the resellers' bots in it      *)
(* (core/bot_manager.py): run_migrations, then the loop that reads the     *)
(* active resellers and starts and stops bots, while the super admin adds  *)
(* and suspends resellers (handlers/admin/reseller_management.py).         *)
(*                                                                         *)
(* The rows come in the order of the primary key, so a reseller is its id. *)
(*                                                                         *)
(* The routers of the handlers are objects of their modules, and every     *)
(* dispatcher includes the same ones.  Whether a router may be included    *)
(* in a second dispatcher is up to aiogram, which is not in the            *)
(* repository; releases 3 raise RuntimeError.  Both answers are modelled.  *)
(***************************************************************************)
EXTENDS Migrator

CONSTANTS Resellers,   \* ids
          MaxGlitches  \* bound: requests to Telegram that fail

ASSUME ResellersAssumption == Resellers \subseteq Nat /\ IsFiniteSet(Resellers)
ASSUME GlitchesAssumption == MaxGlitches \in Nat

VARIABLES
    routers_exclusive, \* whether aiogram refuses a router that has a dispatcher
    status,     \* resellers.status
    token_ok,   \* whether Telegram still accepts the bot's token
    running,    \* DynamicBotManager._running and the state of the bot's task
    attached,   \* whether some dispatcher has included the routers
    loop,       \* where run_forever is
    active,     \* active_ids: what sync_once read
    starting,   \* the reseller whose bot start_bot is about to start
    glitches    \* how often a request failed

botVars == <<status, token_ok, running, attached, loop, active, starting, glitches>>
vars == <<migratorVars, routers_exclusive, botVars>>

None == -1

\* "ended": the task is over, but _running still has it.
BotState == {"none", "polling", "ended"}
InRunning(r) == running[r] # "none"

TypeOK ==
    /\ MigratorTypeOK
    /\ routers_exclusive \in BOOLEAN
    /\ status \in [Resellers -> {"none", "active", "suspended"}]
    /\ token_ok \in [Resellers -> BOOLEAN]
    /\ running \in [Resellers -> BotState]
    /\ attached \in BOOLEAN
    /\ loop \in {"fetch", "start", "commands", "stop"}
    /\ active \subseteq Resellers
    /\ starting \in Resellers \cup {None}
    /\ glitches \in 0 .. MaxGlitches

Init ==
    /\ MigratorInit
    /\ routers_exclusive \in BOOLEAN
    /\ status = [r \in Resellers |-> "none"]
    /\ token_ok = [r \in Resellers |-> TRUE]
    /\ running = [r \in Resellers |-> "none"]
    /\ attached = FALSE
    /\ loop = "fetch" /\ active = {} /\ starting = None
    /\ glitches = 0

-----------------------------------------------------------------------------
(* What happens outside: the super admin and Telegram.                     *)

\* The dialog that asks for a token and the terms, whose last handler tries the
\* token with get_me().
AddReseller(r) ==
    /\ phase = "up" /\ status[r] = "none"
    /\ status' = [status EXCEPT ![r] = "active"]
    /\ UNCHANGED <<token_ok, running, attached, loop, active, starting, glitches>>

\* Faulty variant: the button's word is not in the enum.
Toggle_BadStatus(r) ==
    /\ phase = "up" /\ status[r] # "none"
    /\ \E new_status \in {"active", "inactive"} :
           status' = [status EXCEPT ![r] = new_status]
    /\ UNCHANGED <<token_ok, running, attached, loop, active, starting, glitches>>

\* toggle_reseller_status writes what the button says; buttons stay in the chat,
\* so it may say what is so already.
Toggle(r) ==
    /\ phase = "up" /\ status[r] # "none"
    /\ \E new_status \in {"active", "suspended"} :
           status' = [status EXCEPT ![r] = new_status]
    /\ UNCHANGED <<token_ok, running, attached, loop, active, starting, glitches>>

\* No handler replaces the token of a reseller.
RevokeToken(r) ==
    /\ status[r] # "none" /\ token_ok[r]
    /\ token_ok' = [token_ok EXCEPT ![r] = FALSE]
    /\ UNCHANGED <<status, running, attached, loop, active, starting, glitches>>

\* _run logs the exception of start_polling and returns.
PollingEnds(r) ==
    /\ running[r] = "polling"
    /\ glitches < MaxGlitches /\ glitches' = glitches + 1
    /\ running' = [running EXCEPT ![r] = "ended"]
    /\ UNCHANGED <<status, token_ok, attached, loop, active, starting>>

-----------------------------------------------------------------------------
(* sync_once.  An exception ends the round: run_forever logs it, sleeps     *)
(* and begins another one.                                                  *)

EndRound == loop' = "fetch" /\ active' = {} /\ starting' = None

\* Faulty variant: the rows are read whatever their status is.
Fetch_AnyStatus ==
    /\ phase = "up" /\ loop = "fetch"
    /\ active' = {r \in Resellers : status[r] # "none"}
    /\ loop' = "start"
    /\ UNCHANGED <<status, token_ok, running, attached, starting, glitches>>

Fetch ==
    /\ phase = "up" /\ loop = "fetch"
    /\ active' = {r \in Resellers : status[r] = "active"}
    /\ loop' = "start"
    /\ UNCHANGED <<status, token_ok, running, attached, starting, glitches>>

ToStart == {r \in active : ~InRunning(r)}
IsFirst(r) == r \in ToStart /\ \A q \in ToStart : r <= q

\* Faulty variant: another Dispatcher takes the routers over without an error.
BuildDispatcher_Shares(r) ==
    /\ loop = "start" /\ IsFirst(r)
    /\ attached' = TRUE /\ loop' = "commands" /\ starting' = r /\ UNCHANGED active
    /\ UNCHANGED <<status, token_ok, running, glitches>>

\* start_bot up to its await: the dispatcher is built.
BuildDispatcher(r) ==
    /\ loop = "start" /\ IsFirst(r)
    /\ IF attached /\ routers_exclusive
       THEN EndRound /\ UNCHANGED attached
       ELSE attached' = TRUE /\ loop' = "commands" /\ starting' = r /\ UNCHANGED active
    /\ UNCHANGED <<status, token_ok, running, glitches>>

\* Faulty variant: the bot is not entered in _running.
SetMyCommands_NotKept ==
    /\ loop = "commands" /\ token_ok[starting]
    /\ loop' = "start" /\ starting' = None
    /\ UNCHANGED <<status, token_ok, running, attached, active, glitches>>

\* set_my_commands answers: the task that polls is created.
SetMyCommands ==
    /\ loop = "commands" /\ token_ok[starting]
    /\ running' = [running EXCEPT ![starting] = "polling"]
    /\ loop' = "start" /\ starting' = None
    /\ UNCHANGED <<status, token_ok, attached, active, glitches>>

\* Or it raises.
SetMyCommandsFails ==
    /\ loop = "commands"
    /\ \/ ~token_ok[starting] /\ UNCHANGED glitches
       \/ token_ok[starting] /\ glitches < MaxGlitches /\ glitches' = glitches + 1
    /\ EndRound
    /\ UNCHANGED <<status, token_ok, running, attached>>

AllStarted ==
    /\ loop = "start" /\ ToStart = {}
    /\ loop' = "stop"
    /\ UNCHANGED <<status, token_ok, running, attached, active, starting, glitches>>

\* stop_bot.
StopBot(r) ==
    /\ loop = "stop" /\ InRunning(r) /\ r \notin active
    /\ running' = [running EXCEPT ![r] = "none"]
    /\ UNCHANGED <<status, token_ok, attached, loop, active, starting, glitches>>

Sleep ==
    /\ loop = "stop" /\ \A r \in Resellers : InRunning(r) => r \in active
    /\ EndRound
    /\ UNCHANGED <<status, token_ok, running, attached, glitches>>

-----------------------------------------------------------------------------
\* The process has ended, by a crash or a failure of the admin's bot (main()
\* then calls shutdown(), which stops the bots); all that was in memory is gone.
Exit ==
    /\ running' = [r \in Resellers |-> "none"] /\ attached' = FALSE
    /\ EndRound
    /\ UNCHANGED <<status, token_ok, glitches>>

SyncStep ==
    \/ Fetch \/ SetMyCommands \/ SetMyCommandsFails \/ AllStarted \/ Sleep
    \/ \E r \in Resellers : BuildDispatcher(r) \/ StopBot(r)

Next ==
    /\ UNCHANGED routers_exclusive
    /\ \/ (Push \/ Die) /\ Exit
       \/ (GoOn \/ \E f \in Files : ChangeSchemaFails(f)) /\ UNCHANGED botVars
       \/ /\ UNCHANGED migratorVars
          /\ \/ SyncStep
             \/ \E r \in Resellers : AddReseller(r) \/ Toggle(r) \/ RevokeToken(r) \/ PollingEnds(r)

\* The start of the process and the loop go on while nothing stops them.
Spec ==
    /\ Init /\ [][Next]_vars
    /\ WF_vars(GoOn /\ UNCHANGED <<routers_exclusive, botVars>>)
    /\ WF_vars(SyncStep /\ UNCHANGED <<routers_exclusive, migratorVars>>)

-----------------------------------------------------------------------------
(* A bot serves customers only on a database that has every migration.     *)
ServedOnMigrated ==
    \A r \in Resellers : InRunning(r) => 1 .. folder \subseteq recorded

(* Where aiogram keeps a router to one dispatcher, one process serves one  *)
(* reseller: whoever is added or suspended, and whatever fails, there is   *)
(* never a second bot, although the module promises one for each.          *)
OneBotPerProcess ==
    routers_exclusive =>
        \A q, r \in Resellers : InRunning(q) /\ InRunning(r) => q = r

(* An active reseller whose bot cannot be started: its token was revoked,  *)
(* or the routers are taken.  Every round tries it and ends there.         *)
Hinders(r) ==
    /\ status[r] = "active" /\ ~InRunning(r)
    /\ ~token_ok[r] \/ (attached /\ routers_exclusive)

(* The bot of a reseller who stays suspended is stopped: not within the    *)
(* promised 30 seconds, but unless a bot that cannot be started keeps      *)
(* every round from getting to its second half.                            *)
SuspendedStops ==
    \A r \in Resellers :
        <>[](status[r] = "suspended" /\ \A q \in Resellers : ~Hinders(q))
            => <>[]~InRunning(r)

(* A reseller who stays active gets a bot, if the token is good and no     *)
(* start before it in the list fails.  (Once its task ends, nothing starts *)
(* it again: the loop looks at _running only.)                             *)
ActiveStarts ==
    \A r \in Resellers :
        <>[](phase = "up" /\ status[r] = "active" /\ \A q \in Resellers : q <= r => ~Hinders(q))
            => <>[]InRunning(r)
=============================================================================
