----------------------------- MODULE Enrollment -----------------------------
(***************************************************************************)
(* Bootstrap of a team server and enrolment of machines in packages/team:  *)
(* a one-time token, given out by the bootstrap, is exchanged for the API  *)
(* key of a machine, which the client saves in its team configuration.     *)
(* Each handler awaits the body of its request and then runs to its end;   *)
(* the statements it executes are no transaction, so that a crash of the   *)
(* server may separate them, and requests and responses may be late or     *)
(* lost.                                                                   *)
(*                                                                         *)
(* Abstractions: a token, an API key or a row id is the number under which *)
(* it was made and stands for its hash; requests that fail the schema are  *)
(* left out, as they change nothing.                                       *)
(***************************************************************************)
EXTENDS Naturals, FiniteSets

CONSTANTS
  Admins,       \* bootstrap requests
  Clients,      \* `team enroll` processes
  Machines,     \* hardware ids
  MachineOf,    \* the machine on which a client runs
  Names,        \* team names
  NoConfig,     \* the machine has no team configuration
  MaxServings,  \* bound: handlers that write
  MaxEnrollFaults \* bound: crashes and lost messages

ASSUME EnrollAssumption ==
  /\ MachineOf \in [Clients -> Machines]
  /\ MaxServings \in Nat /\ MaxEnrollFaults \in Nat

VARIABLES
  teams,      \* rows of teams: [team, name]
  tokens,     \* rows of enrollment_tokens: [token, team, usedBy], 0 if unused
  machines,   \* rows of machines: [row, team, machine, key]
  expired,    \* the tokens whose expires_at has passed
  admin,      \* per bootstrap request: where it is, and the name it asks for
  handedOut,  \* the tokens that an admin has received
  client,     \* per client: where it is
  inbox,      \* enrol requests on their way: [client, token]
  replies,    \* responses on their way: [client, config]
  config,     \* team.json of each machine
  servings,   \* numbers what is made, and counter for the bound
  enrollFaults, \* counter for the bound
  spentBy,    \* history: <<token, row>> of each enrolment
  torn,       \* history: tokens that a crash left unmarked
  raced       \* history: have two bootstraps been past their check at once?

database == <<teams, tokens, machines, expired>>
people == <<admin, handedOut, client, inbox, replies, config>>
enrollHistory == <<spentBy, torn, raced>>
enrollVars == <<database, people, servings, enrollFaults, enrollHistory>>

EnrollInit ==
  /\ teams = {} /\ tokens = {} /\ machines = {} /\ expired = {}
  /\ admin = [a \in Admins |-> "new"] /\ handedOut = {}
  /\ client = [c \in Clients |-> "new"] /\ inbox = {} /\ replies = {}
  /\ config = [m \in Machines |-> NoConfig]
  /\ servings = 0 /\ enrollFaults = 0
  /\ spentBy = {} /\ torn = {} /\ raced = FALSE

EnrollFault ==
  /\ enrollFaults < MaxEnrollFaults
  /\ enrollFaults' = enrollFaults + 1

Serve ==
  /\ servings < MaxServings
  /\ servings' = servings + 1

-----------------------------------------------------------------------------
(***************************************************************************)
(* POST /api/v1/admin/bootstrap.                                           *)
(***************************************************************************)

\* The teams are counted before the body is awaited.
BootstrapChecks(a) ==
  /\ admin[a] = "new"
  /\ admin' = [admin EXCEPT ![a] = IF teams = {} THEN "body" ELSE "refused"]
  /\ raced' = (raced \/ (teams = {} /\ \E b \in Admins : admin[b] = "body"))
  /\ UNCHANGED <<database, handedOut, client, inbox, replies, config, servings,
                 enrollFaults, spentBy, torn>>

\* insertTeam, insertTeamMember and insertEnrollmentToken; a name that is
\* taken is an error.  The answer may be lost.
BootstrapWrites(a) ==
  /\ admin[a] = "body"
  /\ Serve
  /\ \E n \in Names :
       IF \E t \in teams : t.name = n
       THEN /\ admin' = [admin EXCEPT ![a] = "refused"]
            /\ UNCHANGED <<teams, tokens, handedOut, enrollFaults>>
       ELSE /\ teams' = teams \cup {[team |-> servings', name |-> n]}
            /\ tokens' = tokens \cup {[token |-> servings', team |-> servings', usedBy |-> 0]}
            /\ \/ /\ handedOut' = handedOut \cup {servings'}
                  /\ admin' = [admin EXCEPT ![a] = "done"]
                  /\ UNCHANGED enrollFaults
               \/ /\ EnrollFault
                  /\ admin' = [admin EXCEPT ![a] = "lost"]
                  /\ UNCHANGED handedOut
  /\ UNCHANGED <<machines, expired, client, inbox, replies, config, enrollHistory>>

\* The server dies after insertTeam or insertTeamMember.
BootstrapDies(a) ==
  /\ admin[a] = "body"
  /\ Serve /\ EnrollFault
  /\ \E n \in Names \ {t.name : t \in teams} :
       teams' = teams \cup {[team |-> servings', name |-> n]}
  /\ admin' = [admin EXCEPT ![a] = "lost"]
  /\ UNCHANGED <<tokens, machines, expired, handedOut, client, inbox, replies, config,
                 enrollHistory>>

TokenExpires ==
  /\ \E t \in tokens : t.token \notin expired /\ expired' = expired \cup {t.token}
  /\ UNCHANGED <<teams, tokens, machines, people, servings, enrollFaults, enrollHistory>>

-----------------------------------------------------------------------------
(***************************************************************************)
(* `patchwork team enroll` and enrollMachine.                              *)
(***************************************************************************)

\* Only a machine without a configuration asks.
EnrollAsks(c) ==
  /\ client[c] = "new" /\ config[MachineOf[c]] = NoConfig
  /\ \E t \in handedOut : inbox' = inbox \cup {[client |-> c, token |-> t]}
  /\ client' = [client EXCEPT ![c] = "waiting"]
  /\ UNCHANGED <<database, admin, handedOut, replies, config, servings, enrollFaults,
                 enrollHistory>>

\* The request times out or its connection breaks; the server may get it still.
EnrollGivesUp(c) ==
  /\ client[c] = "waiting"
  /\ EnrollFault
  /\ client' = [client EXCEPT ![c] = "new"]
  /\ UNCHANGED <<database, admin, handedOut, inbox, replies, config, servings, enrollHistory>>

\* An answer that nobody waits for any more is dropped.
EnrollAnswered(c) ==
  \E r \in replies :
    /\ r.client = c
    /\ replies' = replies \ {r}
    /\ IF client[c] = "waiting"
       THEN /\ client' = [client EXCEPT ![c] = IF r.config = NoConfig THEN "new" ELSE "done"]
            /\ config' = IF r.config = NoConfig THEN config
                         ELSE [config EXCEPT ![MachineOf[c]] = r.config]
       ELSE UNCHANGED <<client, config>>
    /\ UNCHANGED <<database, admin, handedOut, inbox, servings, enrollFaults, enrollHistory>>

\* `patchwork team unenroll` removes what is on the machine only.
Unenroll(m) ==
  /\ config[m] # NoConfig
  /\ config' = [config EXCEPT ![m] = NoConfig]
  /\ client' = [c \in Clients |-> IF MachineOf[c] = m /\ client[c] = "done"
                                  THEN "new" ELSE client[c]]
  /\ UNCHANGED <<database, admin, handedOut, inbox, replies, servings, enrollFaults,
                 enrollHistory>>

-----------------------------------------------------------------------------
(***************************************************************************)
(* POST /api/v1/enroll.                                                    *)
(***************************************************************************)

\* Mutant: a token that has been used is accepted.
tokenAcceptedAgain(t) == \E r \in tokens : r.token = t /\ t \notin expired

tokenAccepted(t) == \E r \in tokens : r.token = t /\ r.usedBy = 0 /\ t \notin expired

teamOf(t) == (CHOOSE r \in tokens : r.token = t).team

enrolled(team, m) == \E r \in machines : r.team = team /\ r.machine = m

EnrollRefused(q) ==
  /\ q \in inbox
  /\ ~tokenAccepted(q.token) \/ enrolled(teamOf(q.token), MachineOf[q.client])
  /\ inbox' = inbox \ {q}
  /\ replies' = replies \cup {[client |-> q.client, config |-> NoConfig]}
  /\ UNCHANGED <<database, admin, handedOut, client, config, servings, enrollFaults,
                 enrollHistory>>

\* insertMachine and markTokenUsed; a crash may come after the first of them.
EnrollAccepted(q) ==
  LET team == teamOf(q.token)
      row == [row |-> servings', team |-> team, machine |-> MachineOf[q.client],
              key |-> servings']
  IN
  /\ q \in inbox
  /\ tokenAccepted(q.token) /\ ~enrolled(team, MachineOf[q.client])
  /\ Serve
  /\ inbox' = inbox \ {q}
  /\ machines' = machines \cup {row}
  /\ spentBy' = spentBy \cup {<<q.token, servings'>>}
  /\ \/ /\ tokens' = {IF t.token = q.token THEN [t EXCEPT !.usedBy = servings'] ELSE t :
                        t \in tokens}
        /\ replies' = replies \cup {[client |-> q.client,
             config |-> [team |-> team, row |-> servings', key |-> servings']]}
        /\ UNCHANGED <<enrollFaults, torn>>
     \/ /\ EnrollFault
        /\ torn' = torn \cup {q.token}
        /\ UNCHANGED <<tokens, replies>>
  /\ UNCHANGED <<teams, expired, admin, handedOut, client, config, raced>>

EnrollNext ==
  \/ \E a \in Admins : BootstrapChecks(a) \/ BootstrapWrites(a) \/ BootstrapDies(a)
  \/ TokenExpires
  \/ \E c \in Clients : EnrollAsks(c) \/ EnrollGivesUp(c) \/ EnrollAnswered(c)
  \/ \E m \in Machines : Unenroll(m)
  \/ \E q \in inbox : EnrollRefused(q) \/ EnrollAccepted(q)

EnrollSpec == EnrollInit /\ [][EnrollNext]_enrollVars

-----------------------------------------------------------------------------
\* machineAuth: the machine that an API key belongs to.
machineAuth(key) == {r \in machines : r.key = key}

(***************************************************************************)
(* Who is enrolled is who was let in.  There is one team, unless two       *)
(* bootstraps were past their check at the same time; a token has enrolled *)
(* one machine at most, unless the server died before it could mark it; a  *)
(* machine is enrolled once per team; and the API key in the configuration *)
(* of a machine makes the server take its events for those of that machine *)
(* in that team.                                                           *)
(***************************************************************************)
EnrollmentConsistent ==
  /\ raced \/ Cardinality(teams) <= 1
  /\ \A x, y \in spentBy : x[1] = y[1] => x = y \/ x[1] \in torn
  /\ \A r, s \in machines : r.team = s.team /\ r.machine = s.machine => r = s
  /\ \A m \in Machines : config[m] # NoConfig =>
       machineAuth(config[m].key) =
         {[row |-> config[m].row, team |-> config[m].team, machine |-> m,
           key |-> config[m].key]}

=============================================================================
