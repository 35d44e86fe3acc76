----------------------------- MODULE Providers -----------------------------
(***************************************************************************)
(* The RPC providers (core/api_provider, and the provider pages of             *)
(* admin_panel): the rows of PrimaryProviderSetting that administrators        *)
(* change, the list of providers that the APIProviderManager of each process   *)
(* reads once and keeps until a "reload" message, the look-ups of a provider,  *)
(* and the live subscription, which walks through the list for ever.           *)
(*                                                                         *)
(* An action is a statement, a message, an answer of a provider, or a stretch *)
(* of a coroutine between two awaits.  Web requests run in threads, so        *)
(* coroutines of one process interleave as those of two do.                   *)
(***************************************************************************)
EXTENDS Integers, FiniteSets

CONSTANTS
  Names,        \* rows of PrimaryProviderSetting whose provider has a class
  Sockets,      \* those that have a ws_url
  Reachable,    \* those that always answer
  Procs,        \* processes, each with its APIProviderManager
  Listeners,    \* processes that subscribe to "config_updates": those that run
                \* run_background_service, beside workers and a subscription
  Callers,      \* coroutines that look for a provider and call it
  Subscribers,  \* coroutines in subscribe_to_programs
  Home,         \* the process of each
  Admins,       \* administrators, who make one request after the other
  Pages,        \* those who use the pages of Django's admin, not the API
  Start,        \* the rows when we begin to look
  Forms,        \* bound: the rows that the pages save
  MaxChanges,   \* bound: requests of administrators
  MaxFaults,    \* bound: failed statements and messages
  None

Clients == Callers \cup Subscribers

ASSUME ProviderConstants ==
  /\ None \notin Names /\ None \notin [active : BOOLEAN, primary : BOOLEAN]
  /\ Sockets \subseteq Names /\ Reachable \subseteq Names
  /\ Listeners \subseteq Procs /\ Pages \subseteq Admins
  /\ Callers \cap Subscribers = {} /\ Home \in [Clients -> Procs]
  /\ {MaxChanges, MaxFaults} \subseteq Nat
  /\ Forms \subseteq [active : BOOLEAN, primary : BOOLEAN]
  /\ Start \in [Names -> [active : BOOLEAN, primary : BOOLEAN] \cup {None}]
  /\ \A m, n \in Names :
       Start[m] # None /\ Start[n] # None /\ Start[m].primary /\ Start[n].primary => m = n
  /\ IsFiniteSet(Names)

VARIABLES
  row,        \* PrimaryProviderSetting
  changes,    \* how many requests there were
  admin,      \* where each request of an administrator is
  inbox,      \* "reload" messages wait for the listener of the process
  cache,      \* _rpc_providers_cache and _primary_provider_name_cache
  client,     \* where each coroutine is
  faults,
  missed,     \* history: a change of the API was not announced, nor any since
  overtaken,  \* history: a process keeps what is older than its last reload
  raced       \* history: two saves of a primary provider overlapped

rowVars == <<row, changes, admin, missed, raced>>
vars == <<rowVars, inbox, cache, client, faults, overtaken>>

-----------------------------------------------------------------------------
(* Types and helpers *)

Row == [active : BOOLEAN, primary : BOOLEAN]
Active == {n \in Names : row[n] # None /\ row[n].active}
PrimaryRows == {n \in Names : row[n] # None /\ row[n].primary}
Primaries == Active \cap PrimaryRows

AdminSteps == {"idle", "clear", "write", "publish", "commit"}
Request ==
  [step : AdminSteps, name : Names \cup {None}, new : Row \cup {None},
   others : SUBSET Names]
NoRequest == [step |-> "idle", name |-> None, new |-> None, others |-> {}]

Cache == [known : BOOLEAN, list : SUBSET Names, primary : Names \cup {None}]
Empty == [known |-> FALSE, list |-> {}, primary |-> None]

ClientSteps == {"primary", "keepPrimary", "list", "keepList", "try", "listen"}
Holding == {"keepPrimary", "keepList"}
Client ==
  [step : ClientSteps, first : Names \cup {None}, todo : SUBSET Names]
NoClient == [step |-> "primary", first |-> None, todo |-> {}]

Change == changes < MaxChanges /\ changes' = changes + 1
Fault == faults < MaxFaults /\ faults' = faults + 1

Init ==
  /\ row = Start /\ changes = 0
  /\ admin = [a \in Admins |-> NoRequest]
  /\ inbox = [m \in Procs |-> FALSE]
  /\ cache = [m \in Procs |-> Empty]
  /\ client = [c \in Clients |-> NoClient]
  /\ faults = 0
  /\ missed = FALSE /\ raced = FALSE
  /\ overtaken = [m \in Procs |-> FALSE]

-----------------------------------------------------------------------------
(* Changes of the settings *)

\* A row that a transaction has written stays locked until it commits.
Locked(a) == UNION {admin[b].others \cup {admin[b].name} : b \in Pages \ {a}}

\* Request a, or another, has unset the primaries it saw and will save its own.
Cleared(a) ==
  /\ admin[a].new # None /\ admin[a].new.primary
  /\ admin[a].step = "write" \/ a \in Pages
Races(a) == \E b \in Admins \ {a} : Cleared(b)

\* provider_set_primary_api, provider_toggle_active_api and
\* provider_update_tier_api load the row, change a field and save them all.
Api_Load(a) ==
  /\ a \notin Pages /\ admin[a].step = "idle" /\ Change
  /\ \E n \in Names :
       /\ row[n] # None
       /\ \E new \in {row[n], [row[n] EXCEPT !.primary = TRUE],
                      [row[n] EXCEPT !.active = ~@]} :
            admin' = [admin EXCEPT ![a] =
              [NoRequest EXCEPT !.step = IF new.primary THEN "clear" ELSE "write",
                                !.name = n, !.new = new]]
  /\ UNCHANGED <<row, missed, raced, inbox, cache, client, faults, overtaken>>

\* Mutant: only the active ones.
Unset_Active(a) == Primaries \ {admin[a].name}
Unset(a) == PrimaryRows \ {admin[a].name}

\* save() of a primary row first unsets the others, in a statement of its own.
Api_Clear(a) ==
  /\ admin[a].step = "clear"
  /\ Unset(a) \cap Locked(a) = {}
  /\ row' = [n \in Names |-> IF n \in Unset(a) THEN [row[n] EXCEPT !.primary = FALSE]
                             ELSE row[n]]
  /\ raced' = (raced \/ Races(a))
  /\ admin' = [admin EXCEPT ![a].step = "write"]
  /\ UNCHANGED <<changes, missed, inbox, cache, client, faults, overtaken>>

\* A failed save publishes nothing, though the primaries may be unset by now.
Api_Write(a) ==
  /\ admin[a].step = "write"
  /\ \/ /\ admin[a].name \notin Locked(a)
        /\ row' = [row EXCEPT ![admin[a].name] = admin[a].new]
        /\ admin' = [admin EXCEPT ![a].step = "publish"]
        /\ UNCHANGED <<missed, faults>>
     \/ /\ Fault
        /\ admin' = [admin EXCEPT ![a] = NoRequest]
        /\ missed' = (missed \/ admin[a].new.primary)
        /\ UNCHANGED row
  /\ UNCHANGED <<changes, raced, inbox, cache, client, overtaken>>

\* A page of the admin site: the statements of the save, or of the deletion.
\* The primaries it unsets are those that it sees.  save_model publishes inside the
\* transaction; a deletion publishes nothing.  The list page may save several rows
\* in its transaction; left out: here it saves one.
Page_Save(a) ==
  /\ a \in Pages /\ admin[a].step = "idle" /\ Change
  /\ \E n \in Names, new \in Forms \cup {None} :
       LET others == IF new # None /\ new.primary THEN PrimaryRows \ {n} ELSE {} IN
       /\ new = None => row[n] # None
       /\ (others \cup {n}) \cap Locked(a) = {}
       /\ raced' = (raced \/ (new # None /\ new.primary /\ Races(a)))
       /\ admin' = [admin EXCEPT ![a] =
            [NoRequest EXCEPT !.step = IF new = None THEN "commit" ELSE "publish",
                              !.name = n, !.new = new, !.others = others]]
  /\ UNCHANGED <<row, missed, inbox, cache, client, faults, overtaken>>

After(a) == IF a \in Pages THEN [admin[a] EXCEPT !.step = "commit"] ELSE NoRequest

\* To whoever listens; the API has saved the row, a page has not yet committed it.
Publish(a) ==
  /\ admin[a].step = "publish"
  /\ \/ /\ inbox' = [m \in Procs |-> inbox[m] \/ m \in Listeners]
        /\ missed' = FALSE /\ UNCHANGED faults
     \/ Fault /\ UNCHANGED inbox /\ missed' = (missed \/ a \notin Pages)
  /\ admin' = [admin EXCEPT ![a] = After(a)]
  /\ UNCHANGED <<row, changes, raced, cache, client, overtaken>>

Of(m) == {c \in Clients : Home[c] = m}
Holds(m) == cache[m] # Empty \/ \E c \in Of(m) : client[c].step \in Holding

Page_Commit(a) ==
  LET p == admin[a] IN
  /\ p.step = "commit"
  /\ row' = [n \in Names |->
               IF n = p.name THEN p.new
               ELSE IF n \in p.others THEN [row[n] EXCEPT !.primary = FALSE]
               ELSE row[n]]
  /\ admin' = [admin EXCEPT ![a] = NoRequest]
  /\ overtaken' = [m \in Procs |-> overtaken[m] \/ (~inbox[m] /\ Holds(m))]
  /\ UNCHANGED <<changes, missed, raced, inbox, cache, client, faults>>

AdminNext(a) ==
  \/ Api_Load(a) \/ Api_Clear(a) \/ Api_Write(a)
  \/ Page_Save(a) \/ Publish(a) \/ Page_Commit(a)

-----------------------------------------------------------------------------
(* The manager of a process *)

\* What a coroutine read, and has yet to keep, is no longer so.
HoldsStale(c) ==
  \/ client[c].step = "keepPrimary" /\ Primaries # {client[c].first} \ {None}
  \/ client[c].step = "keepList" /\ Active # client[c].todo

\* Mutants: force_reload keeps the primary, or the list.
force_reload_ListOnly(m) == [cache[m] EXCEPT !.known = FALSE, !.list = {}]
force_reload_KeepsList(m) == [Empty EXCEPT !.list = cache[m].list]
\* force_reload
force_reload(m) == Empty

\* redis_config_listener of run_background_service: it clears the manager that the
\* workers and the subscription of the same process use.
Reload(m) ==
  /\ inbox[m]
  /\ inbox' = [inbox EXCEPT ![m] = FALSE]
  /\ cache' = [cache EXCEPT ![m] = force_reload(m)]
  /\ overtaken' = [overtaken EXCEPT ![m] = \E c \in Of(m) : HoldsStale(c)]
  /\ UNCHANGED <<rowVars, client, faults>>

-----------------------------------------------------------------------------
(* get_all_providers *)

Kept(c) == cache[Home[c]]
Goto(c, step) == client' = [client EXCEPT ![c].step = step]
clientOnly == <<rowVars, inbox, cache, faults, overtaken>>

\* get_rpc_provider: a caller takes the first of the list that answers and has
\* quota left, or None, and leaves; a subscription walks through the list.
ToList(c, first) ==
  [NoClient EXCEPT !.step = "list", !.first = IF c \in Callers THEN None ELSE first]
Got(c, list) ==
  IF c \in Callers THEN NoClient ELSE [client[c] EXCEPT !.step = "try", !.todo = list]

\* get_primary_provider_name.  That there is none is not kept.
Primary_Kept(c) ==
  /\ client[c].step = "primary" /\ Kept(c).primary # None
  /\ client' = [client EXCEPT ![c] = ToList(c, Kept(c).primary)]
  /\ UNCHANGED clientOnly

Primary_Query(c) ==
  /\ client[c].step = "primary" /\ Kept(c).primary = None
  /\ \E first \in Names \cup {None} :
       /\ Primaries = {first} \ {None}
       /\ client' = [client EXCEPT ![c].step = "keepPrimary", ![c].first = first]
  /\ UNCHANGED clientOnly

Primary_Keep(c) ==
  /\ client[c].step = "keepPrimary"
  /\ cache' = [cache EXCEPT ![Home[c]].primary = client[c].first]
  /\ client' = [client EXCEPT ![c] = ToList(c, client[c].first)]
  /\ UNCHANGED <<rowVars, inbox, faults, overtaken>>

\* get_rpc_providers
List_Kept(c) ==
  /\ client[c].step = "list" /\ Kept(c).known
  /\ client' = [client EXCEPT ![c] = Got(c, Kept(c).list)]
  /\ UNCHANGED clientOnly

List_Query(c) ==
  /\ client[c].step = "list" /\ ~Kept(c).known
  /\ client' = [client EXCEPT ![c].step = "keepList", ![c].todo = Active]
  /\ UNCHANGED clientOnly

List_Keep(c) ==
  /\ client[c].step = "keepList"
  /\ cache' = [cache EXCEPT ![Home[c]].known = TRUE,
                            ![Home[c]].list = client[c].todo]
  /\ client' = [client EXCEPT ![c] = Got(c, client[c].todo)]
  /\ UNCHANGED <<rowVars, inbox, faults, overtaken>>

\* It needs no primary.
get_provider_by_name(c) ==
  /\ client[c].step = "primary"
  /\ Goto(c, "list")
  /\ UNCHANGED clientOnly

\* get() raises when two active rows are primary, or the query fails.  The
\* subscription sleeps and starts again, a caller gives up.
Lookup_Raises(c) ==
  /\ \/ /\ client[c].step = "primary" /\ Kept(c).primary = None
        /\ Cardinality(Primaries) > 1
        /\ UNCHANGED faults
     \/ client[c].step \in {"primary", "list"} /\ Fault
  /\ client' = [client EXCEPT ![c] = NoClient]
  /\ UNCHANGED <<rowVars, inbox, cache, overtaken>>

-----------------------------------------------------------------------------
(* subscribe_to_programs *)

\* The primary first, then the others.
Order(c) == IF client[c].first \in client[c].todo THEN {client[c].first}
            ELSE client[c].todo

\* check_availability: three attempts, any failure is a no; so is a connection or a
\* subscription that fails, and a provider that has no socket.
Unavailable(c) ==
  /\ client[c].step = "try"
  /\ \E n \in Order(c) :
       /\ n \notin Reachable \cap Sockets
       /\ client' = [client EXCEPT ![c].todo = @ \ {n}]
  /\ UNCHANGED clientOnly

Connect(c) ==
  /\ client[c].step = "try"
  /\ \E n \in Order(c) \cap Sockets :
       client' = [client EXCEPT ![c].todo = @ \ {n}, ![c].step = "listen"]
  /\ UNCHANGED clientOnly

\* Mutant: the subscription ends with its list.
NoneLeft_Stops(c) ==
  /\ client[c].step = "try" /\ client[c].todo = {}
  /\ UNCHANGED client
  /\ UNCHANGED clientOnly

\* All failed, or there was none: it sleeps and reads the list again.
NoneLeft(c) ==
  /\ client[c].step = "try" /\ client[c].todo = {}
  /\ client' = [client EXCEPT ![c] = NoClient]
  /\ UNCHANGED clientOnly

\* The connection is closed or fails: the walk goes on with the next provider.
Close(c) ==
  /\ client[c].step = "listen"
  /\ Goto(c, "try")
  /\ UNCHANGED clientOnly

-----------------------------------------------------------------------------
Walk(c) ==
  \/ Primary_Kept(c) \/ Primary_Query(c) \/ Primary_Keep(c)
  \/ List_Kept(c) \/ List_Query(c) \/ List_Keep(c)
  \/ Connect(c) \/ Unavailable(c) \/ NoneLeft(c)

Next ==
  \/ \E a \in Admins : AdminNext(a)
  \/ \E m \in Procs : Reload(m)
  \/ \E c \in Clients : Walk(c) \/ Lookup_Raises(c)
  \/ \E c \in Callers : get_provider_by_name(c)
  \/ \E c \in Subscribers : Close(c)

Spec == Init /\ [][Next]_vars

\* The subscription's event loop goes on, and what is Reachable answers; no
\* connection need ever close, nobody need change a row.
FairSpec == Spec /\ \A c \in Subscribers : WF_vars(Walk(c))

-----------------------------------------------------------------------------
(* Properties *)

TypeOK ==
  /\ row \in [Names -> Row \cup {None}]
  /\ admin \in [Admins -> Request]
  /\ inbox \in [Procs -> BOOLEAN]
  /\ cache \in [Procs -> Cache]
  /\ \A m \in Procs : cache[m].known \/ cache[m].list = {}
  /\ client \in [Clients -> Client]
  /\ changes \in 0..MaxChanges /\ faults \in 0..MaxFaults
  /\ missed \in BOOLEAN /\ raced \in BOOLEAN /\ overtaken \in [Procs -> BOOLEAN]

\* A request has changed a row and told nobody yet.
Unannounced(a) ==
  \/ admin[a].step = "write" /\ admin[a].new.primary
  \/ admin[a].step = "publish" /\ a \notin Pages

Settled(m) ==
  ~inbox[m] /\ ~overtaken[m] /\ ~missed /\ \A a \in Admins : ~Unannounced(a)

\* What redis_config_listener (run_background_service.py) is for: when its messages
\* are handled, the workers and the subscription of a process that listens use the
\* providers and the primary of the database, unless a message was lost and none came
\* since, a look-up had read the rows before a change and kept them after the reload,
\* or a page committed after the reload.  It says nothing of a process that does not
\* listen: that one keeps its first list for ever.
CacheCurrent ==
  \A m \in Listeners : Settled(m) =>
    /\ cache[m].known => cache[m].list = Active
    /\ cache[m].primary # None => Primaries = {cache[m].primary}

\* "Ensure only one provider is primary" (admin_panel/models.py): so it is as long
\* as no two saves of a primary provider overlap; saves of stale rows, failed saves
\* and deletions do no harm.
OnePrimary == ~raced => \A m, n \in PrimaryRows : m = n

\* As long as the list that a subscription reads has a provider that answers, the
\* subscription finds it again after every failure.
Findable(c) ==
  /\ Kept(c).primary = None => Cardinality(Primaries) <= 1
  /\ \E n \in Reachable \cap Sockets :
       n \in (IF Kept(c).known THEN Kept(c).list ELSE Active)

KeepsListening ==
  \A c \in Subscribers : <>[]Findable(c) => []<>(client[c].step = "listen")
=============================================================================
