---------------------------- MODULE ControlPlane ----------------------------
(***************************************************************************)
(* The control plane of internal/controlplane/service.go and the rate card *)
(* of internal/billing: tenants, metered usage, monthly summaries and      *)
(* invoices, behind an HTTP handler that serves requests concurrently.     *)
(* Every method of Service holds s.mu, so each is one step; what happens   *)
(* outside the lock (the clock AddUsage reads, the pages a client asks for *)
(* one after the other) interleaves.                                       *)
(*                                                                         *)
(* A tenant ID is a natural number, 0 the empty string; the order of the   *)
(* strings is the order of the numbers.  Month m is the MonthLength ticks  *)
(* from m * MonthLength.  int and int64 have Width bits.  Rates are whole  *)
(* numbers, and an amount is left as the product of usage and rate.        *)
(***************************************************************************)
EXTENDS Integers, Sequences, FiniteSets

CONSTANTS
    Clients,
    Requests,        \* the POST requests clients make
    KeyRequired,     \* CONTROLPLANE_API_KEY is set
    AskedSizes,      \* page_size parameters
    DefaultPageSize, MaxPageSize,    \* 50 and 200
    Width,           \* bits of an int
    MonthLength,
    MaxTenant,       \* bound: the last tenant ID
    MaxClock,        \* bound: the clock stops here
    MaxEvents        \* bound: usage events

ASSUME ControlPlaneAssumption ==
    /\ Width \in Nat \ {0} /\ MonthLength \in Nat \ {0}
    /\ DefaultPageSize \in 1..MaxPageSize /\ MaxPageSize \in Nat
    /\ AskedSizes \subseteq Int
    /\ MaxTenant \in Nat /\ MaxClock \in Nat /\ MaxEvents \in Nat
    /\ 2^(Width - 1) \in Nat \ {0}    \* true of any Width; the provers do not know powers

ASSUME RequestsAssumption ==
    \A r \in Requests :
        /\ r.op \in {"tenant", "usage"} => r.tenant \in 0..MaxTenant
        /\ r.op = "usage" => r.n \in Int
        /\ r.op = "rate" => r.rate \in Int

VARIABLES
    tenants, usage, usageEvent, rate,   \* Service
    clock,
    pc,      \* per client: "idle", "serve", "stamped" or "walk"
    req,     \* the request being served
    at,      \* the time AddUsage has read
    walk     \* a client's walk through the pages of a list

service == <<tenants, usage, usageEvent, rate>>
vars == <<service, clock, pc, req, at, walk>>

NoRequest == [op |-> "none"]

NoWalk == [list |-> "none", page |-> 0, size |-> 0, seen |-> {}, before |-> {}]

-----------------------------------------------------------------------------
(* Two's complement: an int is in -Half..(Half - 1). *)
Half == 2^(Width - 1)

Wrap(n) == ((n + Half) % (2 * Half)) - Half

(* A loop that adds up d in an int64. *)
Total(d) ==
    LET sum[k \in 0..Len(d)] == IF k = 0 THEN 0 ELSE Wrap(sum[k - 1] + d[k])
    IN  sum[Len(d)]

InMonthClosed(m, x) == m * MonthLength <= x /\ x <= (m + 1) * MonthLength

(* !OccurredAt.Before(monthStart) && OccurredAt.Before(monthEnd) *)
InMonth(m, x) == m * MonthLength <= x /\ x < (m + 1) * MonthLength

(* MonthlyUsageRows; a tenant without a row has 0. *)
MonthlyUsage(m, t) ==
    Total([i \in 1..Len(usageEvent) |->
              IF usageEvent[i].tenant = t /\ InMonth(m, usageEvent[i].at)
              THEN usageEvent[i].n ELSE 0])

(* grand_total_invocations of GET /billing/summary: the rows are sorted. *)
GrandTotal(m) == Total([t \in 1..MaxTenant |-> MonthlyUsage(m, t)])

(* parseMonthStart of the empty month *)
CurrentMonth == clock \div MonthLength

Usage(t) == IF t \in DOMAIN usage THEN usage[t] ELSE 0

Invoice(t) == [tenant |-> t, invocations |-> Usage(t), rate |-> rate,
               amount |-> Usage(t) * rate]

-----------------------------------------------------------------------------
Init ==
    /\ tenants = {} /\ usage = << >> /\ usageEvent = << >> /\ rate = 1
    /\ clock = 0
    /\ pc = [c \in Clients |-> "idle"]
    /\ req = [c \in Clients |-> NoRequest]
    /\ at = [c \in Clients |-> 0]
    /\ walk = [c \in Clients |-> NoWalk]

Done(c) ==
    /\ pc' = [pc EXCEPT ![c] = "idle"]
    /\ req' = [req EXCEPT ![c] = NoRequest]

(* A client sends a POST request. *)
Send(c, r) ==
    /\ pc[c] = "idle"
    /\ pc' = [pc EXCEPT ![c] = "serve"]
    /\ req' = [req EXCEPT ![c] = r]
    /\ UNCHANGED <<service, clock, at, walk>>

(* ParseRole, an unknown role being a viewer, and DefaultPolicy on "admin". *)
RoleAllowed(r) == r.role = "admin"

(* requireAPIKey, then requireAdmin *)
Admits(r) == (KeyRequired => r.key) /\ RoleAllowed(r)

(* 401 or 403, or 400 because the body does not decode. *)
Deny(c) ==
    /\ pc[c] = "serve"
    /\ ~Admits(req[c]) \/ req[c].op = "malformed"
    /\ Done(c)
    /\ UNCHANGED <<service, clock, at, walk>>

Serving(c, op) == pc[c] = "serve" /\ req[c].op = op /\ Admits(req[c])

(* POST /tenants: an empty or known ID is refused. *)
AddTenant(c) ==
    /\ Serving(c, "tenant")
    /\ tenants' = IF req[c].tenant = 0 THEN tenants ELSE tenants \cup {req[c].tenant}
    /\ Done(c)
    /\ UNCHANGED <<usage, usageEvent, rate, clock, at, walk>>

(* POST /billing/rates: NewRateCard refuses a negative price. *)
SetRate(c) ==
    /\ Serving(c, "rate")
    /\ rate' = IF req[c].rate < 0 THEN rate ELSE req[c].rate
    /\ Done(c)
    /\ UNCHANGED <<tenants, usage, usageEvent, clock, at, walk>>

(* POST /usage: AddUsage reads the clock before AddUsageAt takes the lock. *)
StampUsage(c) ==
    /\ Serving(c, "usage")
    /\ at' = [at EXCEPT ![c] = clock]
    /\ pc' = [pc EXCEPT ![c] = "stamped"]
    /\ UNCHANGED <<service, clock, req, walk>>

UsageRefusedTenantUnchecked(r) == r.tenant = 0 \/ r.n <= 0

UsageRefused(r) == r.tenant = 0 \/ r.n <= 0 \/ r.tenant \notin tenants

(* s.usage[tenantID] += invocations *)
UsageAfter(r) ==
    [t \in DOMAIN usage \cup {r.tenant} |->
        IF t = r.tenant THEN Wrap(Usage(t) + r.n) ELSE usage[t]]

AddUsageAt(c) ==
    /\ pc[c] = "stamped"
    /\ \/ UsageRefused(req[c]) /\ UNCHANGED <<usage, usageEvent>>
       \/ /\ ~UsageRefused(req[c]) /\ Len(usageEvent) < MaxEvents
          /\ usage' = UsageAfter(req[c])
          /\ usageEvent' = Append(usageEvent,
                              [tenant |-> req[c].tenant, n |-> req[c].n, at |-> at[c]])
    /\ at' = [at EXCEPT ![c] = 0]
    /\ Done(c)
    /\ UNCHANGED <<tenants, rate, clock, walk>>

-----------------------------------------------------------------------------
(* parsePagination on page_size; the pages of a walk are 1, 2, ... as asked. *)
PageSizeOf(s) == CASE s <= 0 -> DefaultPageSize
                   [] s > MaxPageSize -> MaxPageSize
                   [] OTHER -> s

(* ListTenants and UsageRows, whose rows are given by their tenants. *)
Listed(list) == IF list = "tenants" THEN tenants ELSE DOMAIN usage

(* The index of a row after sort.Strings or sort.Slice. *)
Rank(list, t) == Cardinality({u \in Listed(list) : u < t})

PageStartOneBased(page, size) == page * size

PageStart(page, size) == (page - 1) * size

(* paginateStrings and paginateUsageRows; the offsets of a walk are within   *)
(* the list, far from the range of an int.                                   *)
Page(list, page, size) ==
    {t \in Listed(list) : /\ PageStart(page, size) <= Rank(list, t)
                          /\ Rank(list, t) < PageStart(page, size) + size}

(* A client that wants a whole list, of GET /tenants or of GET /usage, asks  *)
(* for page 1, 2, ... until it has asked for as many rows as the reply's     *)
(* "total".                                                                  *)
StartWalk(c, list, s) ==
    /\ pc[c] = "idle"
    /\ pc' = [pc EXCEPT ![c] = "walk"]
    /\ walk' = [walk EXCEPT ![c] = [list |-> list, page |-> 1, size |-> PageSizeOf(s),
                                    seen |-> {}, before |-> Listed(list)]]
    /\ UNCHANGED <<service, clock, req, at>>

WalkPage(c) ==
    LET w == walk[c] IN
    /\ pc[c] = "walk"
    /\ walk' = [walk EXCEPT ![c].seen = @ \cup Page(w.list, w.page, w.size),
                            ![c].page = @ + 1]
    /\ pc' = [pc EXCEPT ![c] = IF w.page * w.size >= Cardinality(Listed(w.list))
                               THEN "walked" ELSE "walk"]
    /\ UNCHANGED <<service, clock, req, at>>

EndWalk(c) ==
    /\ pc[c] = "walked"
    /\ pc' = [pc EXCEPT ![c] = "idle"]
    /\ walk' = [walk EXCEPT ![c] = NoWalk]
    /\ UNCHANGED <<service, clock, req, at>>

Tick ==
    /\ clock < MaxClock
    /\ clock' = clock + 1
    /\ UNCHANGED <<service, pc, req, at, walk>>

Next ==
    \/ \E c \in Clients :
          \/ \E r \in Requests : Send(c, r)
          \/ Deny(c) \/ AddTenant(c) \/ SetRate(c) \/ StampUsage(c) \/ AddUsageAt(c)
          \/ \E list \in {"tenants", "usage"}, s \in AskedSizes : StartWalk(c, list, s)
          \/ WalkPage(c) \/ EndWalk(c)
    \/ Tick

Spec == Init /\ [][Next]_vars

-----------------------------------------------------------------------------
(* The service is well typed: usage is kept for known tenants only, and in   *)
(* the range of an int64.                                                    *)
TypeOK ==
    /\ tenants \subseteq Nat \ {0}
    /\ DOMAIN usage \subseteq tenants
    /\ \A t \in DOMAIN usage : usage[t] \in (-Half)..(Half - 1)
    /\ rate \in Nat
    /\ clock \in 0..MaxClock
    /\ pc \in [Clients -> {"idle", "serve", "stamped", "walk", "walked"}]
    /\ at \in [Clients -> 0..MaxClock]

LastMonth == MaxClock \div MonthLength

Months == 0..LastMonth

(* The two ways the service accounts for usage agree: a tenant's running     *)
(* total is the sum of its months, also after the counter has wrapped and    *)
(* whatever order the events were stamped and stored in; and the grand       *)
(* totals of the months add up to the usage of all tenants.                  *)
MonthsAddUpToUsage ==
    /\ \A t \in tenants :
         Usage(t) = Total([i \in 1..(LastMonth + 1) |-> MonthlyUsage(i - 1, t)])
    /\ Total([t \in 1..MaxTenant |-> Usage(t)])
         = Total([i \in 1..(LastMonth + 1) |-> GrandTotal(i - 1)])

(* The month has ended, and no request that read the clock during the month  *)
(* has yet to take the lock.                                                 *)
Final(m) ==
    /\ (m + 1) * MonthLength <= clock
    /\ ~(\E c \in Clients : pc[c] = "stamped" /\ at[c] \div MonthLength = m)

(* A month that has ended stays as it was summarised, for good, once the     *)
(* requests stamped in that month have been stored.                          *)
ClosedMonthFinal ==
    [][\A m \in Months, t \in tenants :
          Final(m) => Final(m)' /\ MonthlyUsage(m, t)' = MonthlyUsage(m, t)]_vars

(* A walk through the pages of the tenants or of the usage misses no row     *)
(* that was there when it began, although rows are added between its         *)
(* requests and shift the pages.                                             *)
WalkMissesNobody ==
    \A c \in Clients : pc[c] = "walked" => walk[c].before \subseteq walk[c].seen

-----------------------------------------------------------------------------
(* "Monthly summary totals reconcile with invoice exports for all active     *)
(* tenants": an invoice bills what the month's summary shows.                *)
InvoiceReconciles ==
    \A t \in tenants : Invoice(t).invocations = MonthlyUsage(CurrentMonth, t)
=============================================================================
