-------------------------- MODULE CampaignAccounting -------------------------
(***************************************************************************)
(* What the budgets of the campaign scheduler must add up to: statements   *)
(* about sums over leases, checked against the running totals that         *)
(* campaign_scheduler.py keeps by adding and (clamped) subtracting.        *)
(***************************************************************************)
EXTENDS CampaignScheduler

\* The sum of the budgets f[x], x in S.  It is the number of their units: each
\* is a pair of an x and one of the numbers 1 .. f[x][d].
Units(S, f, d) == UNION {{x} \X (1 .. f[x][d]) : x \in S}
SumOver(S, f) == [d \in Dims |-> Cardinality(Units(S, f, d))]

BudgetHeldAccounts == {a \in Accounts : a[1] # "worker"}
ChargedTo(a) == {l \in lease_history : a \in ChargedAccounts(l)}
HeldBy(a) == leases \cap ChargedTo(a)
GrantedBy(a) == {g \in evidence_grants : CampaignAccount(g.campaign_id) = a}

ReservationOf(l) == request[l[1]].reservation
Reservation == [l \in lease_history |-> ReservationOf(l)]
Cost == [g \in Grants |-> EvidenceCost(g)]

\* Reservations are held by leases and by nothing else: a campaign or a branch
\* has reserved exactly what its held leases reserved, so none leaks when a
\* lease ends in one of eight ways and the clamp in subtract() never hides one.
ReservedIsHeld ==
    \A a \in BudgetHeldAccounts : reserved[a] = SumOver(HeldBy(a), Reservation)

\* Consumption is the ledger: every campaign, branch and worker total is the
\* sum, over all leases ever issued, of what the last logged result of the
\* lease says, plus the evidence grants of the campaign.  Each attempt is
\* charged once, and refunds never clamp.
ConsumedIsLedger ==
    \A a \in Accounts :
        consumed[a] = Plus(SumOver(ChargedTo(a), charge), SumOver(GrantedBy(a), Cost))

\* The running totals of every account are what its leases and grants say,
\* whatever the order of claims, results, retries, cancellations and restarts.
AccountsAddUp == ReservedIsHeld /\ ConsumedIsLedger

\* The part of a lease's charge that its reservation admitted.
Admitted ==
    [l \in lease_history |-> [d \in Dims |->
        IF l \in leases \/ charge[l][d] > ReservationOf(l)[d] THEN ReservationOf(l)[d] ELSE charge[l][d]]]

\* With the limits configured before the first lease, no order of claims,
\* expiries, refunds and late results admits more than the limit: what leases
\* reserved, less what they gave back, plus the grants, stays within it.  (What
\* a worker uses beyond its reservation is charged but was never admitted.)
AdmittedWithinLimit ==
    \A a \in BudgetHeldAccounts :
        Within(Plus(SumOver(ChargedTo(a), Admitted), SumOver(GrantedBy(a), Cost)), limits[a])

=============================================================================
