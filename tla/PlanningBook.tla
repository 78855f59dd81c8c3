---------------------------- MODULE PlanningBook ----------------------------
(***************************************************************************)
(* What a planning cycle promises, without rows, revisions or requests:    *)
(* forecasts and decisions are only ever appended, an approval belongs to  *)
(* the last decision, and a closed cycle keeps everything it shows         *)
(* together with the names it showed (README, "Planning and history").     *)
(***************************************************************************)
EXTENDS Naturals, Sequences

CONSTANTS
    Cycle, Product, Master, Name, NoName, Qty,
    Selection, NoSelection,     \* choices of sources
    Shown(_)                    \* the masters of a selection

VARIABLES
    state,              \* state of each cycle
    plan,               \* its selection and the number of its adopted forecast
    forecasts,          \* the masters of every forecast version
    decisions,          \* the quantities decided for each product
    approved,           \* the products whose last decision is approved
    archive             \* the names kept at closing

bookVars == <<state, plan, forecasts, decisions, approved, archive>>

Plan(selection, adopted) == [selection |-> selection, adopted |-> adopted]

Decided(c) == {p \in Product : decisions[c][p] # <<>>}

\* Everything a reader of the cycle's page or history meets.
Kept(c, selection) ==
    Shown(selection) \cup Decided(c) \cup UNION {forecasts[c][n] : n \in DOMAIN forecasts[c]}

BookInit ==
    /\ state = [c \in Cycle |-> "ABSENT"]
    /\ plan = [c \in Cycle |-> Plan(NoSelection, 0)]
    /\ forecasts = [c \in Cycle |-> <<>>]
    /\ decisions = [c \in Cycle |-> [p \in Product |-> <<>>]]
    /\ approved = [c \in Cycle |-> {}]
    /\ archive = [c \in Cycle |-> [m \in Master |-> NoName]]

Create(c) ==
    /\ state[c] = "ABSENT"
    /\ state' = [state EXCEPT ![c] = "OPEN"]
    /\ UNCHANGED <<plan, forecasts, decisions, approved, archive>>

ChangePlan(c) ==
    /\ state[c] = "OPEN"
    /\ \E selection \in Selection, n \in 0..Len(forecasts[c]) :
            plan' = [plan EXCEPT ![c] = Plan(selection, n)]
    /\ UNCHANGED <<state, forecasts, decisions, approved, archive>>

\* A new forecast is adopted at once or left for later.
Forecast(c) ==
    /\ state[c] = "OPEN"
    /\ \E masters \in SUBSET Master :
            forecasts' = [forecasts EXCEPT ![c] = Append(@, masters)]
    /\ \E n \in {plan[c].adopted, Len(forecasts[c]) + 1} :
            plan' = [plan EXCEPT ![c].adopted = n]
    /\ UNCHANGED <<state, decisions, approved, archive>>

Decide(c, p, q) ==
    /\ state[c] = "OPEN"
    /\ decisions[c][p] # <<>> => decisions[c][p][Len(decisions[c][p])] # q
    /\ decisions' = [decisions EXCEPT ![c][p] = Append(@, q)]
    /\ approved' = [approved EXCEPT ![c] = @ \ {p}]
    /\ UNCHANGED <<state, plan, forecasts, archive>>

Approve(c, p) ==
    /\ state[c] = "OPEN"
    /\ p \in Decided(c)
    /\ approved' = [approved EXCEPT ![c] = @ \cup {p}]
    /\ UNCHANGED <<state, plan, forecasts, decisions, archive>>

Close(c) ==
    /\ state[c] = "OPEN"
    /\ Decided(c) # {}
    /\ Decided(c) = approved[c]
    /\ \E selection \in Selection, n \in 1..Len(forecasts[c]), kept \in SUBSET Master :
            /\ Kept(c, selection) \subseteq kept
            /\ plan' = [plan EXCEPT ![c] = Plan(selection, n)]
            /\ \E current \in [Master -> Name] :
                archive' = [archive EXCEPT ![c] =
                    [m \in Master |-> IF m \in kept THEN current[m] ELSE NoName]]
    /\ state' = [state EXCEPT ![c] = "LOCKED"]
    /\ UNCHANGED <<forecasts, decisions, approved>>

BookNext ==
    \E c \in Cycle :
        \/ Create(c) \/ ChangePlan(c) \/ Forecast(c) \/ Close(c)
        \/ \E p \in Product : Approve(c, p) \/ \E q \in Qty : Decide(c, p, q)

BookSpec == BookInit /\ [][BookNext]_bookVars

=============================================================================
