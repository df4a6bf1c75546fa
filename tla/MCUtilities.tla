---------------------------- MODULE MCUtilities ----------------------------
(***************************************************************************)
(* Two instances of UtilityBilling, of which a behaviour is one: "rows",   *)
(* where two tabs work on one record and requests may die, and "readings", *)
(* where one orderly tab reads a meter period after period.                *)
(***************************************************************************)
EXTENDS UtilityBilling, TLC

CONSTANT Bills   \* the records of "readings"

VARIABLES part, readMeters, readTerms, readRecords, readItems, readRequest, readSaves, readToday

readVars == <<readMeters, readTerms, readRecords, readItems, readRequest, readSaves, readToday>>

PriceAndLoss == {[price |-> 115, loss |-> 0], [price |-> 90, loss |-> 6]}

Chain == INSTANCE UtilityBilling WITH
    meters <- readMeters, terms <- readTerms, records <- readRecords, items <- readItems,
    request <- readRequest, saves <- readSaves, today <- readToday,
    Records <- Bills, Tabs <- {"t"}, Readings <- {0, 100}, Multipliers <- {1},
    Terms <- {[price |-> 115, loss |-> 0]}, Vouchers <- {}, LastDay <- 2, PaidDays <- {},
    MaxSaves <- 3, Orderly <- TRUE, Faults <- {}
-----------------------------------------------------------------------------
Unused(x) == x = "not in use"

MCInit ==
    \/ /\ part = "rows" /\ Init
       /\ Unused(readMeters) /\ Unused(readTerms) /\ Unused(readRecords) /\ Unused(readItems)
       /\ Unused(readRequest) /\ Unused(readSaves) /\ Unused(readToday)
    \/ part = "readings" /\ Chain!Init /\ Init /\ terms = CHOOSE t \in Terms : TRUE

MCNext ==
    \/ part = "rows" /\ Next /\ UNCHANGED <<part, readVars>>
    \/ part = "readings" /\ Chain!Next /\ UNCHANGED <<part, vars>>

MCSpec == MCInit /\ [][MCNext]_<<part, vars, readVars>>

Symmetry == Permutations(Tabs) \cup Permutations(Bills)
-----------------------------------------------------------------------------
(* What a meter counts is billed once, period after period.                *)
ReadingsOfBillsChain == part = "readings" => Chain!TypeOK /\ Chain!BillsConsistent
=============================================================================
