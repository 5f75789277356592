---------------------------- MODULE PairExposure ----------------------------
(***************************************************************************)
(* executionhandler risk_controls.rs: the positions of the limit checker   *)
(* and the pair links by which two hedged legs are netted in the portfolio *)
(* exposure.  A position is its signed value; every entry is one unit of   *)
(* price, so value and quantity agree.                                     *)
(***************************************************************************)
EXTENDS Integers, FiniteSets, Functions

CONSTANTS
    PxLegs,  \* (symbol, exchange) keys
    PxMax    \* largest position

ASSUME ExposureAssumption == IsFiniteSet(PxLegs) /\ PxMax \in Nat

VARIABLES
    pxPosition,  \* pxPosition[k]: the signed position; 0 is no entry
    pxLink,      \* pxLink[k]: the sibling of k, or k itself when it has none
    pxRelinked   \* history: was a linked leg linked again without unregistering?

pxVars == <<pxPosition, pxLink, pxRelinked>>

PxTypeOK ==
    /\ pxPosition \in [PxLegs -> -PxMax..PxMax]
    /\ pxLink \in [PxLegs -> PxLegs]
    /\ pxRelinked \in BOOLEAN

PxInit ==
    /\ pxPosition = [k \in PxLegs |-> 0]
    /\ pxLink = [k \in PxLegs |-> k]
    /\ pxRelinked = FALSE

update_position(k, qty) ==
    /\ pxPosition[k] + qty \in -PxMax..PxMax
    /\ pxPosition' = [pxPosition EXCEPT ![k] = @ + qty]
    /\ UNCHANGED <<pxLink, pxRelinked>>

\* Reconciliation replaces all positions.
set_positions(new) ==
    /\ pxPosition' = new
    /\ UNCHANGED <<pxLink, pxRelinked>>

\* Both directions are inserted; an older link of either leg is overwritten on its own
\* side only.
register_pair_link(a, b) ==
    /\ a # b
    /\ pxLink' = [pxLink EXCEPT ![a] = b, ![b] = a]
    /\ pxRelinked' = (pxRelinked \/ pxLink[a] \notin {a, b} \/ pxLink[b] \notin {a, b})
    /\ UNCHANGED pxPosition

\* A plausible slip: only the leg itself loses its link.
UnlinkedOne(a) == [pxLink EXCEPT ![a] = a]

\* The links after unregister_pair_link(a): a's, and its sibling's.
Unlinked(a) == [pxLink EXCEPT ![a] = a, ![pxLink[a]] = pxLink[a]]

unregister_pair_link(a) ==
    /\ pxLink' = Unlinked(a)
    /\ UNCHANGED <<pxPosition, pxRelinked>>

PxNext ==
    \/ \E k \in PxLegs, q \in {-1, 1} : update_position(k, q)
    \/ \E new \in [PxLegs -> -PxMax..PxMax] : set_positions(new)
    \/ \E a, b \in PxLegs : register_pair_link(a, b)
    \/ \E a \in PxLegs : unregister_pair_link(a)

PxSpec == PxInit /\ [][PxNext]_pxVars

-----------------------------------------------------------------------------
PxAbs(n) == IF n < 0 THEN -n ELSE n
PxOpen == {k \in PxLegs : pxPosition[k] # 0}

\* Is k netted with its sibling, which must be open too?
Netted(k) == pxLink[k] # k /\ pxLink[k] \in PxOpen

\* The loop over the positions: a pair contributes the absolute value of its signed sum
\* once, every other position its gross value.
netted_portfolio_exposure ==
    LET pairs == {{k, pxLink[k]} : k \in {k \in PxOpen : Netted(k)}}
        alone == {k \in PxOpen : ~Netted(k)}
    IN  SumFunctionOnSet([p \in pairs |-> PxAbs(SumFunctionOnSet(pxPosition, p))], pairs)
        + SumFunctionOnSet([k \in alone |-> PxAbs(pxPosition[k])], alone)

\* The exposure the limit sees is never below the portfolio's true net, as long as no leg
\* was linked a second time: no hedge is used up twice, through partial pairs, closed
\* siblings and unregistered links.
ExposureCoversNet ==
    ~pxRelinked =>
        netted_portfolio_exposure >= PxAbs(SumFunctionOnSet(pxPosition, PxLegs))
=============================================================================
