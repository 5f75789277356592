----------------------------- MODULE MCServices -----------------------------
(* The components around the run pipeline and the strategy host, checked   *)
(* side by side: only the component `part` names moves.                    *)
EXTENDS Flatten, Monitor, AlertDelivery, Planner, Deployment, FillLedger, OrderBook, MCPairTrade, TLC

VARIABLE part

Prices == <<1, 2>>
ServiceSymmetry == Permutations(AdKeys)

\* A part that does not move starts in one of its initial states only.
ServiceInit ==
    /\ part \in {"flatten", "monitor", "alerts", "planner", "deployment", "fills", "book", "pair"}
    /\ PlInit /\ (part # "planner" => plAcct.cash = 0 /\ \A i \in PlSyms : plTarget[i] = 0 /\ plStart[i] = 0)
    /\ FlInit /\ (part # "flatten" => flStart > 0 /\ flOrders = << >>)
    /\ MoInit /\ (part # "monitor" => moMode = "Live")
    /\ FgInit /\ (part # "fills" => fgOrder.expected = 0)
    /\ PtInit /\ (part # "pair" => ptConfig.venues = <<"kraken">> /\ ptConfig.symbols = 1)
    /\ AdInit /\ DpInit /\ ObInit

ServiceNext ==
    /\ UNCHANGED part
    /\ \/ part = "flatten" /\ FlNext /\ UNCHANGED <<moVars, adVars, plVars, dpVars, fgVars, obVars, ptVars>>
       \/ part = "monitor" /\ MoNext /\ UNCHANGED <<flVars, adVars, plVars, dpVars, fgVars, obVars, ptVars>>
       \/ part = "alerts" /\ AdNext /\ UNCHANGED <<flVars, moVars, plVars, dpVars, fgVars, obVars, ptVars>>
       \/ part = "planner" /\ PlNext /\ UNCHANGED <<flVars, moVars, adVars, dpVars, fgVars, obVars, ptVars>>
       \/ part = "deployment" /\ DpNext /\ UNCHANGED <<flVars, moVars, adVars, plVars, fgVars, obVars, ptVars>>
       \/ part = "fills" /\ FgNext /\ UNCHANGED <<flVars, moVars, adVars, plVars, dpVars, obVars, ptVars>>
       \/ part = "book" /\ ObNext /\ UNCHANGED <<flVars, moVars, adVars, plVars, dpVars, fgVars, ptVars>>
       \/ part = "pair" /\ PtNext /\ UNCHANGED <<flVars, moVars, adVars, plVars, dpVars, fgVars, obVars>>

ServiceSpec ==
    ServiceInit /\ [][ServiceNext]_<<part, flVars, moVars, adVars, plVars, dpVars, fgVars, obVars, ptVars>>

\* The state of every component keeps its type.
ServiceTypeOK ==
    /\ FlTypeOK /\ MoTypeOK /\ AdTypeOK /\ PlTypeOK /\ DpTypeOK /\ FgTypeOK /\ ObTypeOK
    /\ PtTypeOK
=============================================================================
