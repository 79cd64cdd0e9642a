-------------------------------- MODULE Desk --------------------------------
(***************************************************************************)
(* The parts of ChaosPay that keep state of their own and share none with  *)
(* the payments or with each other: the QR codes, the Kaspi payments, and  *)
(* the request log.  Since no step of one can matter to another, a         *)
(* behaviour is about one of them, the tab of the panel that is in use.    *)
(***************************************************************************)
EXTENDS QRCodes, KaspiPayments, RequestLog

VARIABLE tab

vars == <<tab, qrVars, kaspiVars, logVars>>

Init == QRInit /\ KaspiInit /\ LogInit /\ tab \in {"qr", "kaspi", "log"}

OnlyQR    == tab = "qr" /\ QRNext /\ UNCHANGED <<tab, kaspiVars, logVars>>
OnlyKaspi == tab = "kaspi" /\ KaspiNext /\ UNCHANGED <<tab, qrVars, logVars>>
OnlyLog   == tab = "log" /\ LogNext /\ UNCHANGED <<tab, qrVars, kaspiVars>>

Next == OnlyQR \/ OnlyKaspi \/ OnlyLog

Spec == Init /\ [][Next]_vars /\ QRFairness

\* The values of the three parts are of their types.
TypeOK ==
  /\ QRTypeOK
  /\ idCounter \in 0 .. MaxLinks /\ Len(settled) <= MaxSettled
  /\ polled \in [id : {0} \cup DOMAIN links, status : LinkStatuses, at : 0 .. Len(settled)]
  /\ Len(logged) = nextID /\ page.ids \subseteq 1 .. nextID
=============================================================================
