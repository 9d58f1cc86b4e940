---------------------------- MODULE ReportChannel ----------------------------
(***************************************************************************)
(* What the coordinator promises the reader of a report about one attempt. *)
(* The reliable events are shown in order and without gaps, none before    *)
(* the daemon has stored it; an event may be shown again.  Once the        *)
(* attempt has lost its authority no new report is begun: at most the one  *)
(* already on its way to the provider still lands.                         *)
(***************************************************************************)
EXTENDS Naturals

CONSTANT MaxSeq    \* events the worker can send

VARIABLES
    known,     \* events 1..known are stored
    shown,     \* the last event that reached the provider
    sending,   \* the event a call in flight carries, 0 for none
    open       \* the attempt still speaks for its job

chan == <<known, shown, sending, open>>

ChanInit == known = 0 /\ shown = 0 /\ sending = 0 /\ open = TRUE

Learn ==
    /\ open
    /\ known' \in known .. MaxSeq
    /\ UNCHANGED <<shown, sending, open>>

Begin ==
    /\ open /\ sending = 0
    /\ sending' \in {shown, shown + 1} \cap 1 .. known
    /\ UNCHANGED <<known, shown, open>>

Land ==
    /\ sending # 0
    /\ shown' = sending
    /\ sending' = 0
    /\ UNCHANGED <<known, open>>

Abandon == sending' = 0 /\ UNCHANGED <<known, shown, open>>

Close == open' = FALSE /\ UNCHANGED <<known, shown, sending>>

ChanNext == Learn \/ Begin \/ Land \/ Abandon \/ Close

ChanSpec == ChanInit /\ [][ChanNext]_chan
=============================================================================
