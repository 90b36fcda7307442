------------------------------ MODULE UsbQueues ------------------------------
(***************************************************************************)
(* The USB side of the reader: the message buffers, the queues of the     *)
(* three endpoints, the completion interrupts and the main loop of         *)
(* sysmoOCTSIM/main.c, the class driver ccid_df.c, and the requests of     *)
(* usbdc.c that end a session (bus reset, SetConfiguration) or halt an     *)
(* endpoint.  The slots are represented by the promise CcidExchange makes *)
(* of them, which CcidSlot keeps: a message is answered at once, or        *)
(* becomes the one command in progress and is answered later.              *)
(*                                                                         *)
(* pc is the place of the main loop, cut at every end of a critical        *)
(* section, for there a USB interrupt can come:                            *)
(*   top       reset_all_stuff_non_irq, if was_unconfigured_flag is set    *)
(*   enable    ccid_eps_enable waits for the function to be enabled        *)
(*   resubmit  submit_next_out after it                                    *)
(*   detect    poll_card_detect                                            *)
(*   notify    submit_next_irq                                             *)
(*   events    handle_fsm_events                                           *)
(*   answer    submit_next_in for the answer it enqueued                   *)
(*   feed      feed_ccid                                                   *)
(*   reply     submit_next_in for an immediate answer                      *)
(*   count     llist_count_at of free_q                                    *)
(*   adjust    the pool is brought back to NumOutBuf                       *)
(*   out       submit_next_out                                             *)
(* A submit routine takes a message in its critical section, which puts   *)
(* it into the main loop's hand, and then hands it to the driver.          *)
(***************************************************************************)
EXTENDS UsbEndpoint, Naturals, Sequences, FiniteSets

CONSTANTS
  Ids,       \* names of the commands the host sends
  Slots,     \* the card slots
  Empty,     \* the message of a buffer that is to receive one
  NumOutBuf, \* NUM_OUT_BUF
  MaxNotify, \* bound on the notifications not yet polled
  Env,       \* what a run admits of the host, see below
  Haltable   \* the endpoints it halts

(***************************************************************************)
(* second_reset    a bus reset or SetConfiguration(0) while ccid_eps_enable *)
(*                 waits for the configuration that follows an earlier one *)
(* reconfigure     SetConfiguration(1) of a configured device              *)
(***************************************************************************)
Freedoms == {"second_reset", "reconfigure"}
Eps == {"out", "in", "irq"}

ASSUME EnvAssumption == Env \subseteq Freedoms /\ Haltable \subseteq Eps
ASSUME PoolAssumption == NumOutBuf \in Nat \ {0} /\ MaxNotify \in Nat
ASSUME NoneAssumption == None \notin Ids \cup {Empty}

\* A command or the answer to it, and a notification, by what they say.
Msgs == Ids \cup {Empty} \cup SUBSET Slots

PCs == {"top", "enable", "resubmit", "detect", "notify", "events", "answer",
        "feed", "reply", "count", "adjust", "out"}

VARIABLES
  usb,      \* hw, in_progress and list of each endpoint, and free_q
  pc,       \* where the main loop is
  hand,     \* the message it is submitting
  freed,    \* how often that message has become a free buffer meanwhile
  counted,  \* what it counted in free_q
  enabled,  \* _ccid_df_funcd.enabled
  flag,     \* was_unconfigured_flag
  mask,     \* card_insert_mask
  async,    \* the command the slots have in progress
  crashed,  \* an OSMO_ASSERT failed
  cfg,      \* the host has configured the device
  inserted, \* the cards that are in their slots
  owed,     \* history: the commands of this session not yet answered
  view      \* history: the cards the host takes for inserted

loopVars == <<pc, hand, freed, counted>>
placeVars == <<pc, hand, counted>>
stateVars == <<enabled, flag, mask, async, crashed>>
hostVars == <<cfg, inserted, owed, view>>
vars == <<usb, loopVars, stateVars, hostVars>>

TypeOK ==
  /\ usb \in [hw   : [Eps -> EndpointType(Msgs)],
              prog : [Eps -> Msgs \cup {None}],
              list : [Eps -> Seq(Msgs)],
              free : Nat]
  /\ pc \in PCs
  /\ hand \in Msgs \cup {None}
  /\ freed \in 0..2
  /\ counted \in Nat
  /\ enabled \in BOOLEAN
  /\ flag \in BOOLEAN
  /\ mask \subseteq Slots
  /\ async \in Ids \cup {None}
  /\ crashed \in BOOLEAN
  /\ cfg \in BOOLEAN
  /\ inserted \subseteq Slots
  /\ owed \subseteq Ids
  /\ view \subseteq Slots

\* main() has filled free_q; usb_start has waited for the first configuration,
\* and the bus reset before that has set the flag.
Init ==
  /\ usb = [hw   |-> [e \in Eps |-> EndpointInit],
            prog |-> [e \in Eps |-> None],
            list |-> [e \in Eps |-> <<>>],
            free |-> NumOutBuf]
  /\ pc = "top"
  /\ hand = None
  /\ freed = 0
  /\ counted = 0
  /\ enabled = TRUE
  /\ flag = TRUE
  /\ mask = {}
  /\ async = None
  /\ crashed = FALSE
  /\ cfg = TRUE
  /\ inserted = {}
  /\ owed = {}
  /\ view = {}

-----------------------------------------------------------------------------
(* Buffers.  They are all alike; what tells them apart is the message in    *)
(* them, and where they are.  msgb_alloc adds one, msgb_free drops one.     *)

Freed(u) == [u EXCEPT !.free = @ + 1]

Enqueue(u, e, m) == [u EXCEPT !.list[e] = Append(@, m)]

\* How many messages are in progress, and how many buffers there are.
Held(u) == Cardinality({e \in Eps : u.prog[e] # None})
Listed(u) == Len(u.list["out"]) + Len(u.list["in"]) + Len(u.list["irq"])
Buffers(u) == u.free + Held(u) + Listed(u)

-----------------------------------------------------------------------------
(* submit_next_out, submit_next_in, submit_next_irq *)

\* Mutant: the free list is taken to be never empty.
NextMsg_AssumesFree(u, e) ==
  CASE u.prog[e] # None -> None
    [] u.prog[e] = None /\ e = "out" -> Empty
    [] OTHER -> IF u.list[e] = <<>> THEN None ELSE Head(u.list[e])

\* What the critical section takes: an empty buffer for the OUT endpoint, the
\* head of the list for the others; nothing while a message is in progress.
NextMsg(u, e) ==
  CASE u.prog[e] # None -> None
    [] u.prog[e] = None /\ e = "out" ->
         IF u.free = 0 THEN None ELSE Empty
    [] OTHER -> IF u.list[e] = <<>> THEN None ELSE Head(u.list[e])

Taken(u, e) ==
  LET m == NextMsg(u, e)
  IN  CASE m = None -> u
        [] m # None /\ e = "out" -> [u EXCEPT !.prog[e] = m, !.free = @ - 1]
        [] OTHER -> [u EXCEPT !.prog[e] = m, !.list[e] = Tail(@)]

\* The class driver and the endpoint take a transfer.
Taking(u, e) == enabled /\ Accepts(u.hw[e])

\* ccid_df_read_out, _write_in, _write_irq; if they fail nothing is in progress
\* any more and the buffer is free, whatever it held.
Submitted(u, e, m) ==
  IF Taking(u, e)
  THEN [u EXCEPT !.hw[e] = Armed(@, m)]
  ELSE Freed([u EXCEPT !.hw[e] = IF enabled THEN Refused(@) ELSE @,
                       !.prog[e] = None])

SubmitNext(u, e) ==
  LET m == NextMsg(u, e)
  IN  IF m = None THEN u ELSE Submitted(Taken(u, e), e, m)

-----------------------------------------------------------------------------
(* ccid_out_read_compl, ccid_in_write_compl, ccid_irq_write_compl *)

\* Mutant: in_progress is not cleared.
Recycled_KeepsProgress(u, e) == IF u.prog[e] = None THEN u ELSE Freed(u)

\* For USB_XFER_RESET and USB_XFER_HALT the message becomes a free buffer.
Recycled(u, e) ==
  IF u.prog[e] = None THEN u
  ELSE Freed([u EXCEPT !.prog[e] = None])

\* Mutant: what is next waits for the next call of a submit routine.
RecycledNext_Stops(u, e) == Recycled(u, e)

\* For USB_XFER_UNHALT, and when an IN transfer is done, the next follows.
RecycledNext(u, e) == SubmitNext(Recycled(u, e), e)

\* Mutant: in_progress is not cleared before the next buffer is submitted.
OutDone_KeepsProgress(u, id) == SubmitNext(Enqueue(u, "out", id), "out")

\* An OUT transfer is done: the buffer goes to the dispatcher.
OutDone(u, id) ==
  SubmitNext([Enqueue(u, "out", id) EXCEPT !.prog["out"] = None], "out")

\* _usb_d_dev_trans_stop with its callback, for one endpoint and for all.
Stop(u, e) ==
  IF u.hw[e].busy THEN Recycled([u EXCEPT !.hw[e] = Stopped(@)], e) ELSE u

\* Mutant: the OUT endpoint is forgotten.
StopAll_NotOut(u) == Stop(Stop(u, "in"), "irq")

StopAll(u) == Stop(Stop(Stop(u, "in"), "irq"), "out")

-----------------------------------------------------------------------------
(* The main loop. *)

Goto(label) == pc' = label

\* In reset_all_stuff_non_irq an unfinished command fails and is answered ...
AnsweredByReset(u) ==
  IF async = None THEN u
  ELSE SubmitNext(Enqueue(u, "in", async), "in")

\* Mutant: the queued messages stay.
Flushed_KeepsLists(u) ==
  [u EXCEPT !.prog = [e \in Eps |-> None],
            !.free = @ + Held(u)]

\* ... and every message, in progress or not, becomes a free buffer.
Flushed(u) ==
  [u EXCEPT !.list = [e \in Eps |-> <<>>],
            !.prog = [e \in Eps |-> None],
            !.free = @ + Listed(u) + Held(u)]

\* Mutant: card_insert_mask survives.
Reset_KeepsMask ==
  /\ pc = "top" /\ flag
  /\ usb' = Flushed(AnsweredByReset(usb))
  /\ async' = None
  /\ mask' = mask
  /\ flag' = FALSE
  /\ Goto("enable")
  /\ UNCHANGED <<hand, freed, counted, enabled, crashed, hostVars>>

Reset ==
  /\ pc = "top" /\ flag
  /\ usb' = Flushed(AnsweredByReset(usb))
  /\ async' = None
  /\ mask' = {}
  /\ flag' = FALSE
  /\ Goto("enable")
  /\ UNCHANGED <<hand, freed, counted, enabled, crashed, hostVars>>

NoReset ==
  /\ pc = "top" /\ ~flag
  /\ Goto("detect")
  /\ UNCHANGED <<usb, hand, freed, counted, stateVars, hostVars>>

EpsEnable ==
  /\ pc = "enable" /\ enabled
  /\ usb' = [StopAll(usb) EXCEPT !.hw = [e \in Eps |-> EpEnable(@[e])]]
  /\ Goto("resubmit")
  /\ UNCHANGED <<hand, freed, counted, stateVars, hostVars>>

\* Where a submit routine is called, for which endpoint, and what follows.
EpAt == [resubmit |-> "out", notify |-> "irq", answer |-> "in", reply |-> "in",
         out |-> "out"]
AfterSubmit == [resubmit |-> "detect", notify |-> "events", answer |-> "feed",
                reply |-> "count", out |-> "top"]

SubmitTake ==
  /\ pc \in DOMAIN EpAt /\ hand = None
  /\ LET e == EpAt[pc]
     IN  /\ hand' = NextMsg(usb, e)
         /\ usb' = Taken(usb, e)
         /\ Goto(IF NextMsg(usb, e) = None THEN AfterSubmit[pc] ELSE pc)
  /\ UNCHANGED <<freed, counted, stateVars, hostVars>>

\* If the driver refuses a message that an interrupt has recycled, it is put
\* into free_q, or taken out of the list it is in by now, a second time.
SubmitXfer ==
  /\ pc \in DOMAIN EpAt /\ hand # None
  /\ usb' = Submitted(usb, EpAt[pc], hand)
  /\ freed' = IF freed = 1 /\ ~Taking(usb, EpAt[pc]) THEN 2 ELSE 0
  /\ hand' = None
  /\ Goto(AfterSubmit[pc])
  /\ UNCHANGED <<counted, stateVars, hostVars>>

\* Mutant: only an insertion is notified.
CardDetect_OnlyInsertions ==
  /\ pc = "detect"
  /\ usb' = IF inserted \subseteq mask THEN usb ELSE Enqueue(usb, "irq", inserted)
  /\ mask' = inserted
  /\ Goto("notify")
  /\ UNCHANGED <<hand, freed, counted, enabled, flag, async, crashed, hostVars>>

CardDetect ==
  /\ pc = "detect"
  /\ usb' = IF inserted = mask THEN usb ELSE Enqueue(usb, "irq", inserted)
  /\ mask' = inserted
  /\ Goto("notify")
  /\ UNCHANGED <<hand, freed, counted, enabled, flag, async, crashed, hostVars>>

\* Mutant: ccid_ops_send_in leaves the answer in the list.
HandleEvents_NoSubmit ==
  /\ pc = "events" /\ async # None
  /\ usb' = Enqueue(usb, "in", async)
  /\ async' = None
  /\ Goto("feed")
  /\ UNCHANGED <<hand, freed, counted, enabled, flag, mask, crashed, hostVars>>

\* The command in progress may have ended; its answer goes to ccid_ops_send_in.
HandleEvents ==
  /\ pc = "events" /\ async # None
  /\ usb' = Enqueue(usb, "in", async)
  /\ async' = None
  /\ Goto("answer")
  /\ UNCHANGED <<hand, freed, counted, enabled, flag, mask, crashed, hostVars>>

NoEvent ==
  /\ pc = "events"
  /\ Goto("feed")
  /\ UNCHANGED <<usb, hand, freed, counted, stateVars, hostVars>>

FeedNothing ==
  /\ pc = "feed" /\ usb.list["out"] = <<>>
  /\ Goto("count")
  /\ UNCHANGED <<usb, hand, freed, counted, stateVars, hostVars>>

\* ccid_handle_out frees the message; the answer needs a buffer of its own.
FedMsg == Head(usb.list["out"])
Fed(u) == [u EXCEPT !.list["out"] = Tail(@)]

FeedReply ==
  /\ pc = "feed" /\ usb.list["out"] # <<>>
  /\ usb' = Enqueue(Fed(usb), "in", FedMsg)
  /\ Goto("reply")
  /\ UNCHANGED <<hand, freed, counted, stateVars, hostVars>>

FeedAccept ==
  /\ pc = "feed" /\ usb.list["out"] # <<>> /\ async = None
  /\ usb' = Fed(usb)
  /\ async' = FedMsg
  /\ Goto("count")
  /\ UNCHANGED <<hand, freed, counted, enabled, flag, mask, crashed, hostVars>>

CountFree ==
  /\ pc = "count"
  /\ counted' = usb.free
  /\ Goto("adjust")
  /\ UNCHANGED <<usb, hand, freed, stateVars, hostVars>>

\* Mutant: the pool is topped up, never trimmed.
Adjusted_NoTrim(free) ==
  IF counted > NumOutBuf THEN free ELSE free + (NumOutBuf - counted)

\* Trimmed or topped up by what was counted, which may be out of date: there
\* may be fewer left to trim.
Adjusted(free) ==
  IF counted > NumOutBuf + free THEN 0 ELSE (free + NumOutBuf) - counted

AdjustPool ==
  /\ pc = "adjust"
  /\ usb' = [usb EXCEPT !.free = Adjusted(@)]
  /\ counted' = 0
  /\ Goto("out")
  /\ UNCHANGED <<hand, freed, stateVars, hostVars>>

MainLoop ==
  \/ Reset \/ NoReset \/ EpsEnable \/ SubmitTake \/ SubmitXfer \/ CardDetect
  \/ HandleEvents \/ NoEvent \/ FeedNothing \/ FeedReply \/ FeedAccept
  \/ CountFree \/ AdjustPool

-----------------------------------------------------------------------------
(* The USB interrupt.  The host drives it. *)

\* The interrupt recycles, or passes on, what is in progress at the endpoints S,
\* and if the main loop is about to submit one of these messages, that one, too.
Recycles(S) == freed' = IF hand # None /\ EpAt[pc] \in S THEN 1 ELSE freed

\* Commands that are in the reader.
InQueue(e) == {usb.list[e][i] : i \in DOMAIN usb.list[e]}
InProgress(e) ==
  {usb.prog[e]} \cup (IF Ready(usb.hw[e]) THEN {usb.hw[e].msg} ELSE {})
Pipeline ==
  (InQueue("out") \cup InQueue("in") \cup InProgress("in") \cup {async}) \ {None}

HostSends(id) ==
  /\ cfg /\ id \notin owed \cup Pipeline
  /\ Ready(usb.hw["out"])
  /\ owed' = owed \cup {id}
  /\ LET u == [usb EXCEPT !.hw["out"] = Done(@)]
     IN  IF usb.prog["out"] = None
         THEN crashed' = TRUE /\ usb' = u         \* OSMO_ASSERT(msg)
         ELSE crashed' = crashed /\ usb' = OutDone(u, id)
  /\ Recycles({"out"})
  /\ UNCHANGED <<placeVars, enabled, flag, mask, async, cfg, inserted, view>>

HostCollects ==
  /\ cfg /\ Ready(usb.hw["in"])
  /\ owed' = owed \ {usb.hw["in"].msg}
  /\ usb' = RecycledNext([usb EXCEPT !.hw["in"] = Done(@)], "in")
  /\ Recycles({"in"})
  /\ UNCHANGED <<placeVars, stateVars, cfg, inserted, view>>

HostPolls ==
  /\ cfg /\ Ready(usb.hw["irq"])
  /\ view' = usb.hw["irq"].msg
  /\ usb' = RecycledNext([usb EXCEPT !.hw["irq"] = Done(@)], "irq")
  /\ Recycles({"irq"})
  /\ UNCHANGED <<placeVars, stateVars, cfg, inserted, owed>>

\* The host forgets a session it has ended.
NewSession == owed' = {} /\ view' = {}

MayEnd == pc = "enable" => "second_reset" \in Env

BusResetIrq ==
  /\ MayEnd
  /\ usb' = [StopAll(usb) EXCEPT !.hw = [e \in Eps |-> BusReset(Deinit(@[e]))]]
  /\ flag' = TRUE /\ enabled' = FALSE /\ cfg' = FALSE
  /\ NewSession
  /\ Recycles({e \in Eps : usb.hw[e].busy})
  /\ UNCHANGED <<placeVars, mask, async, crashed, inserted>>

\* SetConfiguration(0): usbdc_unconfig
Unconfigure ==
  /\ MayEnd /\ cfg
  /\ usb' = [StopAll(usb) EXCEPT !.hw = [e \in Eps |-> Deinit(@[e])]]
  /\ flag' = TRUE /\ enabled' = FALSE /\ cfg' = FALSE
  /\ NewSession
  /\ Recycles({e \in Eps : usb.hw[e].busy})
  /\ UNCHANGED <<placeVars, mask, async, crashed, inserted>>

\* SetConfiguration(1): ccid_df_enable initialises the endpoints unless they are.
Configure ==
  /\ cfg => "reconfigure" \in Env
  /\ usb' = IF enabled THEN usb ELSE [usb EXCEPT !.hw = [e \in Eps |-> EpInit(@[e])]]
  /\ flag' = (flag \/ cfg) /\ enabled' = TRUE /\ cfg' = TRUE
  /\ NewSession
  /\ UNCHANGED <<loopVars, mask, async, crashed, inserted>>

\* SetFeature(ENDPOINT_HALT)
HaltEndpoint(e) ==
  /\ cfg
  /\ usb' = [usb EXCEPT !.hw[e] = HaltSet(@)]
  /\ UNCHANGED <<loopVars, stateVars, hostVars>>

\* The host uses a halted endpoint: the reader learns of the first STALL.
StallIrq(e) ==
  /\ cfg /\ usb.hw[e].on /\ usb.hw[e].halt = "requested"
  /\ usb' = Recycled([usb EXCEPT !.hw[e] = StallSent(@)], e)
  /\ Recycles({e})
  /\ UNCHANGED <<placeVars, stateVars, hostVars>>

\* ClearFeature(ENDPOINT_HALT)
UnhaltEndpoint(e) ==
  /\ cfg /\ usb.hw[e].halt # "clear"
  /\ usb' = RecycledNext([usb EXCEPT !.hw[e] = HaltCleared(@)], e)
  /\ Recycles({e})
  /\ UNCHANGED <<placeVars, stateVars, hostVars>>

MoveCard(s) ==
  /\ Len(usb.list["irq"]) < MaxNotify
  /\ inserted' = IF s \in inserted THEN inserted \ {s} ELSE inserted \cup {s}
  /\ UNCHANGED <<usb, loopVars, stateVars, cfg, owed, view>>

Session == BusResetIrq \/ Unconfigure \/ Configure
Halts == \E e \in Haltable : HaltEndpoint(e) \/ StallIrq(e) \/ UnhaltEndpoint(e)
Host == (\E id \in Ids : HostSends(id)) \/ HostCollects \/ HostPolls

\* A buffer that is put into a list twice makes a loop of it, in which
\* llist_count_at hangs, or cuts another list off: here the model ends.
Running == ~crashed /\ freed < 2

Next ==
  /\ Running
  /\ MainLoop \/ Host \/ Session \/ Halts \/ \E s \in Slots : MoveCard(s)

Spec == Init /\ [][Next]_vars

\* The main loop runs for ever.  The host configures the device, polls, and
\* collects answers; a card does not keep a command open for ever.
Fairness ==
  /\ WF_vars(Running /\ MainLoop)
  /\ SF_vars(Running /\ HandleEvents)
  /\ WF_vars(Running /\ ~cfg /\ Configure)
  /\ SF_vars(Running /\ HostCollects)
  /\ SF_vars(Running /\ HostPolls)

FairSpec == Spec /\ Fairness

-----------------------------------------------------------------------------
(* Properties. *)

\* Whatever interrupts recycle, and whenever: what the main loop is about to
\* submit, and what the hardware works on, is what is in progress there.  Else
\* a buffer would be free and in use, or in use and never freed.
OneOwner ==
  /\ hand # None => usb.prog[EpAt[pc]] = hand
  /\ \A e \in Eps :
       /\ Ready(usb.hw[e]) => usb.hw[e].msg = usb.prog[e]
       /\ usb.prog[e] # None /\ hand # usb.prog[e] => flag \/ Ready(usb.hw[e])

\* OSMO_ASSERT(msg) of ccid_out_read_compl: no OUT transfer is completed that
\* the queues know nothing of.
NoAssert == ~crashed

\* main.c:90 "msgb queue of free msgs", 309 "return the message back to the queue
\* of free message buffers": the interrupt and the submit routine it came into
\* do not both return the same one.
FreedOnce == freed < 2

\* The commands of the session are in the reader, and no others: nothing the
\* host sent after it configured the device falls to the cleaning up after an
\* earlier session, no refused submission drops an answer, and no answer to
\* an earlier session reaches this one.
SessionKept == owed = IF flag THEN {} ELSE Pipeline

\* The main loop tops up free_q in every turn, while answers and notifications
\* also end there: the heap must not be eaten up.
PoolBounded ==
  Buffers(usb) <= NumOutBuf + 1 + Cardinality(Ids) + MaxNotify + 2

\* When there is no notification on its way the host knows which cards the
\* reader has seen, whatever sessions came and went.
ViewCurrent ==
  cfg /\ ~flag /\ usb.list["irq"] = <<>> /\ usb.prog["irq"] = None => view = mask

\* A configured device does not stop listening.
Listening == cfg ~> Ready(usb.hw["out"]) \/ ~cfg

\* Every command is answered, unless the host ends the session.
CommandsAnswered == \A id \in Ids : id \in owed ~> id \notin owed

\* Whatever is halted, and whatever is in flight then, a halt does no harm but
\* by a buffer freed twice, to which usb_double_free leads: until then the reader
\* has the commands of this session and no others, ...
KeptUntilTwice == freed = 2 \/ SessionKept

\* ... it does not stop listening, ...
ListeningUntilTwice == cfg ~> Ready(usb.hw["out"]) \/ ~cfg \/ freed = 2

\* ... and every command is answered.
AnsweredUntilTwice == \A id \in Ids : id \in owed ~> id \notin owed \/ freed = 2

\* When cards and sessions come to rest the host knows the cards.
Still(S) == cfg /\ inserted = S
HostLearns == \A S \in SUBSET Slots : <>[]Still(S) => <>[](view = S)

=============================================================================
