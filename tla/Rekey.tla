------------------------------- MODULE Rekey --------------------------------
(***************************************************************************)
(* The packet layer and the key exchange of one connection (packet.c,      *)
(* kex.c, dispatch.c and the kex*c.c / kex*s.c methods): the first         *)
(* exchange, authentication as far as it changes the packet layer, and     *)
(* any number of later exchanges that either end, or both at once, starts  *)
(* while packets are being written.                                        *)
(*                                                                         *)
(* Each end is a process that runs one handler at a time, so its state is  *)
(* one record and a handler is an operator from record to record.  Keys    *)
(* are named by what the exchange hash covers of the two KEXINITs: two     *)
(* ends have the same key only if they hashed the same two cookies.        *)
(***************************************************************************)
EXTENDS Naturals, Sequences, SequencesExt

CONSTANTS MaxWrites,   \* bound: packets written by one end after login
          MaxTicks,    \* bound: how often RekeyLimit's time may run out
          MaxManual,   \* bound: how often the user types ~R
          Limit,       \* max_blocks, with one block to a packet
          Methods,     \* key exchange methods: subset of {"dh", "gex"}
          Delayed,     \* compression zlib@openssh.com was negotiated
          ExtInfo,     \* the client offers ext-info-c in its first KEXINIT
          Separations  \* is privilege separation in use?  a set of answers

ASSUME RekeyAssumption ==
  /\ MaxWrites \in Nat /\ MaxTicks \in Nat /\ MaxManual \in Nat
  /\ Limit \in Nat \ {0}
  /\ Methods \subseteq {"dh", "gex"}
  /\ Delayed \in BOOLEAN /\ ExtInfo \in BOOLEAN
  /\ Separations \subseteq BOOLEAN

Ends == {"client", "server"}
Other(e) == IF e = "client" THEN "server" ELSE "client"

(* Packet types.  The KEXDH messages also stand for those of the elliptic  *)
(* curve methods, which have the same shape.                               *)
KexTypes == {"KEXINIT", "KEXDH_INIT", "KEXDH_REPLY", "GEX_REQUEST",
             "GEX_GROUP", "GEX_INIT", "GEX_REPLY", "NEWKEYS", "UNIMPLEMENTED"}
PlainTypes == {"EXT_INFO", "USERAUTH_REQUEST", "USERAUTH_SUCCESS", "DATA"}

(* ssh_packet_type_is_kex *)
TypeIsKex(type) == type \in KexTypes

NoKey == <<>>
Chosen == <<"algorithms">>      \* kex->newkeys[] allocated, no key derived

VARIABLES end,        \* end[e]: struct ssh of one end
          method,     \* kex->kex_type, from the two fixed proposals
          privsep,    \* use_privsep of the server
          ticks, manual,
          \* what is observed of the run
          delivered,  \* delivered[e]: DATA of e that reached its handler
          unexpected, \* types that ran into kex_protocol_error
          unreadable  \* packets read under another key than they were sent

vars == <<end, method, privsep, ticks, manual, delivered, unexpected, unreadable>>

(* Op(x), with the record x computed before it is used *)
With(x, Op(_)) == CHOOSE r \in {Op(y) : y \in {x}} : TRUE

-----------------------------------------------------------------------------
(* ssh_packet_is_rekeying *)
IsRekeying(s) == s.rekeying \/ ~s.done

(* ssh_packet_need_rekeying; the packet to be sent has len blocks *)
NeedRekeying(s, len) ==
  /\ s.after_authentication
  /\ ~IsRekeying(s)
  /\ ~(s.p_send = 0 /\ s.p_read = 0)
  /\ \/ s.expired
     \/ s.p_send + len > Limit
     \/ s.p_read > Limit

(* ssh_set_newkeys: move the new key from kex to the state, start counting *)
(* and, past authentication, compress at once.                             *)
SetNewkeysOut(s) ==
  IF s.newOut = NoKey
  THEN [s EXCEPT !.fatal = "no_new_keys"]
  ELSE [s EXCEPT !.keyOut = s.newOut, !.newOut = NoKey, !.p_send = 0,
                 !.compOut = Delayed /\ s.after_authentication]

\* Mutant: delayed compression is forgotten on the reading side at a rekey.
SetNewkeysInUncompressed(s) ==
  IF s.newIn = NoKey
  THEN [s EXCEPT !.fatal = "no_new_keys"]
  ELSE [s EXCEPT !.keyIn = s.newIn, !.newIn = NoKey, !.p_read = 0,
                 !.compIn = FALSE]

SetNewkeysIn(s) ==
  IF s.newIn = NoKey
  THEN [s EXCEPT !.fatal = "no_new_keys"]
  ELSE [s EXCEPT !.keyIn = s.newIn, !.newIn = NoKey, !.p_read = 0,
                 !.compIn = Delayed /\ s.after_authentication]

(* ssh_packet_enable_delayed_compress *)
EnableDelayedCompress(s) ==
  [s EXCEPT !.after_authentication = TRUE,
            !.compOut = @ \/ (Delayed /\ s.keyOut # NoKey),
            !.compIn = @ \/ (Delayed /\ s.keyIn # NoKey)]

(* ssh_packet_send2_wrapped: compress, encrypt, put into the output; the   *)
(* effect of some packets on the sender begins right after them.  History: *)
(* exchange, whether the last KEXINIT sent awaits its NEWKEYS, and between, *)
(* the types of the other packets sent then.                               *)
Send2Wrapped(s, p) ==
  LET sealed == [type |-> p.type, body |-> p.body,
                 key |-> s.keyOut, comp |-> s.compOut]
      seen == [s EXCEPT !.exchange = p.type = "KEXINIT" \/ (@ /\ p.type # "NEWKEYS"),
                        !.between = IF s.exchange /\ ~TypeIsKex(p.type) THEN @ \cup {p.type} ELSE @]
      Effect(t) == CASE p.type = "NEWKEYS" -> SetNewkeysOut(t)
                     [] p.type = "USERAUTH_SUCCESS" -> EnableDelayedCompress(t)
                     [] OTHER -> t
  IN With([seen EXCEPT !.output = Append(@, sealed), !.p_send = @ + 1], Effect)

Packet(type, body) == [type |-> type, body |-> body]

(* kex_send_kexinit; a KEXINIT is a kex packet, so ssh_packet_send2 sets   *)
(* rekeying and sends it at once.                                          *)
KexSendKexinit(s) ==
  IF s.initSent
  THEN s
  ELSE LET Start(t) == [Send2Wrapped(t, Packet("KEXINIT", t.my))
                          EXCEPT !.initSent = TRUE]
       IN With([s EXCEPT !.done = FALSE, !.my = @ + 1, !.rekeying = TRUE], Start)

(* kex_start_rekex *)
KexStartRekex(s) ==
  IF ~s.done
  THEN [s EXCEPT !.fatal = "requested_twice"]
  ELSE KexSendKexinit([s EXCEPT !.done = FALSE])

(* The loop of ssh_packet_send2 that sends the queue after NEWKEYS.  Its   *)
(* test for another exchange is never true: the one that is ending has     *)
(* done = 0 until the peer's NEWKEYS is read.                              *)
SendQueue(s) ==
  LET SendFirst(t, p) == Send2Wrapped([t EXCEPT !.outgoing = Tail(@)], p)
  IN FoldLeft(SendFirst, s, s.outgoing)

\* Mutant: packets of the layers above are not held back.
HeldNever(s, p) == FALSE

Held(s, p) == s.rekeying /\ ~TypeIsKex(p.type)

\* Mutant: the packet is not kept.
EnqueueNothing(s, p) == s

Enqueue(s, p) == [s EXCEPT !.outgoing = Append(@, p)]

(* ssh_packet_send2 *)
Send2(s, p) ==
  LET need == ~TypeIsKex(p.type) /\ NeedRekeying(s, 1)
  IN CASE need -> KexStartRekex(Enqueue(s, p))
       [] ~need /\ Held(s, p) -> Enqueue(s, p)
       [] p.type = "NEWKEYS" ->
            With([Send2Wrapped(s, p) EXCEPT !.rekeying = FALSE,
                                            !.expired = FALSE], SendQueue)
       [] OTHER -> Send2Wrapped(s, p)

-----------------------------------------------------------------------------
(* kex_reset_dispatch *)
KexResetDispatch(s) == [s EXCEPT !.handlers = {"KEXINIT"}]

(* kex_send_newkeys; ext_info_c stays set once the first KEXINIT set it *)
KexSendNewkeys(s) ==
  LET Send(t) == [Send2(t, Packet("NEWKEYS", 0))
                    EXCEPT !.handlers = @ \cup {"NEWKEYS"}]
      Ext(t) == IF t.ext_info_c THEN Send2(t, Packet("EXT_INFO", 0)) ELSE t
  IN With(With(KexResetDispatch(s), Send), Ext)

(* kex_derive_keys over the exchange hash of both KEXINITs: the client's   *)
(* comes first in the hash.                                                *)
KexDeriveKeys(e, s) ==
  LET h == IF e = "client" THEN <<<<s.my>>, s.peer>> ELSE <<s.peer, <<s.my>>>>
  IN [s EXCEPT !.newOut = h, !.newIn = h]

Expect(s, type) == [s EXCEPT !.handlers = @ \cup {type}]

(* kexdh_client, kexecdh_client, kexc25519_client, kexgex_client and their *)
(* servers: the client speaks first.                                       *)
StartMethod(e, s) ==
  CASE e = "client" /\ method = "dh" ->
         Expect(Send2(s, Packet("KEXDH_INIT", 0)), "KEXDH_REPLY")
    [] e = "client" /\ method = "gex" ->
         Expect(Send2(s, Packet("GEX_REQUEST", 0)), "GEX_GROUP")
    [] e = "server" /\ method = "dh" -> Expect(s, "KEXDH_INIT")
    [] e = "server" /\ method = "gex" -> Expect(s, "GEX_REQUEST")

(* kex_choose_conf: allocate the new keys, learn what the client can do.   *)
(* No end of this program guesses: dispatch_skip_packets is never set.     *)
KexChooseConf(e, s, p) ==
  [s EXCEPT !.newOut = Chosen, !.newIn = Chosen,
            !.ext_info_c = @ \/ (e = "server" /\ ExtInfo /\ p.body = 1)]

(* kex_input_kexinit *)
KexInputKexinit(e, s, p) ==
  LET Run(t) == StartMethod(e, t)
      Choose(t) == With(KexChooseConf(e, t, p), Run)
  IN With(With([s EXCEPT !.peer = Append(@, p.body)], KexSendKexinit), Choose)

(* input_kex_dh_init, input_kex_ecdh_init, input_kex_c25519_init and the   *)
(* last step of group exchange on the server                               *)
ServerReply(s, reply) ==
  LET Derive(t) == KexDeriveKeys("server", t)
  IN With(With(Send2(s, Packet(reply, 0)), Derive), KexSendNewkeys)

(* input_kex_dh, input_kex_ecdh_reply, input_kex_c25519_reply and          *)
(* input_kex_dh_gex_reply on the client *)
ClientReply(s) == With(KexDeriveKeys("client", s), KexSendNewkeys)

(* input_kex_dh_gex_request with mm_choose_dh, input_kex_dh_gex_group *)
GexRequest(s) == Expect(Send2(s, Packet("GEX_GROUP", 0)), "GEX_INIT")
GexGroup(s) ==
  [Send2(s, Packet("GEX_INIT", 0))
     EXCEPT !.handlers = (@ \ {"GEX_GROUP"}) \cup {"GEX_REPLY"}]

(* ssh_userauth2 and do_authentication2 follow the first exchange, the     *)
(* session loops follow authentication; each replaces the dispatch table.  *)
StartAuth(e, s) ==
  IF e = "client"
  THEN Send2([s EXCEPT !.phase = "auth",
                       !.handlers = {"EXT_INFO", "USERAUTH_SUCCESS"}],
             Packet("USERAUTH_REQUEST", 0))
  ELSE [s EXCEPT !.phase = "auth", !.handlers = {"USERAUTH_REQUEST"}]

StartLoop(s) == [s EXCEPT !.phase = "loop", !.handlers = {"KEXINIT", "DATA"}]

\* Mutant: the state that goes over has all of kex.
HandoverOfAllKex(s) ==
  [s EXCEPT !.done = TRUE, !.rekeying = FALSE, !.newOut = NoKey, !.newIn = NoKey,
            !.p_send = 0, !.p_read = 0, !.expired = FALSE, !.outgoing = <<>>]

(* ssh_packet_get_state in the network child, ssh_packet_set_state in the  *)
(* process that has been the monitor: keys, compression, input and output  *)
(* go over; kex is a new one, without ext_info_c, and the counters start   *)
(* from zero.                                                              *)
Handover(s) ==
  [s EXCEPT !.done = TRUE, !.rekeying = FALSE, !.ext_info_c = FALSE, !.newOut = NoKey,
            !.newIn = NoKey, !.p_send = 0, !.p_read = 0, !.expired = FALSE, !.outgoing = <<>>]

(* The server after USERAUTH_SUCCESS: privsep_postauth, server_loop2 *)
ServerLoop(s) == StartLoop(IF privsep THEN Handover(s) ELSE s)

\* Mutant: KEX_INIT_SENT is not cleared, the next KEXINIT is not answered.
KexInputNewkeysSticky(e, s) ==
  LET Return(t) == IF t.phase = "kex" THEN StartAuth(e, t) ELSE t
  IN With([s EXCEPT !.handlers = @ \ {"NEWKEYS"}, !.done = TRUE,
                    !.peer = <<>>], Return)

(* kex_input_newkeys; the dispatch_run of the first exchange ends here *)
KexInputNewkeys(e, s) ==
  LET Return(t) == IF t.phase = "kex" THEN StartAuth(e, t) ELSE t
  IN With([s EXCEPT !.handlers = @ \ {"NEWKEYS"}, !.done = TRUE,
                    !.peer = <<>>, !.initSent = FALSE], Return)

(* kex_input_ext_info *)
KexInputExtInfo(s) == [s EXCEPT !.handlers = @ \ {"EXT_INFO"}]

(* kex_protocol_error, dispatch_protocol_error *)
ProtocolError(s) == Send2(s, Packet("UNIMPLEMENTED", 0))

(* ssh_dispatch_run: the handler of one packet.  The loops of both ends    *)
(* keep a handler for DATA whatever a key exchange does to the others.     *)
Handles(s, p) == \/ p.type \in s.handlers
                 \/ p.type = "DATA" /\ s.phase = "loop"

Dispatch(e, s, p) ==
  CASE ~Handles(s, p) -> ProtocolError(s)
    [] p.type = "KEXINIT" -> KexInputKexinit(e, s, p)
    [] p.type = "KEXDH_INIT" -> ServerReply(s, "KEXDH_REPLY")
    [] p.type = "GEX_INIT" -> ServerReply(s, "GEX_REPLY")
    [] p.type \in {"KEXDH_REPLY", "GEX_REPLY"} -> ClientReply(s)
    [] p.type = "GEX_REQUEST" -> GexRequest(s)
    [] p.type = "GEX_GROUP" -> GexGroup(s)
    [] p.type = "NEWKEYS" -> KexInputNewkeys(e, s)
    [] p.type = "EXT_INFO" -> KexInputExtInfo(s)
    [] p.type = "USERAUTH_REQUEST" ->
         ServerLoop(Send2(s, Packet("USERAUTH_SUCCESS", 0)))
    [] p.type = "USERAUTH_SUCCESS" -> StartLoop(s)
    [] p.type = "DATA" -> s

(* ssh_packet_read_poll2: decrypt, count, let NEWKEYS and USERAUTH_SUCCESS *)
(* take effect, and start an exchange when the limits ask for one.         *)
ReadPoll2(s, p) ==
  LET Effect(t) == CASE p.type = "NEWKEYS" -> SetNewkeysIn(t)
                     [] p.type = "USERAUTH_SUCCESS" -> EnableDelayedCompress(t)
                     [] OTHER -> t
      Check(t) == IF NeedRekeying(t, 0) THEN KexStartRekex(t) ELSE t
  IN With(With([s EXCEPT !.p_read = @ + 1], Effect), Check)

-----------------------------------------------------------------------------
Alive(e) == end[e].fatal = "none"

(* One packet is read and dispatched.  UNIMPLEMENTED ends in               *)
(* ssh_packet_read_poll_seqnr.                                             *)
Receive(e, p) ==
  LET o == Other(e)
      ignored == p.type = "UNIMPLEMENTED"
  IN \E s \in {ReadPoll2(end[e], p)} :
     \E t \in {IF s.fatal # "none" \/ ignored THEN s ELSE Dispatch(e, s, p)} :
       /\ end' = [end EXCEPT ![e] = t, ![o].output = Tail(@)]
       /\ delivered' = IF p.type = "DATA" /\ Handles(s, p)
                       THEN [delivered EXCEPT ![o] = Append(@, p.body)]
                       ELSE delivered
       /\ unexpected' = IF ~ignored /\ ~Handles(s, p)
                        THEN unexpected \cup {<<e, p.type, s.phase>>}
                        ELSE unexpected
       /\ UNCHANGED unreadable

(* A packet sealed with another key or compressed otherwise fails its MAC  *)
(* or its decompression and ends the connection.                           *)
Corrupted(e, p) ==
  /\ end' = [end EXCEPT ![e].fatal = "corrupt"]
  /\ unreadable' = unreadable \cup {p.type}
  /\ UNCHANGED <<delivered, unexpected>>

Read(e) ==
  LET out == end[Other(e)].output
      readable == Head(out).key = end[e].keyIn /\ Head(out).comp = end[e].compIn
  IN /\ Alive(e)
     /\ out # <<>>
     /\ IF readable THEN Receive(e, Head(out)) ELSE Corrupted(e, Head(out))
     /\ UNCHANGED <<method, privsep, ticks, manual>>

(* A layer above writes a packet.  Handlers answer in the middle of an     *)
(* exchange, so this may happen at any time after login.                   *)
Write(e) ==
  /\ Alive(e)
  /\ end[e].phase = "loop"
  /\ end[e].writes < MaxWrites
  /\ LET s == [end[e] EXCEPT !.writes = @ + 1]
     IN end' = [end EXCEPT ![e] = Send2(s, Packet("DATA", s.writes))]
  /\ UNCHANGED <<method, privsep, ticks, manual, delivered, unexpected, unreadable>>

(* rekey_time + rekey_interval <= monotime() becomes true *)
Tick(e) ==
  /\ ticks < MaxTicks
  /\ ticks' = ticks + 1
  /\ end' = [end EXCEPT ![e].expired = TRUE]
  /\ UNCHANGED <<method, privsep, manual, delivered, unexpected, unreadable>>

(* The client loop acts on ~R unless an exchange is in progress. *)
ManualRekey ==
  /\ manual < MaxManual
  /\ Alive("client")
  /\ end["client"].phase = "loop"
  /\ ~IsRekeying(end["client"])
  /\ manual' = manual + 1
  /\ end' = [end EXCEPT !["client"] = KexStartRekex(@)]
  /\ UNCHANGED <<method, privsep, ticks, delivered, unexpected, unreadable>>

(* kex_setup on both ends: each has sent its first KEXINIT. *)
FreshEnd ==
  [phase |-> "kex", after_authentication |-> FALSE,
   rekeying |-> TRUE, done |-> FALSE, initSent |-> FALSE,
   my |-> 0, peer |-> <<>>, ext_info_c |-> FALSE,
   keyOut |-> NoKey, keyIn |-> NoKey, newOut |-> NoKey, newIn |-> NoKey,
   compOut |-> FALSE, compIn |-> FALSE, p_send |-> 0, p_read |-> 0,
   expired |-> FALSE, handlers |-> {"KEXINIT"},
   outgoing |-> <<>>, output |-> <<>>, writes |-> 0, fatal |-> "none",
   exchange |-> FALSE, between |-> {}]

KexSetup == KexSendKexinit(FreshEnd)

Init == /\ end = [e \in Ends |-> KexSetup]
        /\ method \in Methods /\ privsep \in Separations
        /\ ticks = 0 /\ manual = 0
        /\ delivered = [e \in Ends |-> <<>>]
        /\ unexpected = {} /\ unreadable = {}

Next == \/ \E e \in Ends : Read(e) \/ Write(e) \/ Tick(e)
        \/ ManualRekey

Spec == Init /\ [][Next]_vars

(* Both ends read what arrives; nobody has to write or to ask for a rekey. *)
FairSpec == Spec /\ \A e \in Ends : WF_vars(Read(e))

-----------------------------------------------------------------------------
(* Shape of the state. *)
TypeOK ==
  /\ \A e \in Ends :
       /\ end[e].phase \in {"kex", "auth", "loop"}
       /\ end[e].p_send \in Nat /\ end[e].p_read \in Nat
       /\ end[e].handlers \subseteq KexTypes \cup PlainTypes
       /\ \A i \in DOMAIN end[e].outgoing :
            end[e].outgoing[i].type \in PlainTypes
       /\ \A i \in DOMAIN end[e].output :
            end[e].output[i].type \in KexTypes \cup PlainTypes
  /\ delivered \in [Ends -> Seq(1..MaxWrites)]

(* Every packet is read with the key and the compression it was sent with, *)
(* and no exchange is started twice or finished without keys: NEWKEYS,     *)
(* USERAUTH_SUCCESS and the queue switch both ends at the same packet,     *)
(* however the exchanges of the two ends overlap (packet.c, kex.c).        *)
KeysAgree == unreadable = {} /\ \A e \in Ends : end[e].fatal = "none"

(* Between its KEXINIT and its NEWKEYS an end sends key exchange packets   *)
(* only, until NEWKEYS whatever the peer has read meanwhile: no packet is  *)
(* under the old key after the peer was told to exchange keys.             *)
OnlyKexBetween == \A e \in Ends : end[e].between = {}

(* With privilege separation no packet ever meets kex_protocol_error: no   *)
(* KEXINIT falls into the gap between two dispatch tables at login, and    *)
(* EXT_INFO is sent once, since the process that takes over at login has   *)
(* not seen ext-info-c.  Without it ext_info_c is never cleared, and only  *)
(* the EXT_INFO that follows a later NEWKEYS meets it.                     *)
OnlyLateExtInfo ==
  unexpected \subseteq IF privsep THEN {} ELSE {<<"client", "EXT_INFO", "loop">>}

(* What the layers above see: the abstract transport. *)
IsData(p) == p.type = "DATA"
UnderWay(e) == LET all == end[e].output \o end[e].outgoing
                   data == SelectSeq(all, IsData)
               IN [i \in DOMAIN data |-> data[i].body]

T == INSTANCE Transport WITH written <- [e \in Ends |-> end[e].writes],
                             pending <- [e \in Ends |-> UnderWay(e)],
                             delivered <- delivered

(* The packet layer implements Transport: packets written at any moment,   *)
(* before, during and after key exchanges, arrive once, in order, and      *)
(* eventually (ssh_packet_send2, the queue, ssh_packet_read_poll2).        *)
ImplementsTransport == T!TSpec

(* Every exchange ends and exchanges do not set each other off for ever:   *)
(* once nothing more is written both ends come to rest with the same keys. *)
AtRest == /\ \A e \in Ends : ~IsRekeying(end[e]) /\ end[e].output = <<>>
          /\ end["client"].keyOut = end["server"].keyIn
          /\ end["server"].keyOut = end["client"].keyIn
ComesToRest == <>[]AtRest
=============================================================================
