------------------------------ MODULE UserAuth ------------------------------
(***************************************************************************)
(* Protocol 2 user authentication with privilege separation (auth2.c and   *)
(* its methods, monitor.c, monitor_wrap.c).                                *)
(*                                                                         *)
(* Two processes decide, each with its own Authctxt: the network CHILD     *)
(* talks to the client and asks the MONITOR to check each proof.  The      *)
(* monitor answers before it has done its own bookkeeping, so the two      *)
(* evaluate the result separately, with different code, and have to come   *)
(* to the same conclusion every time.                                      *)
(*                                                                         *)
(* Passwords, keys and signatures are abstracted to whether they are       *)
(* right.  On this bastion every login is one of root                      *)
(* (getpwnamallow("root") in mm_answer_pwnamallow()).  The build has       *)
(* neither PAM, BSD_AUTH nor SKEY, so that keyboard-interactive has no     *)
(* device and always fails.                                                *)
(***************************************************************************)
EXTENDS Integers, Sequences, FiniteSets

CONSTANTS
  Enabled,      \* the authentication methods enabled in sshd_config
  Keys,         \* user and host keys a client may offer
  Authorized,   \* those of Keys that the monitor finds allowed
  ForcedKeys,   \* those of Keys whose entry has a command="..." option
  MaxTries,     \* options.max_authtries
  MaxRequests,  \* bound: USERAUTH_REQUESTs in a behaviour
  Configs       \* the configurations considered: AuthenticationMethods, PermitRootLogin
                \* and PermitEmptyPasswords

Methods == {"none", "publickey", "password", "keyboard-interactive", "hostbased"}
RootPolicies == {"yes", "without-password", "forced-commands-only", "no"}

ASSUME AuthAssumption ==
  /\ Enabled \subseteq Methods \ {"none"}
  /\ Authorized \subseteq Keys /\ ForcedKeys \subseteq Keys
  /\ MaxTries \in Nat \ {0} /\ MaxRequests \in Nat
  /\ \A c \in Configs : /\ c.lists \in Seq(Seq(Methods)) /\ \A i \in DOMAIN c.lists : c.lists[i] # <<>>
                        /\ c.root \in RootPolicies /\ c.empty \in BOOLEAN

VARIABLES
  conf,      \* the configuration, one of Configs
  known,     \* may root log in at all (getpwnamallow() is not NULL)?
  child,     \* the child's Authctxt and where it is
  mon,       \* the monitor's Authctxt, its dispatch table and its key state
  toMon,     \* requests on the socket to the monitor
  toChild,   \* answers on the socket to the child
  proofs,    \* history: what the monitor found proved, oldest first
  wrong,     \* history: number of wrong proofs the monitor has looked at
  requests,  \* number of USERAUTH_REQUESTs so far
  over       \* why the connection was ended, "no" while it is up

vars == <<conf, known, child, mon, toMon, toChild, proofs, wrong, requests, over>>

NoKey == [type |-> "none", key |-> "none"]
NoRequest == [method |-> "none", key |-> "none", sig |-> "none", pass |-> "none"]

Init ==
  /\ conf \in Configs /\ known \in BOOLEAN
  /\ child = [pc |-> "idle", req |-> NoRequest, attempt |-> 0, failures |-> 0, lists |-> <<>>,
              valid |-> FALSE, none_enabled |-> TRUE, used |-> {}, forced |-> FALSE]
  /\ mon = [pc |-> "loop", permit |-> {"PWNAM"}, attempt |-> 0, failures |-> 0, lists |-> <<>>,
            valid |-> FALSE, calls |-> 0, key |-> NoKey, used |-> {}, forced |-> FALSE,
            cut |-> FALSE]
  /\ toMon = <<>> /\ toChild = <<>>
  /\ proofs = <<>> /\ wrong = 0 /\ requests = 0 /\ over = "no"

-----------------------------------------------------------------------------
(* The methods lists, shared code of both processes (auth2.c).             *)

\* auth2_setup_methods_lists(): lists with a disabled method are dropped.
Usable(l) == \A i \in DOMAIN l : l[i] \in Enabled \cup {"none"}
KeptLists[n \in 0..Len(conf.lists)] ==
  IF n = 0 THEN <<>>
  ELSE IF Usable(conf.lists[n]) THEN Append(KeptLists[n - 1], conf.lists[n])
  ELSE KeptLists[n - 1]
SetupLists == KeptLists[Len(conf.lists)]

\* list_starts_with()
StartsWith(l, m) == l # <<>> /\ Head(l) = m

\* auth2_method_allowed()
MethodAllowed(lists, m) ==
  conf.lists = <<>> \/ \E i \in DOMAIN lists : StartsWith(lists[i], m)

\* auth2_update_methods_lists() and remove_method(): the method is removed from
\* the start of each list, up to the first list that this completes.
Completed(lists, m) == {i \in DOMAIN lists : lists[i] = <<m>>}
UpdateLists(lists, m) ==
  [i \in DOMAIN lists |->
     IF StartsWith(lists[i], m) /\ \A j \in Completed(lists, m) : i <= j
     THEN Tail(lists[i]) ELSE lists[i]]

\* auth_root_allowed(), for a process whose forced_command is set when forced.
RootAllowed(m, forced) ==
  \/ conf.root = "yes"
  \/ conf.root = "without-password" /\ m \in {"publickey", "hostbased"}
  \/ conf.root = "forced-commands-only" /\ forced

-----------------------------------------------------------------------------
(* The child.                                                              *)

\* Mutant: the first attempt is free whatever its method.
CountsNotFirst(c, m, partial) == ~partial /\ c.attempt > 1

\* userauth_finish(): is a refused attempt counted?  The initial "none" is not.
Counts(c, m, partial) == ~partial /\ (c.attempt > 1 \/ m # "none")

\* userauth_finish(), after a method that answered authenticated.  c is the
\* child, postponed says that PK_OK was sent instead of an answer.
Finish(c, m, authenticated, postponed) ==
  LET auth1   == authenticated /\ RootAllowed(m, c.forced)
      lists   == conf.lists # <<>> /\ auth1
      listed  == \E i \in DOMAIN c.lists : StartsWith(c.lists[i], m)
      partial == lists /\ Completed(c.lists, m) = {}
      auth2   == auth1 /\ ~partial
      c1      == [c EXCEPT !.pc = IF auth2 THEN "export" ELSE "idle", !.req = NoRequest,
                           !.lists = IF lists THEN UpdateLists(c.lists, m) ELSE c.lists]
      c2      == IF auth2 \/ postponed \/ ~Counts(c, m, partial) THEN c1
                 ELSE [c1 EXCEPT !.failures = @ + 1]
  IN  IF authenticated /\ ~c.valid
      THEN over' = "authenticated_invalid_user" /\ UNCHANGED child
      ELSE IF lists /\ ~listed
      THEN over' = "method_not_in_AuthenticationMethods" /\ UNCHANGED child
      ELSE /\ child' = c2
           /\ over' = IF ~auth2 /\ ~postponed /\ c2.failures >= MaxTries
                      THEN "too_many_failures" ELSE over

Message(type, req) == [type |-> type, req |-> req]

\* Mutant: a key that already served may be offered again.
AlreadyUsedNever(a, k) == FALSE

\* auth2_userkey_already_used(), for the Authctxt a of either process.
AlreadyUsed(a, k) == k \in a.used

\* authmethod_lookup() and the method's function up to its first question to the
\* monitor, or to its end: userauth_none(), userauth_passwd(), userauth_pubkey(),
\* userauth_hostbased(), userauth_kbdint().  c is the child, queue what it has
\* sent to the monitor so far.
TryMethod(c, q, queue) ==
  LET m     == q.method
      found == /\ IF m = "none" THEN c.none_enabled ELSE m \in Enabled
               /\ MethodAllowed(c.lists, m)
               /\ c.failures < MaxTries
      c1    == IF found /\ m = "none" THEN [c EXCEPT !.none_enabled = FALSE] ELSE c
      asks  == found /\ CASE m = "none"      -> conf.empty /\ "password" \in Enabled
                          [] m = "password"  -> q.pass # "change"
                          [] m = "publickey" -> c.valid /\ ~AlreadyUsed(c, q.key)
                          [] m = "hostbased" -> c.valid
                          [] OTHER           -> FALSE
      type  == IF m \in {"none", "password"} THEN "AUTHPASSWORD" ELSE "KEYALLOWED"
  IN  IF asks THEN /\ child' = [c1 EXCEPT !.pc = "wait", !.req = q]
                   /\ toMon' = Append(queue, Message(type, q))
                   /\ UNCHANGED over
              ELSE Finish(c1, m, FALSE, FALSE) /\ toMon' = queue

\* input_userauth_request() for a request q; same says that user and service are
\* those of the first request.
UserauthRequest(q, same) ==
  LET c == [child EXCEPT !.attempt = @ + 1]
  IN  /\ over = "no" /\ child.pc = "idle" /\ requests < MaxRequests
      /\ requests' = requests + 1
      /\ IF child.attempt = 0
         THEN /\ child' = [c EXCEPT !.pc = "pwnam", !.req = q]
              /\ toMon' = Append(toMon, Message("PWNAM", q))
              /\ UNCHANGED over
         ELSE IF same THEN TryMethod(c, q, toMon)
         ELSE over' = "change_of_username_or_service" /\ UNCHANGED <<child, toMon>>
      /\ UNCHANGED <<conf, known, mon, toChild, proofs, wrong>>

Answer == Head(toChild)
Answered(pc, type) ==
  over = "no" /\ child.pc = pc /\ toChild # <<>> /\ Answer.type = type

\* mm_getpwnamallow() returns: the first input_userauth_request() goes on.  The
\* monitor is told the service (mm_inform_authserv()), the lists are set up.
PwnamAnswer(service_ok) ==
  LET c     == [child EXCEPT !.pc = "idle", !.valid = Answer.ok /\ service_ok,
                             !.lists = SetupLists]
      queue == Append(toMon, Message("AUTHSERV", child.req))
  IN  /\ Answered("pwnam", "PWNAM")
      /\ toChild' = Tail(toChild)
      /\ IF conf.lists # <<>> /\ SetupLists = <<>>
         THEN over' = "no_authentication_methods_enabled" /\ child' = c /\ toMon' = queue
         ELSE TryMethod(c, child.req, queue)
      /\ UNCHANGED <<conf, known, mon, proofs, wrong, requests>>

\* mm_auth_password() returns to userauth_passwd() or userauth_none().
PasswordAnswer ==
  /\ Answered("wait", "AUTHPASSWORD")
  /\ toChild' = Tail(toChild)
  /\ Finish(child, child.req.method, Answer.ok, FALSE)
  /\ UNCHANGED <<conf, known, mon, toMon, proofs, wrong, requests>>

\* userauth_pubkey() ends with auth_clear_options() unless it authenticated;
\* userauth_hostbased() does not.
ClearOptions(c) == IF c.req.method = "publickey" THEN [c EXCEPT !.forced = FALSE] ELSE c

\* mm_key_allowed() returns to userauth_pubkey() or userauth_hostbased(): the
\* signature is verified next, or a mere question answered with PK_OK.
KeyAllowedAnswer ==
  LET c == [child EXCEPT !.forced = Answer.forced]
  IN  /\ Answered("wait", "KEYALLOWED")
      /\ toChild' = Tail(toChild)
      /\ IF Answer.ok /\ c.req.sig # "none"
         THEN /\ child' = c
              /\ toMon' = Append(toMon, Message("KEYVERIFY", c.req))
              /\ UNCHANGED over
         ELSE Finish(ClearOptions(c), c.req.method, FALSE, Answer.ok) /\ UNCHANGED toMon
      /\ UNCHANGED <<conf, known, mon, proofs, wrong, requests>>

\* mm_key_verify() returns; auth2_record_userkey() remembers a user key.
KeyVerifyAnswer ==
  LET m == child.req.method
      c == IF ~Answer.ok THEN ClearOptions(child)
           ELSE IF m = "publickey" THEN [child EXCEPT !.used = @ \cup {child.req.key}]
           ELSE child
  IN  /\ Answered("wait", "KEYVERIFY")
      /\ toChild' = Tail(toChild)
      /\ Finish(c, m, Answer.ok, FALSE)
      /\ UNCHANGED <<conf, known, mon, toMon, proofs, wrong, requests>>

\* After SUCCESS: mm_send_keystate(), then the child exits.
SendKeystate ==
  /\ over = "no" /\ child.pc = "export"
  /\ child' = [child EXCEPT !.pc = "done"]
  /\ toMon' = Append(toMon, Message("KEYEXPORT", NoRequest))
  /\ UNCHANGED <<conf, known, mon, toChild, proofs, wrong, requests, over>>

-----------------------------------------------------------------------------
(* The monitor.                                                            *)

Asked(type) == over = "no" /\ toMon # <<>> /\ Head(toMon).type = type
Question == Head(toMon).req

\* monitor_read(): the request is permitted, or the monitor gives up.
Permitted(type) == type \in mon.permit

\* Mutant: only a positive answer is sent.
ReplyPositive(type, ok, forced) ==
  toChild' = IF ok THEN Append(toChild, [type |-> type, ok |-> ok, forced |-> forced]) ELSE toChild

\* The handler of the request at the head answers ok (mm_request_send()).
Reply(type, ok, forced) ==
  toChild' = Append(toChild, [type |-> type, ok |-> ok, forced |-> forced])

GiveUp(why) == over' = why /\ UNCHANGED <<mon, toChild, proofs, wrong>>

\* Mutant: only the requests that decide (MON_AUTHDECIDE) are permitted.
AuthRequestsDeciding == {"AUTHPASSWORD", "KEYVERIFY"}

\* monitor_permit_authentications(): the requests flagged MON_AUTH.
AuthRequests == {"AUTHPASSWORD", "KEYALLOWED", "KEYVERIFY"}

\* The forms a user name may have.  "plain" names no asset.  strtok() skips the
\* leading dashes of "--asset", so that nothing is cut off it.
Names == {"plain", "user--asset", "--asset"}

\* mm_answer_pwnamallow(), a MON_ONCE request.  A user name that does not name
\* an asset gets an answer without its first field, which mm_getpwnamallow()
\* cannot decode: the child ends in fatal().  Of "user--asset" strtok() cuts off
\* the asset before the name is kept in the monitor's Authctxt; the child keeps
\* the full name.
AnswerPwnam(name) ==
  /\ Asked("PWNAM")
  /\ toMon' = Tail(toMon)
  /\ IF ~Permitted("PWNAM") THEN GiveUp("unpermitted_request")
     ELSE IF name = "plain" THEN GiveUp("no_asset_in_the_user_name")
     ELSE /\ mon' = [mon EXCEPT !.permit = (@ \ {"PWNAM"}) \cup {"AUTHSERV"},
                                !.attempt = @ + 1, !.valid = known, !.lists = SetupLists,
                                !.cut = (name = "user--asset")]
          /\ Reply("PWNAM", known, FALSE)
          /\ UNCHANGED <<proofs, wrong, over>>
  /\ UNCHANGED <<conf, known, child, requests>>

\* mm_answer_authserv(), MON_ONCE and without an answer: authentication may begin.
AnswerAuthserv ==
  /\ Asked("AUTHSERV")
  /\ toMon' = Tail(toMon)
  /\ IF ~Permitted("AUTHSERV") THEN GiveUp("unpermitted_request")
     ELSE /\ mon' = [mon EXCEPT !.permit = (@ \ {"AUTHSERV"}) \cup AuthRequests]
          /\ UNCHANGED <<toChild, proofs, wrong, over>>
  /\ UNCHANGED <<conf, known, child, requests>>

\* The loop of monitor_child_preauth() after a handler that decides answered
\* ret with auth_method m; n is the monitor after the handler.
Decide(n, m, ret, proof) ==
  LET lists   == conf.lists # <<>> /\ ret
      listed  == \E i \in DOMAIN n.lists : StartsWith(n.lists[i], m)
      partial == lists /\ Completed(n.lists, m) = {}
      auth    == ret /\ ~partial /\ RootAllowed(m, n.forced)
  IN  /\ mon' = [n EXCEPT !.pc = IF auth THEN "keystate" ELSE "loop",
                          !.lists = IF lists THEN UpdateLists(n.lists, m) ELSE n.lists,
                          !.failures = IF partial \/ auth THEN @ ELSE @ + 1]
      /\ proofs' = IF ret THEN Append(proofs, proof) ELSE proofs
      /\ wrong' = IF ret THEN wrong ELSE wrong + 1
      /\ over' = CASE lists /\ ~listed   -> "method_not_in_AuthenticationMethods"
                   [] auth /\ ~n.valid   -> "authenticated_invalid_user"
                   [] OTHER              -> over

\* The method name of mm_answer_authpassword(): an empty password is taken for
\* "none" in the first call.
PasswordMethod(n, q) == IF q.pass = "empty" /\ n.calls = 1 THEN "none" ELSE "password"

\* auth_password(): never for root unless PermitRootLogin is "yes".  What
\* sys_auth_passwd() finds in the database and in the shadow file is given by
\* the request.
PasswordOk(q) ==
  /\ "password" \in Enabled /\ mon.valid /\ conf.root = "yes"
  /\ q.pass = "right" \/ (q.pass = "empty" /\ conf.empty /\ q.sig = "right")

\* mm_answer_authpassword()
AnswerPassword ==
  LET n == [mon EXCEPT !.calls = @ + 1]
      m == PasswordMethod(n, Question)
  IN  /\ Asked("AUTHPASSWORD") /\ mon.pc = "loop"
      /\ toMon' = Tail(toMon)
      /\ IF ~Permitted("AUTHPASSWORD") THEN GiveUp("unpermitted_request")
         ELSE /\ Decide(n, m, PasswordOk(Question), [method |-> m, key |-> "none"])
              /\ Reply("AUTHPASSWORD", PasswordOk(Question), FALSE)
      /\ UNCHANGED <<conf, known, child, requests>>

\* sys_auth_passwd() and monitor_valid_userblob() end the process when the
\* database has no row for the account and the asset.
NoDestination ==
  /\ Asked("AUTHPASSWORD") \/ Asked("KEYVERIFY")
  /\ over' = "no_destination"
  /\ UNCHANGED <<conf, known, child, mon, toMon, toChild, proofs, wrong, requests>>

\* mm_answer_keyallowed(): the key is remembered for mm_answer_keyverify(), the
\* forced command of a user key only if a signature is to follow.
AnswerKeyAllowed ==
  LET q      == Question
      user   == q.method = "publickey"
      ok     == /\ mon.valid /\ q.method \in Enabled /\ q.key \in Authorized
                /\ user => ~AlreadyUsed(mon, q.key)
      forced == IF user /\ mon.valid THEN ok /\ q.sig # "none" /\ q.key \in ForcedKeys
                ELSE mon.forced
  IN  /\ Asked("KEYALLOWED") /\ mon.pc = "loop"
      /\ toMon' = Tail(toMon)
      /\ IF ~Permitted("KEYALLOWED") THEN GiveUp("unpermitted_request")
         ELSE /\ mon' = [mon EXCEPT !.key = IF ok THEN [type |-> q.method, key |-> q.key] ELSE NoKey,
                                    !.forced = forced]
              /\ Reply("KEYALLOWED", ok, forced)
              /\ UNCHANGED <<proofs, wrong, over>>
      /\ UNCHANGED <<conf, known, child, requests>>

\* monitor_valid_userblob() and monitor_valid_hostbasedblob(): does the signed
\* data fit what the monitor knows?  The data of a user key always does, since
\* the comparison of the user name is commented out there.  For a host key the
\* name the child signed has to be the name the monitor kept.
ValidData(type) == type = "publickey" \/ (type = "hostbased" /\ ~mon.cut)

\* mm_answer_keyverify()
AnswerKeyVerify ==
  LET q  == Question
      ok == q.sig = "right"
      m  == mon.key.type
      n  == [mon EXCEPT !.key = NoKey,
                        !.used = IF ok /\ m = "publickey" THEN @ \cup {q.key} ELSE @]
  IN  /\ Asked("KEYVERIFY") /\ mon.pc = "loop"
      /\ toMon' = Tail(toMon)
      /\ IF ~Permitted("KEYVERIFY") THEN GiveUp("unpermitted_request")
         ELSE IF mon.key.key # q.key THEN GiveUp("key_not_previously_allowed")
         ELSE IF ~ValidData(m) THEN GiveUp("bad_signature_data_blob")
         ELSE /\ Decide(n, m, ok, [method |-> m, key |-> q.key])
              /\ Reply("KEYVERIFY", ok, FALSE)
      /\ UNCHANGED <<conf, known, child, requests>>

\* mm_get_keystate(): the next request must be the child's state.  Before that
\* monitor_read() does not know the request.
GetKeystate ==
  /\ over = "no" /\ toMon # <<>>
  /\ mon.pc = "keystate" \/ Head(toMon).type = "KEYEXPORT"
  /\ toMon' = Tail(toMon)
  /\ IF mon.pc = "keystate" /\ Head(toMon).type = "KEYEXPORT"
     THEN /\ mon' = [mon EXCEPT !.pc = "done"]
          /\ UNCHANGED <<toChild, proofs, wrong, over>>
     ELSE GiveUp("unexpected_request")
  /\ UNCHANGED <<conf, known, child, requests>>

\* grace_alarm_handler(): LoginGraceTime has passed, both processes are killed.
GraceAlarm ==
  /\ over = "no" /\ mon.pc # "done"
  /\ over' = "timeout"
  /\ UNCHANGED <<conf, known, child, mon, toMon, toChild, proofs, wrong, requests>>

\* What a client may send.  An empty password is right (sig) or not.
Requests ==
  [method : {"none"}, key : {"none"}, sig : {"wrong", "right"}, pass : {"empty"}] \cup
  [method : {"password"}, key : {"none"}, sig : {"wrong"}, pass : {"right", "wrong", "change"}] \cup
  [method : {"password"}, key : {"none"}, sig : {"wrong", "right"}, pass : {"empty"}] \cup
  [method : {"publickey"}, key : Keys, sig : {"none", "wrong", "right"}, pass : {"none"}] \cup
  [method : {"hostbased"}, key : Keys, sig : {"wrong", "right"}, pass : {"none"}] \cup
  [method : {"keyboard-interactive"}, key : {"none"}, sig : {"wrong"}, pass : {"none"}]

Monitor == \/ \E name \in Names : AnswerPwnam(name)
           \/ AnswerAuthserv \/ AnswerPassword \/ AnswerKeyAllowed
           \/ AnswerKeyVerify \/ GetKeystate

ChildReturns == \/ \E ok \in BOOLEAN : PwnamAnswer(ok)
                \/ PasswordAnswer \/ KeyAllowedAnswer \/ KeyVerifyAnswer \/ SendKeystate

Next == \/ \E q \in Requests, same \in BOOLEAN : UserauthRequest(q, same)
        \/ Monitor \/ ChildReturns \/ NoDestination \/ GraceAlarm

Spec == Init /\ [][Next]_vars
FairSpec == Spec /\ WF_vars(Monitor) /\ WF_vars(ChildReturns)

-----------------------------------------------------------------------------
\* The type invariant: among others, no list holds a disabled method.
TypeOK ==
  /\ conf \in Configs /\ known \in BOOLEAN
  /\ child.pc \in {"idle", "pwnam", "wait", "export", "done"}
  /\ mon.pc \in {"loop", "keystate", "done"}
  /\ child.failures \in 0..MaxTries /\ child.attempt \in 0..MaxRequests
  /\ \A i \in DOMAIN mon.lists : mon.lists[i] \in Seq(Enabled \cup {"none"})
  /\ \A i \in DOMAIN child.lists : child.lists[i] \in Seq(Enabled \cup {"none"})
  /\ mon.attempt \in 0..1 /\ mon.permit \subseteq {"PWNAM", "AUTHSERV"} \cup AuthRequests
  /\ child.used \subseteq Keys /\ mon.used \subseteq Keys
  /\ Len(toMon) <= 2 /\ Len(toChild) <= 1
  /\ requests \in 0..MaxRequests

\* The two processes come to the same conclusion every time: neither is asked
\* something it does not expect, nor finds a method proved that its lists do
\* not ask for (the fatal() calls of monitor.c and auth2_update_methods_lists()).
\* Two fatal() calls are met all the same.  "INTERNAL ERROR: authenticated
\* invalid user" in the child, only when the monitor checked a proof of a user
\* that is valid there and the child has not validated because the service asked
\* for is not "ssh-connection"; and "bad signature data blob" in the monitor,
\* only for a host key and a name that the monitor has cut.
Agreement ==
  /\ over \notin {"unpermitted_request", "unexpected_request", "key_not_previously_allowed",
                   "method_not_in_AuthenticationMethods"}
  /\ over = "authenticated_invalid_user" => mon.valid /\ ~child.valid
  /\ over = "bad_signature_data_blob" => child.req.method = "hostbased" /\ mon.cut

\* Did the proofs include the methods of list l, in this order, each with a key
\* of its own?
Proved(l) ==
  \E f \in [DOMAIN l -> DOMAIN proofs] :
    /\ \A i \in DOMAIN l : proofs[f[i]].method = l[i]
    /\ \A i, j \in DOMAIN l : i < j =>
         /\ f[i] < f[j]
         /\ l[i] = "publickey" /\ l[j] = "publickey" => proofs[f[i]].key # proofs[f[j]].key

\* A connection is authenticated only after all methods of one of the
\* AuthenticationMethods lists were proved in order, or any one method when
\* there are no lists.
ListProved ==
  mon.pc \in {"keystate", "done"} =>
    /\ proofs # <<>>
    /\ conf.lists # <<>> => \E i \in DOMAIN conf.lists : Proved(conf.lists[i])

\* A client gets at most MaxTries wrong proofs looked at in a connection, one
\* more when it began with "none" (userauth_finish()): the child counts enough
\* of what the monitor sees.
TriesBounded == wrong <= MaxTries + (IF child.none_enabled THEN 0 ELSE 1)

\* A request to the monitor is always answered, or the connection ended: the
\* child does not wait for ever.
AlwaysAnswered == (child.pc \in {"pwnam", "wait"}) ~> (child.pc \in {"idle", "export", "done"} \/ over # "no")

=============================================================================
