---------------------------- MODULE WalletConnect ----------------------------
(***************************************************************************)
(* The WalletConnect session (src/src/lib/walletconnect.ts) under the tool *)
(* calls that share it: dexe_wc_connect, dexe_wc_disconnect and the        *)
(* WalletConnect leg of dexe_tx_send (src/src/tools/txSend.ts).            *)
(*                                                                         *)
(* The manager's fields are shared by every call.  The rest of the world   *)
(* is the relay, which shows the URI of a proposal and lets it expire, and *)
(* the phones, which scan a URI, approve a request and end a session.  An  *)
(* action is a run of the event loop from one await to the next.           *)
(*                                                                         *)
(* A definition marked "faulty" is a bug the properties must notice; the   *)
(* specification does not use it.                                          *)
(***************************************************************************)
EXTENDS Integers, FiniteSets

CONSTANTS
  Callers,     \* tool calls in progress
  Providers,   \* bound: the UniversalProviders that init() may make
  Proposals,   \* bound: the session proposals alive at one time
  Accounts,    \* of the phones
  None

ASSUME WalletAssumption ==
  /\ IsFiniteSet(Callers) /\ IsFiniteSet(Proposals)
  /\ None \notin Providers \cup Proposals \cup Accounts

VARIABLES
  provider,    \* this.provider
  connecting, lastUri,
  inited,      \* the providers that init() has returned
  session,     \* provider |-> the account of provider.session
  proposal,    \* proposal |-> its state, and the provider that made it
  listening,   \* the proposals whose onUri still waits for display_uri
  call         \* caller |-> its call

manager == <<provider, connecting, lastUri>>
relay == <<inited, session, proposal, listening>>
wcVars == <<manager, relay, call>>

Idle == [pc |-> "idle", tool |-> "none", own |-> None, uri |-> None, from |-> None,
         sender |-> None, answer |-> "none", request |-> "none"]
Unused == [state |-> "unused", of |-> None]

WcInit ==
  /\ provider = None /\ connecting = FALSE /\ lastUri = None
  /\ inited = {} /\ listening = {}
  /\ session = [p \in Providers |-> None]
  /\ proposal = [x \in Proposals |-> Unused]
  /\ call = [c \in Callers |-> Idle]

IsConnected == provider # None /\ session[provider] # None
Account == session[provider]

\* Nobody has a use for it: the identifier may name a new proposal.
FreshUris ==
  {x \in Proposals : /\ proposal[x].state \notin {"sent", "shown"} /\ x # lastUri
                     /\ \A c \in Callers : x \notin {call[c].own, call[c].uri}}

Set(c, record) == call' = [call EXCEPT ![c] = record]
Answers(c, answer) == Set(c, [call[c] EXCEPT !.pc = "done", !.answer = answer])

-----------------------------------------------------------------------------
(* Pairing.                                                                *)

\* connect(), after getProvider(): the call waits for the proposal's URI.
Proposes(c, tool, p) ==
  \E x \in FreshUris :
    /\ connecting' = TRUE
    /\ proposal' = [proposal EXCEPT ![x] = [state |-> "sent", of |-> p]]
    /\ listening' = listening \cup {x}
    /\ Set(c, [Idle EXCEPT !.pc = "uri", !.tool = tool, !.own = x])
    /\ UNCHANGED <<provider, lastUri, inited, session>>

\* connect(), when the provider must be inited first.
Connects(c, tool) ==
  IF provider # None
  THEN Proposes(c, tool, provider)
  ELSE Set(c, [Idle EXCEPT !.pc = "init", !.tool = tool]) /\ UNCHANGED <<manager, relay>>

\* UniversalProvider.init() returns; the field is set whoever has set it before.
InitDone(c) ==
  /\ call[c].pc = "init"
  /\ \E p \in Providers \ inited, x \in FreshUris :
       /\ inited' = inited \cup {p} /\ provider' = p
       /\ connecting' = TRUE
       /\ proposal' = [proposal EXCEPT ![x] = [state |-> "sent", of |-> p]]
       /\ listening' = listening \cup {x}
       /\ Set(c, [call[c] EXCEPT !.pc = "uri", !.own = x])
  /\ UNCHANGED <<lastUri, session>>

InitFails(c) ==
  /\ call[c].pc = "init"
  /\ Answers(c, "error") /\ UNCHANGED <<manager, relay>>

\* dexe_wc_connect.
CallConnect(c) ==
  /\ call[c].pc = "idle"
  /\ IF IsConnected
     THEN Set(c, [Idle EXCEPT !.pc = "done", !.tool = "connect", !.answer = "error"])
          /\ UNCHANGED <<manager, relay>>
     ELSE Connects(c, "connect")

\* dexe_tx_send: the guards, or what ensurePairing() gives.
CallSend(c) ==
  /\ call[c].pc = "idle"
  /\ IF IsConnected
     THEN Set(c, [Idle EXCEPT !.pc = "guards", !.tool = "send", !.from = Account])
          /\ UNCHANGED <<manager, relay>>
     ELSE IF connecting /\ lastUri # None
     THEN Set(c, [Idle EXCEPT !.pc = "handed", !.tool = "send", !.uri = lastUri])
          /\ UNCHANGED <<manager, relay>>
     ELSE Connects(c, "send")

\* display_uri: every listener of the provider hears it, once, and takes the
\* URI for its own.
UriShown(x) ==
  /\ proposal[x].state = "sent"
  /\ LET heard == {y \in listening : proposal[y].of = proposal[x].of}
     IN  /\ listening' = listening \ heard
         /\ lastUri' = IF heard = {} THEN lastUri ELSE x
         /\ call' = [c \in Callers |->
              IF call[c].pc = "uri" /\ call[c].own \in heard
              THEN [call[c] EXCEPT !.pc = "handed", !.uri = x] ELSE call[c]]
  /\ proposal' = [proposal EXCEPT ![x].state = "shown"]
  /\ UNCHANGED <<provider, connecting, inited, session>>

\* The call returns the URI that it was handed.
HandsOver(c) ==
  /\ call[c].pc = "handed"
  /\ Answers(c, "uri") /\ UNCHANGED <<manager, relay>>

\* provider.connect() rejects: the phone says no, the proposal expires, or the
\* relay is out of reach.
ProposalFails(x) ==
  /\ proposal[x].state \in {"sent", "shown"}
  /\ proposal' = [proposal EXCEPT ![x].state = "failed"]
  /\ listening' = listening \ {x}
  /\ connecting' = FALSE
  /\ call' = [c \in Callers |->
       IF call[c].pc = "uri" /\ call[c].own = x
       THEN [call[c] EXCEPT !.pc = "done", !.answer = "error"] ELSE call[c]]
  /\ UNCHANGED <<provider, lastUri, inited, session>>

\* A phone scans a URI that somebody was shown, and approves the session:
\* provider.connect() resolves.
PhoneApproves(x) ==
  /\ proposal[x].state = "shown"
  /\ x = lastUri \/ \E c \in Callers : call[c].uri = x
  /\ proposal' = [proposal EXCEPT ![x].state = "approved"]
  /\ \E a \in Accounts : session' = [session EXCEPT ![proposal[x].of] = a]
  /\ connecting' = FALSE /\ lastUri' = None
  /\ UNCHANGED <<provider, inited, listening, call>>

-----------------------------------------------------------------------------
(* The session, and what is sent through it.                               *)

\* session_delete.
PhoneEnds(p) ==
  /\ session[p] # None
  /\ session' = [session EXCEPT ![p] = None]
  /\ lastUri' = None
  /\ UNCHANGED <<provider, connecting, inited, proposal, listening, call>>

CallDisconnect(c) ==
  /\ call[c].pc = "idle"
  /\ Set(c, [Idle EXCEPT !.tool = "disconnect", !.pc = IF IsConnected THEN "leaving" ELSE "done"])
  /\ UNCHANGED <<manager, relay>>

\* provider.disconnect() is done.
Disconnected(c) ==
  /\ call[c].pc = "leaving"
  /\ session' = [session EXCEPT ![provider] = None]
  /\ connecting' = FALSE /\ lastUri' = None
  /\ Answers(c, "ok")
  /\ UNCHANGED <<provider, inited, proposal, listening>>

\* It rejects: nothing that the manager keeps changes.
DisconnectFails(c) ==
  /\ call[c].pc = "leaving"
  /\ Answers(c, "error") /\ UNCHANGED <<manager, relay>>

WcGuardsRefuse(c) ==
  /\ call[c].pc = "guards"
  /\ Answers(c, "refused") /\ UNCHANGED <<manager, relay>>

\* sendTransaction(): the request goes to the account of the session there is.
WcGuardsPass(c) ==
  /\ call[c].pc = "guards"
  /\ IF IsConnected
     THEN Set(c, [call[c] EXCEPT !.pc = "phone", !.sender = Account, !.request = "asked"])
     ELSE Answers(c, "rejected")
  /\ UNCHANGED <<manager, relay>>

\* The owner approves on the phone, which signs and broadcasts; the hash counts
\* if the call still waits for it.
PhoneSends(c) ==
  /\ call[c].request = "asked" /\ session[provider] = call[c].sender
  /\ Set(c, [call[c] EXCEPT !.request = "sent",
                            !.pc = IF @ = "phone" THEN "done" ELSE @,
                            !.answer = IF call[c].pc = "phone" THEN "hash" ELSE @])
  /\ UNCHANGED <<manager, relay>>

PhoneDeclines(c) ==
  /\ call[c].request = "asked" /\ session[provider] = call[c].sender
  /\ Set(c, [call[c] EXCEPT !.request = "declined",
                            !.pc = IF @ = "phone" THEN "done" ELSE @,
                            !.answer = IF call[c].pc = "phone" THEN "rejected" ELSE @])
  /\ UNCHANGED <<manager, relay>>

CallTimesOutPaired(c) ==   \* faulty: the wait ends with the session only
  /\ call[c].pc = "phone" /\ ~ IsConnected
  /\ Answers(c, "rejected") /\ UNCHANGED <<manager, relay>>

\* The phone has not answered in time; the request stays with it.
CallTimesOut(c) ==
  /\ call[c].pc = "phone"
  /\ Answers(c, "rejected") /\ UNCHANGED <<manager, relay>>

NextCall(c) ==
  /\ call[c].pc = "done"
  /\ Set(c, Idle) /\ UNCHANGED <<manager, relay>>

Settles(c) ==
  \/ InitDone(c) \/ InitFails(c) \/ HandsOver(c) \/ Disconnected(c) \/ DisconnectFails(c)
  \/ WcGuardsRefuse(c) \/ WcGuardsPass(c) \/ CallTimesOut(c)

WcNext ==
  \/ \E c \in Callers : CallConnect(c) \/ CallSend(c) \/ CallDisconnect(c) \/ Settles(c)
  \/ \E c \in Callers : PhoneSends(c) \/ PhoneDeclines(c) \/ NextCall(c)
  \/ \E x \in Proposals : UriShown(x) \/ ProposalFails(x) \/ PhoneApproves(x)
  \/ \E p \in Providers : PhoneEnds(p)

\* The awaits settle and the timer fires; the relay shows a URI or gives up, and
\* lets no proposal live for ever.  The owner may leave the phone alone.
WcFairness ==
  /\ \A c \in Callers : WF_wcVars(Settles(c))
  /\ \A x \in Proposals : WF_wcVars(ProposalFails(x))

WcSpec == WcInit /\ [][WcNext]_wcVars /\ WcFairness

-----------------------------------------------------------------------------
(* Properties.                                                             *)

\* A URI that a call is handed belongs to a proposal a phone can still approve,
\* when it is handed over: not to one that has failed since.
HandedUriIsLive ==
  [][\A c \in Callers : call[c].pc # "handed" /\ call'[c].pc = "handed"
       => proposal'[call'[c].uri].state = "shown"]_wcVars

\* A session that a phone has approved, and not ended, is the one the tools see.
ApprovedIsConnected == (\E p \in Providers : session[p] # None) => IsConnected

\* A transaction is sent from the account that its guards were run for.
GuardsSeeTheSender ==
  \A c \in Callers : call[c].request = "sent" => call[c].sender = call[c].from

\* A transaction that the call said was rejected is not broadcast.
RejectedIsNotSent ==
  \A c \in Callers : call[c].answer = "rejected" => call[c].request # "sent"

\* Every call returns, whatever the phone does.
WcCallsReturn == \A c \in Callers : call[c].pc # "idle" ~> call[c].pc = "done"
=============================================================================
