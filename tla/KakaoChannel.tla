---------------------------- MODULE KakaoChannel ----------------------------
(***************************************************************************)
(* The AICC service behind the common KakaoTalk channel of all stores.     *)
(* kakao_skill is a coroutine without an await after the body is read, so  *)
(* the event loop serves one message at a time, and stands still while it  *)
(* fetches the store directory or waits for the agent.  A message with a   *)
(* callback URL is acknowledged at once and answered by a thread, which    *)
(* posts to that URL.  Which store a customer talks about is kept in       *)
(* memory for a while; the directory of stores is cached for a while.      *)
(***************************************************************************)
EXTENDS Naturals, Sequences, FiniteSets, FiniteSetsExt

CONSTANTS MaxMessages,  \* bound on messages the customers send
          MaxPending,   \* bound on messages without an answer yet
          Customer,     \* botUserKeys
          Nobody,       \* the sender of a message without user id
          Store,        \* store ids, numbers: list_stores orders by id
          Changing,     \* bound on the stores that open or close
          Input,        \* what a message may be
          NamePrefix,   \* <<s, t>>: the name of s begins the name of t
          Configured,   \* stores of AICC_STORE_DIRECTORY
          Default,      \* default_store_id
          SessionTTL,   \* session_ttl_seconds
          DirectoryTTL, \* STORE_DIRECTORY_TTL_SECONDS
          MaxClock,     \* bound on time
          MaxChanges,   \* bound on stores opened or closed
          MaxLost       \* bound on calls that fail and restarts of the service

NoChoice == 0
\* Messages are numbered in the order in which they are sent.
Message == 1..MaxMessages
NoMessage == 0   \* the event loop is idle
\* A message: its text is empty, asks for another store, begins with the name
\* of a store (named), or is a question; the link that opened the chat may
\* name a store, and the message may bring a callback URL.
Inputs == [customer: Customer \cup {Nobody}, text: {"", "change", "name", "question"},
           named: Store \cup {NoChoice}, link: Store \cup {NoChoice}, callback: BOOLEAN]
NoInput == [customer |-> Nobody, text |-> "", named |-> NoChoice, link |-> NoChoice,
            callback |-> FALSE]

\* What the constants are: no store has the number 0, and only a message that
\* begins with the name of a store names one.
ChannelConstants ==
  /\ Store \subseteq Nat \ {NoChoice}
  /\ Default \in Store /\ Changing \subseteq Store /\ Configured \subseteq Store
  /\ NamePrefix \subseteq Store \X Store
  /\ Nobody \notin Customer
  /\ Input \subseteq Inputs
  /\ \A in \in Input : in.text = "name" <=> in.named # NoChoice
  /\ MaxMessages \in Nat /\ MaxPending \in Nat
  /\ SessionTTL \in Nat /\ DirectoryTTL \in Nat
  /\ MaxClock \in Nat /\ MaxChanges \in Nat /\ MaxLost \in Nat

ASSUME ChannelAssumption == ChannelConstants

VARIABLES
  clock,    \* time.monotonic
  stores,   \* the API's stores
  since,    \* since[s]: when s was last opened or closed
  session,  \* session[c]: the entry of c in the SessionStore
  cache,    \* _store_directory_cache, and whether it came from the API
  started,  \* when the current request looked at the cache
  msg,      \* msg[m]: a message and how far it has got
  loop,     \* the message the event loop is busy with
  told,     \* told[c]: the store c was last told, or asked for, and when
  changes, losses

channelVars == <<clock, stores, since, session, cache, started, msg, loop, told,
          changes, losses>>
world == <<clock, stores, since, changes>>

NoSession == [store |-> NoChoice, expires |-> 0]
NotTold == [store |-> NoChoice, at |-> 0]
NoCache == [stores |-> {}, at |-> 0, filled |-> FALSE, listed |-> FALSE]
Unsent == [phase |-> "unsent", in |-> NoInput, store |-> NoChoice]

ChannelInit ==
  /\ clock = 0
  /\ stores = Store
  /\ since = [s \in Store |-> 0]
  /\ session = [c \in Customer |-> NoSession]
  /\ cache = NoCache
  /\ started = 0
  /\ msg = [m \in Message |-> Unsent]
  /\ loop = NoMessage
  /\ told = [c \in Customer |-> NotTold]
  /\ changes = 0 /\ losses = 0

InPhase(m, p) == msg[m].phase = p
Move(m, p) == msg' = [msg EXCEPT ![m].phase = p]

Settled(m) == msg[m].phase \in {"done", "undelivered", "lost"}

\* A customer writes to the channel; all but the callback URL is looked at
\* when the message is taken up.
Send(m, callback) ==
  /\ InPhase(m, "unsent")
  /\ \A n \in Message : n < m => ~InPhase(n, "unsent")
  /\ Cardinality({n \in Message : n < m /\ ~Settled(n)}) < MaxPending
  /\ msg' = [msg EXCEPT ![m] = [Unsent EXCEPT !.phase = "sent",
                                             !.in = [NoInput EXCEPT !.callback = callback]]]
  /\ UNCHANGED <<world, session, cache, started, loop, told, losses>>

-----------------------------------------------------------------------------
(* The directory of stores *)

\* Mutant of FreshDirectory: the directory is never read again.
FreshForEver == cache.filled

FreshDirectory == cache.filled /\ clock - cache.at <= DirectoryTTL

HasMultiple(dir) == Cardinality(dir) > 1

\* The first entry whose id or name the text is, or whose name begins it.
Resolve(dir, named) ==
  LET matching == {s \in dir : s = named \/ <<s, named>> \in NamePrefix}
  IN  IF matching = {} THEN NoChoice ELSE Min(matching)

\* The event loop takes up a message: its body is parsed, the cache looked at.
TakeUp(m, in) ==
  /\ loop = NoMessage
  /\ InPhase(m, "sent")
  /\ in.callback = msg[m].in.callback
  /\ loop' = m
  /\ started' = clock
  /\ msg' = [msg EXCEPT ![m].phase = IF FreshDirectory THEN "route" ELSE "directory", ![m].in = in]
  /\ UNCHANGED <<world, session, cache, told, losses>>

Filled(dir, listed) == [stores |-> dir, at |-> started, filled |-> TRUE, listed |-> listed]

\* The configured stores stand in for a list that is empty or cannot be read;
\* they are cached as well.
FetchDirectory(m) ==
  /\ InPhase(m, "directory")
  /\ \/ /\ stores # {}
        /\ cache' = Filled(stores, TRUE)
        /\ UNCHANGED losses
     \/ /\ stores = {}
        /\ cache' = Filled(Configured, FALSE)
        /\ UNCHANGED losses
     \/ /\ losses < MaxLost
        /\ losses' = losses + 1
        /\ cache' = Filled(Configured, FALSE)
  /\ Move(m, "route")
  /\ UNCHANGED <<world, session, started, loop, told>>

-----------------------------------------------------------------------------
(* SessionStore *)

Remember(c, s) ==
  IF c = Nobody THEN session
  ELSE [session EXCEPT ![c] = [store |-> s, expires |-> clock + SessionTTL]]
Forget(c) == IF c = Nobody THEN session ELSE [session EXCEPT ![c] = NoSession]
Recall(c) == IF c = Nobody \/ session[c].expires < clock THEN NoChoice ELSE session[c].store
\* get drops an entry that has expired.
Recalled(c) == IF Recall(c) = NoChoice THEN Forget(c) ELSE session

-----------------------------------------------------------------------------
(* Routing a message: m is the loop's, the directory is the cached one *)

Known(m) == IF msg[m].in.link # NoChoice THEN msg[m].in.link ELSE Recall(msg[m].in.customer)
Looked(m) == IF msg[m].in.link # NoChoice THEN Remember(msg[m].in.customer, msg[m].in.link)
             ELSE Recalled(msg[m].in.customer)
Multiple == HasMultiple(cache.stores)
AsksToChange(m) == msg[m].in.text = "change" /\ msg[m].in.link = NoChoice /\ Multiple
Undecided(m) == Known(m) = NoChoice /\ Multiple /\ ~AsksToChange(m)
Chosen(m) == Resolve(cache.stores, msg[m].in.named)
\* The store a message is about once it is decided.
Target(m) == IF Known(m) = NoChoice THEN Default ELSE Known(m)

\* What the customer knows afterwards: a link names a store, a picker none.
Tell(m, s) ==
  told' = IF msg[m].in.customer = Nobody THEN told
          ELSE [told EXCEPT ![msg[m].in.customer] = [store |-> s, at |-> clock]]
\* The store is not talked about, unless the message came with a link.
TellLink(m) == IF msg[m].in.link = NoChoice THEN UNCHANGED told ELSE Tell(m, msg[m].in.link)
\* The request ends with a response.
Respond(m) == /\ msg' = [msg EXCEPT ![m] = [Unsent EXCEPT !.phase = "done"]]
              /\ loop' = NoMessage
              /\ UNCHANGED <<world, cache, started, losses>>

\* Mutant of ChangeStore: the choice is not cleared.
ChangeUncleared(m) ==
  /\ InPhase(m, "route") /\ AsksToChange(m)
  /\ Tell(m, NoChoice)
  /\ Respond(m)
  /\ UNCHANGED session

\* The customer wants another store: the choice is forgotten, the stores shown.
ChangeStore(m) ==
  /\ InPhase(m, "route") /\ AsksToChange(m)
  /\ session' = Forget(msg[m].in.customer)
  /\ Tell(m, NoChoice)
  /\ Respond(m)

\* No store is chosen and the text names one of the directory.
SelectStore(m) ==
  /\ InPhase(m, "route") /\ Undecided(m)
  /\ msg[m].in.text = "name" /\ Chosen(m) # NoChoice
  /\ session' = Remember(msg[m].in.customer, Chosen(m))
  /\ Tell(m, Chosen(m))
  /\ Respond(m)

\* No store is chosen and the text names none: the stores are shown.
ShowStores(m) ==
  /\ InPhase(m, "route") /\ Undecided(m)
  /\ msg[m].in.text = "name" => Chosen(m) = NoChoice
  /\ session' = Looked(m)
  /\ Tell(m, NoChoice)
  /\ Respond(m)

Decided(m) == InPhase(m, "route") /\ ~AsksToChange(m) /\ ~Undecided(m)

\* An empty text opens the menu of what can be asked.
ShowMenu(m) ==
  /\ Decided(m)
  /\ msg[m].in.text = ""
  /\ session' = Looked(m)
  /\ TellLink(m)
  /\ Respond(m)

\* Mutant of Ask: the loop waits for an answer that a thread works on.
AskAndWait(m) ==
  /\ Decided(m)
  /\ msg[m].in.text # ""
  /\ session' = Looked(m)
  /\ msg' = [msg EXCEPT ![m].phase = "agent", ![m].store = Target(m)]
  /\ TellLink(m)
  /\ UNCHANGED <<world, cache, started, loop, losses>>

\* Anything else goes to the agent: in a thread, after an acknowledgement, if
\* there is a callback URL; else in the request.
Ask(m) ==
  /\ Decided(m)
  /\ msg[m].in.text # ""
  /\ session' = Looked(m)
  /\ msg' = [msg EXCEPT ![m].phase = "agent", ![m].store = Target(m)]
  /\ TellLink(m)
  /\ loop' = IF msg[m].in.callback THEN NoMessage ELSE m
  /\ UNCHANGED <<world, cache, started, losses>>

Route(m) == \/ ChangeStore(m)
            \/ SelectStore(m)
            \/ ShowStores(m)
            \/ ShowMenu(m)
            \/ Ask(m)

-----------------------------------------------------------------------------
(* StoreAgent.ask *)

\* There is an answer: Gemini's, or, if it cannot be reached or has no text,
\* the keyword router's or a fixed sentence.  It is the response to the
\* request, or waits to be posted.
Answer(m) ==
  /\ InPhase(m, "agent")
  /\ msg' = [msg EXCEPT ![m] =
               IF @.in.callback THEN [@ EXCEPT !.phase = "post"]
               ELSE [Unsent EXCEPT !.phase = "done"]]
  /\ loop' = IF msg[m].in.callback THEN loop ELSE NoMessage
  /\ UNCHANGED <<world, session, cache, started, told, losses>>

\* The thread posts the answer, once.
PostCallback(m) ==
  /\ InPhase(m, "post")
  /\ msg' = [msg EXCEPT ![m] = [Unsent EXCEPT !.phase = "done"]]
  /\ UNCHANGED <<world, session, cache, started, loop, told, losses>>

CallbackFails(m) ==
  /\ InPhase(m, "post")
  /\ losses < MaxLost
  /\ losses' = losses + 1
  /\ msg' = [msg EXCEPT ![m] = [Unsent EXCEPT !.phase = "undelivered"]]
  /\ UNCHANGED <<world, session, cache, started, loop, told>>

-----------------------------------------------------------------------------
(* The world around the service *)

Tick == /\ clock < MaxClock
        /\ clock' = clock + 1
        /\ UNCHANGED <<stores, since, session, cache, started, msg, loop, told,
                       changes, losses>>

\* The head office registers a store or removes one.
ChangeStores(s) ==
  /\ changes < MaxChanges
  /\ changes' = changes + 1
  /\ stores' = IF s \in stores THEN stores \ {s} ELSE stores \cup {s}
  /\ since' = [since EXCEPT ![s] = clock]
  /\ UNCHANGED <<clock, session, cache, started, msg, loop, told, losses>>

\* All state is in memory; requests and threads under way are gone.
Restart ==
  /\ losses < MaxLost
  /\ losses' = losses + 1
  /\ session' = [c \in Customer |-> NoSession]
  /\ cache' = NoCache
  /\ loop' = NoMessage
  /\ told' = [c \in Customer |-> NotTold]
  /\ msg' = [m \in Message |->
               IF msg[m].phase \in {"directory", "route", "agent", "post"}
               THEN [Unsent EXCEPT !.phase = "lost"]
               ELSE msg[m]]
  /\ UNCHANGED <<world, started>>

Handle(m) == (\E in \in Input : TakeUp(m, in)) \/ FetchDirectory(m) \/ Route(m)
Agent(m) == Answer(m) \/ PostCallback(m) \/ CallbackFails(m)

ChannelNext ==
  \/ \E m \in Message : Handle(m) \/ Agent(m) \/ \E b \in BOOLEAN : Send(m, b)
  \/ \E s \in Changing : ChangeStores(s)
  \/ Tick
  \/ Restart

ChannelSpec == ChannelInit /\ [][ChannelNext]_channelVars
\* The event loop takes what is waiting; calls have timeouts and an agent a
\* bounded number of them (MAX_TOOL_CALLS); threads run.
FairSpec == ChannelSpec /\ WF_channelVars(\E m \in Message : Handle(m))
                                /\ WF_channelVars(\E m \in Message : Agent(m))

-----------------------------------------------------------------------------
(* Properties *)

Phases == {"unsent", "sent", "directory", "route", "agent", "post", "done", "undelivered", "lost"}

\* The state is well typed, and the event loop is busy exactly while a message
\* is being routed or, without a callback URL, answered.
ChannelTypeOK ==
  /\ clock \in 0..MaxClock /\ stores \subseteq Store /\ since \in [Store -> 0..MaxClock]
  /\ session \in [Customer -> [store: Store \cup {NoChoice},
                               expires: 0..(MaxClock + SessionTTL)]]
  /\ cache \in [stores: SUBSET Store, at: 0..MaxClock, filled: BOOLEAN, listed: BOOLEAN]
  /\ told \in [Customer -> [store: Store \cup {NoChoice}, at: 0..MaxClock]]
  /\ started \in 0..MaxClock
  /\ msg \in [Message -> [phase: Phases, in: Inputs, store: Store \cup {NoChoice}]]
  /\ changes \in 0..MaxChanges /\ losses \in 0..MaxLost
  /\ \A m \in Message :
       loop = m <=> \/ msg[m].phase \in {"directory", "route"}
                    \/ InPhase(m, "agent") /\ ~msg[m].in.callback

\* The store the customer of m believes to talk about.
TalksAbout(m) ==
  LET c == msg[m].in.customer
  IN  IF msg[m].in.link # NoChoice THEN msg[m].in.link
      ELSE IF c = Nobody \/ clock > told[c].at + SessionTTL THEN NoChoice
      ELSE told[c].store

\* A question goes to the store its customer last chose, by link or by name,
\* if that is not too long ago and was not taken back; the default store is
\* taken only where the directory offers no choice.
QuestionsGoToTheStoreChosen ==
  [][\A m \in Message : ~InPhase(m, "agent") /\ InPhase(m, "agent")' =>
       \/ msg'[m].store = TalksAbout(m)
       \/ TalksAbout(m) = NoChoice /\ msg'[m].store = Default /\ ~Multiple]_channelVars

\* While the API can be read, the stores shown are those it had no more than
\* DirectoryTTL before the request: a new store appears, a closed one goes.
StoresShownAreRecent ==
  [][(\E m \in Message : InPhase(m, "route") /\ ~InPhase(m, "route")' /\ ~InPhase(m, "lost")') /\ cache.listed =>
       \A s \in Store : since[s] + DirectoryTTL < started =>
         (s \in cache.stores <=> s \in stores)]_channelVars

\* Whatever is answered is answered for the right store from a list of stores that
\* is recent, and the event loop is never left busy or free by mistake.
AnswersAreCurrent == []ChannelTypeOK /\ QuestionsGoToTheStoreChosen /\ StoresShownAreRecent

\* Every message gets its response or, by callback, its answer, unless the
\* service restarts or Kakao cannot be reached.
EveryMessageAnswered ==
  \A m \in Message : InPhase(m, "sent") ~> Settled(m)
=============================================================================
