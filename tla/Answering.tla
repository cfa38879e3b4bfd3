----------------------------- MODULE Answering -----------------------------
(***************************************************************************)
(* From a question to the answer a conversation keeps: routers/query.py and *)
(* conversations.py around services/query_service.py, the chain of chat     *)
(* providers (providers/fallback_provider.py) and the rewriting of numbered *)
(* citations while the answer streams (services/citations.py).  What is     *)
(* found for a question, and answers from the cache, are AnswerCache's.     *)
(*                                                                          *)
(* Text is a sequence of tokens: brackets, commas, numbers and words.  A    *)
(* request is used once, so its name also names the conversation it starts  *)
(* and the turn (a question and its answer) it adds.                        *)
(***************************************************************************)
EXTENDS Naturals, SequencesExt

CONSTANTS
    Req,         \* requests
    Owners,      \* people, and the secret API keys as one
    Visitor,     \* the caller behind a publishable key
    Configured,  \* CHAT_PROVIDER_CHAIN
    Available,   \* the providers that could be set up
    Numbers,     \* tokens that read as a number
    Cited,       \* the numbers of the passages in the prompt
    Words,       \* other tokens
    MaxPending,  \* _MAX_PENDING
    MaxDelta,    \* bound: tokens of a delta
    Work,        \* bound: requests, each counted three times, and tokens together
    None

LeftBracket == "["
RightBracket == "]"
Comma == ","

ASSUME AnsweringAssumption ==
    /\ IsFiniteSet(Req)
    /\ Configured \in Seq(STRING)
    /\ None \notin Req \cup Owners
    /\ Visitor \notin Owners
    /\ Cited \subseteq Numbers
    /\ {LeftBracket, RightBracket, Comma} \cap Numbers = {}
    /\ {MaxPending, MaxDelta, Work} \subseteq Nat

VARIABLES
    ask,        \* the requests
    conv,       \* conversations with their messages, by the request that started them
    last,       \* last_chat_provider of the one provider object of a process
    produced    \* tokens the providers have produced

vars == <<ask, conv, last, produced>>

Tokens == {LeftBracket, RightBracket, Comma} \cup Numbers \cup Words

Text == Seq(Tokens \cup (Cited \X {"source"}))

-----------------------------------------------------------------------------
(* Citations.                                                               *)

\* text[i..j] is a marker: numbers, separated by commas, in brackets.
Marker(text, i, j) ==
    /\ text[i] = LeftBracket /\ text[j] = RightBracket
    /\ i < j /\ (j - i) % 2 = 0
    /\ \A k \in i + 1 .. j - 1 : IF (k - i) % 2 = 1 THEN text[k] \in Numbers ELSE text[k] = Comma

\* A marker becomes one source tag for each number of a passage.
Tags(text, i, j) ==
    FlattenSeq([k \in 1..j - i - 1 |-> IF text[i + k] \in Cited THEN <<<<text[i + k], "source">>>> ELSE <<>>])

\* rewrite_citations
Rewrite(text) ==
    FlattenSeq([i \in 1..Len(text) |->
        LET ends == {j \in i..Len(text) : Marker(text, i, j)}
            within == \E a \in 1..i, b \in i..Len(text) : a # i /\ Marker(text, a, b)
        IN  IF ends # {} THEN Tags(text, i, CHOOSE j \in ends : TRUE)
            ELSE IF within THEN <<>> ELSE <<text[i]>>])

\* The last "[" of a text, 0 if there is none.
Opening(text) == SelectLastInSeq(text, LAMBDA x : x = LeftBracket)

Bug_HoldsLess(text) ==
    LET cut == Opening(text)
        rest == SubSeq(text, cut, Len(text))
    IN  IF cut > 0 /\ ~Contains(rest, RightBracket) /\ Len(rest) < MaxPending THEN rest ELSE <<>>

\* What the streaming rewriter holds back: a marker that may not be finished,
\* up to _MAX_PENDING.
HeldBack(text) ==
    LET cut == Opening(text)
        rest == SubSeq(text, cut, Len(text))
    IN  IF cut > 0 /\ ~Contains(rest, RightBracket) /\ Len(rest) <= MaxPending THEN rest ELSE <<>>

-----------------------------------------------------------------------------
(* The chain of chat providers.                                             *)

\* _build_chat_provider: a provider without its settings, or that cannot be
\* reached when the process starts, is left out.
Built(name) == name \in Available

\* get_ai_provider: each provider that was built once, in the configured
\* order, or the mock.
Chain ==
    LET names == FlattenSeq([i \in 1..Len(Configured) |->
                     IF Built(Configured[i]) /\ \A j \in 1..i - 1 : Configured[j] # Configured[i]
                     THEN <<Configured[i]>> ELSE <<>>])
    IN  IF names = <<>> THEN <<"mock">> ELSE names

Providers == ToSet(Chain)

Idle == [op |-> "idle"]

Done(c) == [op |-> "done", kept |-> c]

Turns == [op: {"turn"}, at: {"asked", "generating", "generated", "ready", "keeping"},
          owner: Owners \cup {Visitor}, conv: Req \cup {None}, stream: BOOLEAN, hist: SUBSET (Req \X Owners),
          provider: 1..Len(Chain), raw: Seq(Tokens), held: Seq(Tokens), out: Text, by: SUBSET Providers,
          reported: Providers \cup {None}, crossed: BOOLEAN, empty: BOOLEAN]

Edits == [op: {"rename", "delete"}, conv: Req]

Conversation == [owner: Owners, turns: SUBSET (Req \X Owners), title: {"none", "auto", "chosen"}]

Busy == 3 * Cardinality({r \in Req : ask[r] # Idle}) + produced

Starts(r) == ask[r] = Idle /\ Busy + 3 <= Work

Turn(r, at) == ask[r].op = "turn" /\ ask[r].at = at

Finish(r, c) == ask' = [ask EXCEPT ![r] = Done(c)]

-----------------------------------------------------------------------------
(* Before the answer.                                                       *)

Bug_AnyConversation(c, o) == c # None /\ conv[c] # None

\* get_owned_conversation
Owned(c, o) == c # None /\ conv[c] # None /\ conv[c].owner = o

\* query and query_stream, with no conversation or one that a request may
\* have started: _load_conversation_history reads nothing for a visitor.
Ask(r, o, c, s) ==
    /\ Starts(r)
    /\ c # None => ask[c] # Idle
    /\ ask' = [ask EXCEPT ![r] =
                 [op |-> "turn", at |-> "asked", owner |-> o, conv |-> c, stream |-> s,
                  hist |-> IF Owned(c, o) THEN conv[c].turns ELSE {}, provider |-> 1, raw |-> <<>>, held |-> <<>>,
                  out |-> <<>>, by |-> {}, reported |-> None, crossed |-> FALSE, empty |-> TRUE]]
    /\ UNCHANGED <<conv, last, produced>>

\* The answer is in the cache, or there is nothing to search.
Shortcut(r) ==
    /\ Turn(r, "asked")
    /\ ask' = [ask EXCEPT ![r].at = "ready"]
    /\ UNCHANGED <<conv, last, produced>>

\* Provider p answers r: every other answer not yet recorded is crossed.
RecordChat(p) == last' = p

CrossOthers(r) ==
    [q \in Req |-> IF q # r /\ ask[q].op = "turn" /\ ask[q].by # {} /\ ask[q].at \in {"generating", "generated"}
                   THEN [ask[q] EXCEPT !.crossed = TRUE] ELSE ask[q]]

\* build_search_query and retrieve: a follow-up, or with ENABLE_QUERY_REWRITE any
\* question, is condensed by whichever provider answers, or by none.
Prepare(r) ==
    /\ Turn(r, "asked")
    /\ \/ UNCHANGED last /\ ask' = [ask EXCEPT ![r].at = "generating"]
       \/ /\ \E p \in Providers : RecordChat(p)
          /\ ask' = [CrossOthers(r) EXCEPT ![r].at = "generating"]
    /\ UNCHANGED <<conv, produced>>

-----------------------------------------------------------------------------
(* The answer.                                                              *)

TheProvider(r) == Chain[ask[r].provider]

\* chat_completion: the whole text at once.
Complete(r, t) ==
    /\ Turn(r, "generating")
    /\ ~ask[r].stream
    /\ Busy < Work
    /\ RecordChat(TheProvider(r))
    /\ ask' = [CrossOthers(r) EXCEPT ![r].at = "generated", ![r].raw = <<t>>, ![r].out = Rewrite(<<t>>),
                                     ![r].by = {TheProvider(r)}]
    /\ produced' = produced + 1
    /\ UNCHANGED conv

\* chat_completion_stream yields a delta: the first one records the provider;
\* StreamingCitationRewriter.feed.
Delta(r, d) ==
    LET text == ask[r].held \o d
        held == HeldBack(text)
    IN  /\ Turn(r, "generating")
        /\ ask[r].stream
        /\ Busy + Len(d) <= Work
        /\ last' = IF ask[r].raw = <<>> THEN TheProvider(r) ELSE last
        /\ ask' = [(IF ask[r].raw = <<>> THEN CrossOthers(r) ELSE ask) EXCEPT
                      ![r].raw = @ \o d, ![r].held = held,
                      ![r].out = @ \o Rewrite(SubSeq(text, 1, Len(text) - Len(held))),
                      ![r].by = @ \cup {TheProvider(r)}]
        /\ produced' = produced + Len(d)
        /\ UNCHANGED conv

Bug_RunsOffTheChain(r) == ask' = [ask EXCEPT ![r].provider = @ + 1]

\* The next provider of the chain, or none is left and the request fails.
NextProvider(r) ==
    IF ask[r].provider = Len(Chain) THEN Finish(r, None)
    ELSE ask' = [ask EXCEPT ![r].provider = @ + 1]

Bug_FallsBackLate(r) ==
    /\ Turn(r, "generating")
    /\ NextProvider(r)
    /\ UNCHANGED <<conv, last, produced>>

\* A provider fails or takes too long: the next one answers, unless a part of
\* the answer has reached the client.
ProviderFails(r) ==
    /\ Turn(r, "generating")
    /\ IF ask[r].raw = <<>> THEN NextProvider(r) ELSE Finish(r, None)
    /\ UNCHANGED <<conv, last, produced>>

\* The stream ends: flush, or the next provider after an empty stream.
StreamEnds(r) ==
    /\ Turn(r, "generating")
    /\ ask[r].stream
    /\ IF ask[r].raw = <<>> THEN NextProvider(r)
       ELSE ask' = [ask EXCEPT ![r].at = "generated", ![r].out = @ \o Rewrite(ask[r].held), ![r].held = <<>>]
    /\ UNCHANGED <<conv, last, produced>>

\* _record: the provider of the answer is read from the shared object.
Record(r) ==
    /\ Turn(r, "generated")
    /\ ask' = [ask EXCEPT ![r].at = "ready", ![r].reported = last]
    /\ UNCHANGED <<conv, last, produced>>

-----------------------------------------------------------------------------
(* What the conversation keeps.                                             *)

\* A visitor's question is answered and forgotten.
AnswerVisitor(r) ==
    /\ Turn(r, "ready")
    /\ ask[r].owner = Visitor
    /\ Finish(r, None)
    /\ UNCHANGED <<conv, last, produced>>

\* persist_conversation_messages, its reads: somebody else's conversation is
\* treated like an unknown one, and a new one started.
PersistRead(r) ==
    LET c == ask[r].conv
    IN  /\ Turn(r, "ready")
        /\ ask[r].owner # Visitor
        /\ ask' = [ask EXCEPT ![r].at = "keeping",
                              ![r].conv = IF Owned(c, ask[r].owner) THEN c ELSE r,
                              ![r].empty = ~Owned(c, ask[r].owner) \/ conv[c].turns = {}]
        /\ UNCHANGED <<conv, last, produced>>

TheTurn(r) == <<r, ask[r].owner>>

\* ... and its commit: both messages and the conversation's row.  A row that
\* was deleted since fails the UPDATE.
PersistCommit(r) ==
    LET c == ask[r].conv
    IN  /\ Turn(r, "keeping")
        /\ \/ /\ c = r
              /\ conv' = [conv EXCEPT ![r] = [owner |-> ask[r].owner, turns |-> {TheTurn(r)}, title |-> "auto"]]
              /\ Finish(r, c)
           \/ /\ c # r
              /\ conv[c] # None
              /\ conv' = [conv EXCEPT ![c].turns = @ \cup {TheTurn(r)},
                                      ![c].title = IF ask[r].empty THEN "auto" ELSE @]
              /\ Finish(r, c)
           \/ /\ c # r
              /\ conv[c] = None
              /\ Finish(r, None)
              /\ UNCHANGED conv
        /\ UNCHANGED <<last, produced>>

\* The client goes away, or the process ends: what is committed stays.
Leave(r) ==
    /\ ask[r].op \notin {"idle", "done"}
    /\ Finish(r, None)
    /\ UNCHANGED <<conv, last, produced>>

-----------------------------------------------------------------------------
(* The conversations' own endpoints, and the nightly purge.                 *)

CreateConversation(r, o) ==
    /\ Starts(r)
    /\ conv' = [conv EXCEPT ![r] = [owner |-> o, turns |-> {}, title |-> "none"]]
    /\ Finish(r, None)
    /\ UNCHANGED <<last, produced>>

\* update_conversation and delete_conversation read the row ...
Edit(r, op, c, o) ==
    /\ Starts(r)
    /\ Owned(c, o)
    /\ ask' = [ask EXCEPT ![r] = [op |-> op, conv |-> c]]
    /\ UNCHANGED <<conv, last, produced>>

\* ... and write it.
UpdateConversation(r) ==
    /\ ask[r].op = "rename"
    /\ conv' = IF conv[ask[r].conv] = None THEN conv
               ELSE [conv EXCEPT ![ask[r].conv].title = "chosen"]
    /\ Finish(r, None)
    /\ UNCHANGED <<last, produced>>

DeleteConversation(r) ==
    /\ ask[r].op = "delete"
    /\ conv' = [conv EXCEPT ![ask[r].conv] = None]
    /\ Finish(r, None)
    /\ UNCHANGED <<last, produced>>

\* purge_expired_data deletes the conversations of which nothing was updated
\* in the retention period; the clock is not modelled, so it may be any.
Purge(S) ==
    /\ S # {} /\ \A c \in S : conv[c] # None
    /\ conv' = [c \in Req |-> IF c \in S THEN None ELSE conv[c]]
    /\ UNCHANGED <<ask, last, produced>>

-----------------------------------------------------------------------------

Init ==
    /\ ask = [r \in Req |-> Idle]
    /\ conv = [r \in Req |-> None]
    /\ last = None
    /\ produced = 0

Deltas == UNION {[1..n -> Tokens] : n \in 1..MaxDelta}

Answer(r) ==
    \/ Shortcut(r)
    \/ Prepare(r)
    \/ \E t \in Tokens : Complete(r, t)
    \/ \E d \in Deltas : Delta(r, d)
    \/ ProviderFails(r)
    \/ StreamEnds(r)
    \/ Record(r)
    \/ AnswerVisitor(r)
    \/ PersistRead(r)
    \/ PersistCommit(r)
    \/ Leave(r)

Next ==
    \/ \E r \in Req, c \in Req \cup {None}, o \in Owners \cup {Visitor}, s \in BOOLEAN : Ask(r, o, c, s)
    \/ \E r \in Req : Answer(r)
    \/ \E r \in Req, o \in Owners : \/ CreateConversation(r, o)
                                    \/ \E op \in {"rename", "delete"}, c \in Req : Edit(r, op, c, o)
    \/ \E r \in Req : UpdateConversation(r) \/ DeleteConversation(r)
    \/ \E S \in SUBSET Req : Purge(S)

Spec == Init /\ [][Next]_vars

-----------------------------------------------------------------------------

TypeOK ==
    /\ ask \in [Req -> Turns \cup Edits \cup {Idle} \cup {Done(c) : c \in Req \cup {None}}]
    /\ conv \in [Req -> Conversation \cup {None}]
    /\ last \in Providers \cup {None}
    /\ produced \in 0..Work

\* However the providers cut the text into deltas, the streamed answer is the
\* whole text rewritten at once, if no marker is longer than what the rewriter
\* holds back: what a reader saw arrive is what a cached or repeated answer
\* shows.
StreamedAsWhole ==
    \A r \in Req :
        LET raw == ask[r].raw
        IN  (/\ Turn(r, "generated")
             /\ \A i, j \in 1..Len(raw) : Marker(raw, i, j) => j - i <= MaxPending)
            => ask[r].out = Rewrite(raw)

\* An answer is the text of one provider, although others of the chain may
\* have failed before it, and that provider is reported with it, unless
\* another request was answered between its first delta and its record.
AnswerOfOneProvider ==
    \A r \in Req : ask[r].op = "turn" =>
        /\ Cardinality(ask[r].by) <= 1
        /\ (Turn(r, "ready") /\ ask[r].by # {} /\ ~ask[r].crossed) => ask[r].by = {ask[r].reported}

\* A turn whose answer was returned with a conversation is in it until the
\* conversation is deleted, and conversations are private: neither they nor
\* the prompts made from them hold a turn of another caller.
TurnsKeptPrivate ==
    /\ \A r \in Req : (ask[r].op = "done" /\ ask[r].kept # None /\ conv[ask[r].kept] # None)
                          => \E x \in conv[ask[r].kept].turns : x[1] = r
    /\ \A c \in Req : conv[c] # None => \A x \in conv[c].turns : x[2] = conv[c].owner
    /\ \A r \in Req : ask[r].op = "turn" => \A x \in ask[r].hist : x[2] = ask[r].owner
=============================================================================
