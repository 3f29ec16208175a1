----------------------------- MODULE MailProofs -----------------------------
(***************************************************************************)
(* Proofs about the mail system, for any players, letters, sessions,       *)
(* connections, clients and casts.  The inductive invariant says of each   *)
(* caller where it is in its script, for whom it still has to write its    *)
(* letter or its post, and which item the statements before have made.     *)
(***************************************************************************)
EXTENDS MailSystem, FiniteSetTheorems, TLAPS

(* Where a call may be in its script. *)
LetterRests == {<<"message", "source", "draw", "item", "notify", "memory">>,
                <<"source", "draw", "item", "notify", "memory">>,
                <<"draw", "item", "notify", "memory">>,
                <<"item", "notify", "memory">>, <<"notify", "memory">>, <<"memory">>}
AskRests == {<<"message", "source", "draw", "item", "notify", "memory", "number">>,
             <<"source", "draw", "item", "notify", "memory", "number">>,
             <<"draw", "item", "notify", "memory", "number">>,
             <<"item", "notify", "memory", "number">>, <<"notify", "memory", "number">>,
             <<"memory", "number">>, <<"number">>}
DeliveryRests == {<<"deliveries">>, <<"draw", "item", "notify", "link">>,
                  <<"item", "notify", "link">>, <<"notify", "link">>, <<"link">>}

Rest(op, r) ==
    \/ op \in {"mail", "reply"} /\ r \in LetterRests
    \/ op = "ask" /\ r \in AskRests
    \/ op = "create" /\ r \in {<<"absent", "create">>, <<"create">>}
    \/ op = "subscribe" /\ r \in {<<"open", "outside", "subscribe">>,
                                  <<"outside", "subscribe">>, <<"subscribe">>}
    \/ op = "unsubscribe" /\ r \in {<<"found", "unsubscribe">>, <<"unsubscribe">>}
    \/ op = "close" /\ r \in {<<"owned", "close">>, <<"close">>}
    \/ op = "post" /\ r \in {<<"found", "allowed", "recipients", "post">>,
                             <<"allowed", "recipients", "post">>,
                             <<"recipients", "post">>, <<"post">>}
    \/ op \in {"post", "redeliver"} /\ r \in DeliveryRests

Arrived(l, p) == p # None /\ \E i \in Ids : inbox[i].letter = l /\ inbox[i].to = p

Answers(a) == \A n \in 1..Len(a[2]) : Arrived(a[1], a[2][n])

(* What a caller knows of its letter: for whom it still has to write it.   *)
LetterKnows(s, a) ==
    LET k == call[s]
        r == read[s]
    IN  /\ r.post = 0 /\ r.due # <<>>
        /\ k.op = "ask" => Len(r.due) = 1
        /\ \A i \in 1..Len(r.due) : \E n \in 1..Len(k.to) : r.due[i] = k.to[n]
        /\ \A n \in 1..Len(k.to) : \/ Arrived(k.letter, k.to[n])
                                   \/ \E i \in 1..Len(r.due) : r.due[i] = k.to[n]
        /\ a # "message" => k.letter \in written
        /\ a \in {"notify", "memory", "number"} =>
               /\ r.id \in Ids
               /\ inbox[r.id].letter = k.letter /\ inbox[r.id].to = r.due[1]

(* What it knows of a post: who still has to get it. *)
PostKnows(s, a) ==
    LET r == read[s]
    IN  /\ a = "post" => r.ids # {} /\ \A p \in r.ids : membership[p] # "none"
        /\ a = "deliveries" => r.post <= Len(deliveries)
        /\ a \in {"draw", "item", "notify", "link"} =>
               /\ r.post \in 1..Len(deliveries) /\ r.due # <<>>
               /\ \A i \in 1..Len(r.due) : r.due[i] \in DOMAIN deliveries[r.post]
               /\ \A p \in DOMAIN deliveries[r.post] :
                      \/ deliveries[r.post][p] # 0
                      \/ \E i \in 1..Len(r.due) : r.due[i] = p
        /\ a \in {"notify", "link"} =>
               /\ r.id \in Ids /\ inbox[r.id].kind = "post"
               /\ inbox[r.id].source = <<r.post>> /\ inbox[r.id].to = r.due[1]

SessionInv(s) ==
    todo[s] # <<>> =>
        /\ call[s] \in MailCall
        /\ Rest(call[s].op, todo[s])
        /\ call[s].op \in LetterOps => LetterKnows(s, todo[s][1])
        /\ call[s].op \in {"post", "redeliver"} => PostKnows(s, todo[s][1])

Read == [id : Nat, kind : {"mail", "room_reply"}, due : Seq(Players), post : Nat,
         ids : SUBSET Players]

CallersTyped == /\ todo = [s \in Sessions |-> todo[s]]
                /\ call \in [Sessions -> MailCall]
                /\ read \in [Sessions -> Read]

(* The tables: an item of nobody is an id that was drawn, a post has no    *)
(* letter, a delivery row is linked to nothing or to the recipient's item  *)
(* of its post.                                                            *)
Links == UNION {[D -> Nat] : D \in SUBSET Players}

ItemsInv == /\ ItemsTypeOK
            /\ written \subseteq Letters /\ remembered \subseteq Letters
            /\ \A i \in Ids : /\ inbox[i].kind = "post" => inbox[i].letter = None
                              /\ inbox[i].to = None => inbox[i] = Drawn
            /\ \A a \in answered : Answers(a)
            /\ AnsweredLettersArrived
            /\ RequestsNumberThemselves

LinksInv == /\ deliveries \in Seq(Links)
            /\ \A n \in 1..Len(deliveries) :
                  /\ DOMAIN deliveries[n] # {}
                  /\ \A p \in DOMAIN deliveries[n] : deliveries[n][p] # 0 =>
                        /\ deliveries[n][p] \in Ids
                        /\ inbox[deliveries[n][p]].kind = "post"
            /\ list \in {"none", "open", "closed"}
            /\ membership \in [Players -> {"none", "active", "unsubscribed"}]
            /\ sent \subseteq 1..Len(deliveries)
            /\ PostsArriveOnce
            /\ SentPostsReachSubscribers

(* Between the two steps of an insert its id is nobody else's. *)
Holds(s) == read[s].id \in Ids /\ inbox[read[s].id].to = None

DrawsInv == /\ \A s \in Sessions : At(s, "item") => Holds(s)
            /\ \A s, t \in Sessions : At(s, "item") /\ At(t, "item")
                                         /\ read[s].id = read[t].id => s = t

CallsInv == CallersTyped /\ ItemsInv /\ LinksInv /\ \A s \in Sessions : SessionInv(s)

SmtpInv == smtp \in [Sessions -> [user : Players \cup {None}, sender : BOOLEAN,
                                  recipients : Seq(Players)]]

LiveInv == /\ LiveNoticesTypeOK
           /\ NothingLeftOfTheGone
           /\ listener \in {"rooms", "tell"} => hearing \in Ids

Owned(p) == {i \in Ids : inbox[i].to = p}

(* What a client that has been told of messages, or has fetched one, has   *)
(* selected, while the player's items fit the window: items of the player, *)
(* each at its place among them.  What it was shown when it fetched is     *)
(* still there, and its answer was in it.                                  *)
Chosen(mine, items, exists, answer, was) ==
    (exists > 0 \/ answer # Nothing) /\ Cardinality(mine) <= Window =>
        /\ \A n \in 1..Len(items) : items[n] \in mine /\ Place(items[n], Range(items)) = n
        /\ answer # Nothing =>
              /\ \A n \in 1..Len(was) : Place(was[n], Range(was)) = n
              /\ Range(was) \subseteq Range(items)
              /\ answer[1] \in 1..Len(was) /\ answer[2] = was[answer[1]]

Selected(c) ==
    /\ Chosen(Owned(login[c]), selected[c], told[c], fetched[c], shown[c])
    /\ login[c] = None => told[c] = 0 /\ fetched[c] = Nothing

ImapInv == /\ SidecarTypeOK
           /\ selected \in [Clients -> Seq(Nat)] /\ shown \in [Clients -> Seq(Nat)]
           /\ known \in [Clients -> Nat] /\ told \in [Clients -> Nat]
           /\ fetched = [c \in Clients |-> fetched[c]]
           /\ \A c \in Clients : Selected(c)

IInv == CallsInv /\ DrawsInv /\ SmtpInv /\ LiveInv /\ ImapInv /\ cast \in Casts

-----------------------------------------------------------------------------
(* Scripts *)

(* What comes after a statement, in each operation. *)
Leads(op, a, r) ==
    /\ op \in LetterOps \cup ListOps
    /\ a \in {"message", "source", "memory", "number"} => op \in LetterOps
    /\ a = "number" => op = "ask"
    /\ a \in {"draw", "item", "notify"} => op \in LetterOps \cup {"post", "redeliver"}
    /\ a \in {"deliveries", "link"} => op \in {"post", "redeliver"}
    /\ a \in {"recipients", "post"} => op = "post"
    /\ a \in Checks \cup {"create", "subscribe", "unsubscribe", "close"} => op \in ListOps
    /\ a = "message" => Len(r) # 1 /\ Tail(r)[1] = "source"
    /\ a = "source" => Len(r) # 1 /\ Tail(r)[1] = "draw"
    /\ a = "draw" => Len(r) # 1 /\ Tail(r)[1] = "item"
    /\ a # "draw" /\ Len(r) # 1 => Tail(r)[1] # "item"
    /\ a = "item" => Len(r) # 1 /\ Tail(r)[1] = "notify"
    /\ a = "notify" => Len(r) # 1 /\ Tail(r)[1] = (IF op \in LetterOps THEN "memory" ELSE "link")
    /\ a = "memory" => IF op = "ask" THEN Len(r) # 1 /\ Tail(r)[1] = "number" ELSE Len(r) = 1
    /\ a = "recipients" => Len(r) # 1 /\ Tail(r)[1] = "post"
    /\ a \in Checks => Len(r) # 1 /\ Tail(r)[1] \in (Checks \cup {"create", "subscribe",
                                            "unsubscribe", "close", "recipients"})
    /\ a \in {"number", "link", "deliveries", "create", "subscribe", "unsubscribe", "close",
              "post"} => Len(r) = 1

LEMMA Scripts ==
    ASSUME NEW op, NEW r, Rest(op, r)
    PROVE  /\ r # <<>> /\ Head(r) = r[1]
           /\ Len(r) # 1 => Tail(r) # <<>> /\ Rest(op, Tail(r))
           /\ Leads(op, r[1], r)
<1>1. CASE op \in {"mail", "reply"}
  <2>1. CASE r = <<"message", "source", "draw", "item", "notify", "memory">>
    <3>1. r # <<>> /\ Head(r) = r[1] /\ r[1] = "message" /\ Len(r) = 6
      BY <2>1
    <3>2. Tail(r) = <<"source", "draw", "item", "notify", "memory">> /\ Tail(r) # <<>> /\ Tail(r)[1] = "source"
      BY <2>1
    <3>3. Rest(op, Tail(r))
      BY <1>1, <3>2 DEF Rest, LetterRests
    <3> QED
      BY <1>1, <3>1, <3>2, <3>3 DEF Leads, Checks, LetterOps, ListOps
  <2>2. CASE r = <<"source", "draw", "item", "notify", "memory">>
    <3>1. r # <<>> /\ Head(r) = r[1] /\ r[1] = "source" /\ Len(r) = 5
      BY <2>2
    <3>2. Tail(r) = <<"draw", "item", "notify", "memory">> /\ Tail(r) # <<>> /\ Tail(r)[1] = "draw"
      BY <2>2
    <3>3. Rest(op, Tail(r))
      BY <1>1, <3>2 DEF Rest, LetterRests
    <3> QED
      BY <1>1, <3>1, <3>2, <3>3 DEF Leads, Checks, LetterOps, ListOps
  <2>3. CASE r = <<"draw", "item", "notify", "memory">>
    <3>1. r # <<>> /\ Head(r) = r[1] /\ r[1] = "draw" /\ Len(r) = 4
      BY <2>3
    <3>2. Tail(r) = <<"item", "notify", "memory">> /\ Tail(r) # <<>> /\ Tail(r)[1] = "item"
      BY <2>3
    <3>3. Rest(op, Tail(r))
      BY <1>1, <3>2 DEF Rest, LetterRests
    <3> QED
      BY <1>1, <3>1, <3>2, <3>3 DEF Leads, Checks, LetterOps, ListOps
  <2>4. CASE r = <<"item", "notify", "memory">>
    <3>1. r # <<>> /\ Head(r) = r[1] /\ r[1] = "item" /\ Len(r) = 3
      BY <2>4
    <3>2. Tail(r) = <<"notify", "memory">> /\ Tail(r) # <<>> /\ Tail(r)[1] = "notify"
      BY <2>4
    <3>3. Rest(op, Tail(r))
      BY <1>1, <3>2 DEF Rest, LetterRests
    <3> QED
      BY <1>1, <3>1, <3>2, <3>3 DEF Leads, Checks, LetterOps, ListOps
  <2>5. CASE r = <<"notify", "memory">>
    <3>1. r # <<>> /\ Head(r) = r[1] /\ r[1] = "notify" /\ Len(r) = 2
      BY <2>5
    <3>2. Tail(r) = <<"memory">> /\ Tail(r) # <<>> /\ Tail(r)[1] = "memory"
      BY <2>5
    <3>3. Rest(op, Tail(r))
      BY <1>1, <3>2 DEF Rest, LetterRests
    <3> QED
      BY <1>1, <3>1, <3>2, <3>3 DEF Leads, Checks, LetterOps, ListOps
  <2>6. CASE r = <<"memory">>
    <3>1. r # <<>> /\ Head(r) = r[1] /\ r[1] = "memory" /\ Len(r) = 1
      BY <2>6
    <3> QED
      BY <1>1, <3>1 DEF Leads, Checks, LetterOps, ListOps
  <2> QED
    BY <1>1, <2>1, <2>2, <2>3, <2>4, <2>5, <2>6 DEF Rest, LetterRests
<1>2. CASE op = "ask"
  <2>1. CASE r = <<"message", "source", "draw", "item", "notify", "memory", "number">>
    <3>1. r # <<>> /\ Head(r) = r[1] /\ r[1] = "message" /\ Len(r) = 7
      BY <2>1
    <3>2. Tail(r) = <<"source", "draw", "item", "notify", "memory", "number">> /\ Tail(r) # <<>> /\ Tail(r)[1] = "source"
      BY <2>1
    <3>3. Rest(op, Tail(r))
      BY <1>2, <3>2 DEF Rest, AskRests
    <3> QED
      BY <1>2, <3>1, <3>2, <3>3 DEF Leads, Checks, LetterOps, ListOps
  <2>2. CASE r = <<"source", "draw", "item", "notify", "memory", "number">>
    <3>1. r # <<>> /\ Head(r) = r[1] /\ r[1] = "source" /\ Len(r) = 6
      BY <2>2
    <3>2. Tail(r) = <<"draw", "item", "notify", "memory", "number">> /\ Tail(r) # <<>> /\ Tail(r)[1] = "draw"
      BY <2>2
    <3>3. Rest(op, Tail(r))
      BY <1>2, <3>2 DEF Rest, AskRests
    <3> QED
      BY <1>2, <3>1, <3>2, <3>3 DEF Leads, Checks, LetterOps, ListOps
  <2>3. CASE r = <<"draw", "item", "notify", "memory", "number">>
    <3>1. r # <<>> /\ Head(r) = r[1] /\ r[1] = "draw" /\ Len(r) = 5
      BY <2>3
    <3>2. Tail(r) = <<"item", "notify", "memory", "number">> /\ Tail(r) # <<>> /\ Tail(r)[1] = "item"
      BY <2>3
    <3>3. Rest(op, Tail(r))
      BY <1>2, <3>2 DEF Rest, AskRests
    <3> QED
      BY <1>2, <3>1, <3>2, <3>3 DEF Leads, Checks, LetterOps, ListOps
  <2>4. CASE r = <<"item", "notify", "memory", "number">>
    <3>1. r # <<>> /\ Head(r) = r[1] /\ r[1] = "item" /\ Len(r) = 4
      BY <2>4
    <3>2. Tail(r) = <<"notify", "memory", "number">> /\ Tail(r) # <<>> /\ Tail(r)[1] = "notify"
      BY <2>4
    <3>3. Rest(op, Tail(r))
      BY <1>2, <3>2 DEF Rest, AskRests
    <3> QED
      BY <1>2, <3>1, <3>2, <3>3 DEF Leads, Checks, LetterOps, ListOps
  <2>5. CASE r = <<"notify", "memory", "number">>
    <3>1. r # <<>> /\ Head(r) = r[1] /\ r[1] = "notify" /\ Len(r) = 3
      BY <2>5
    <3>2. Tail(r) = <<"memory", "number">> /\ Tail(r) # <<>> /\ Tail(r)[1] = "memory"
      BY <2>5
    <3>3. Rest(op, Tail(r))
      BY <1>2, <3>2 DEF Rest, AskRests
    <3> QED
      BY <1>2, <3>1, <3>2, <3>3 DEF Leads, Checks, LetterOps, ListOps
  <2>6. CASE r = <<"memory", "number">>
    <3>1. r # <<>> /\ Head(r) = r[1] /\ r[1] = "memory" /\ Len(r) = 2
      BY <2>6
    <3>2. Tail(r) = <<"number">> /\ Tail(r) # <<>> /\ Tail(r)[1] = "number"
      BY <2>6
    <3>3. Rest(op, Tail(r))
      BY <1>2, <3>2 DEF Rest, AskRests
    <3> QED
      BY <1>2, <3>1, <3>2, <3>3 DEF Leads, Checks, LetterOps, ListOps
  <2>7. CASE r = <<"number">>
    <3>1. r # <<>> /\ Head(r) = r[1] /\ r[1] = "number" /\ Len(r) = 1
      BY <2>7
    <3> QED
      BY <1>2, <3>1 DEF Leads, Checks, LetterOps, ListOps
  <2> QED
    BY <1>2, <2>1, <2>2, <2>3, <2>4, <2>5, <2>6, <2>7 DEF Rest, AskRests
<1>3. CASE op = "create"
  <2>1. CASE r = <<"absent", "create">>
    <3>1. r # <<>> /\ Head(r) = r[1] /\ r[1] = "absent" /\ Len(r) = 2
      BY <2>1
    <3>2. Tail(r) = <<"create">> /\ Tail(r) # <<>> /\ Tail(r)[1] = "create"
      BY <2>1
    <3>3. Rest(op, Tail(r))
      BY <1>3, <3>2 DEF Rest
    <3> QED
      BY <1>3, <3>1, <3>2, <3>3 DEF Leads, Checks, LetterOps, ListOps
  <2>2. CASE r = <<"create">>
    <3>1. r # <<>> /\ Head(r) = r[1] /\ r[1] = "create" /\ Len(r) = 1
      BY <2>2
    <3> QED
      BY <1>3, <3>1 DEF Leads, Checks, LetterOps, ListOps
  <2> QED
    BY <1>3, <2>1, <2>2 DEF Rest
<1>4. CASE op = "subscribe"
  <2>1. CASE r = <<"open", "outside", "subscribe">>
    <3>1. r # <<>> /\ Head(r) = r[1] /\ r[1] = "open" /\ Len(r) = 3
      BY <2>1
    <3>2. Tail(r) = <<"outside", "subscribe">> /\ Tail(r) # <<>> /\ Tail(r)[1] = "outside"
      BY <2>1
    <3>3. Rest(op, Tail(r))
      BY <1>4, <3>2 DEF Rest
    <3> QED
      BY <1>4, <3>1, <3>2, <3>3 DEF Leads, Checks, LetterOps, ListOps
  <2>2. CASE r = <<"outside", "subscribe">>
    <3>1. r # <<>> /\ Head(r) = r[1] /\ r[1] = "outside" /\ Len(r) = 2
      BY <2>2
    <3>2. Tail(r) = <<"subscribe">> /\ Tail(r) # <<>> /\ Tail(r)[1] = "subscribe"
      BY <2>2
    <3>3. Rest(op, Tail(r))
      BY <1>4, <3>2 DEF Rest
    <3> QED
      BY <1>4, <3>1, <3>2, <3>3 DEF Leads, Checks, LetterOps, ListOps
  <2>3. CASE r = <<"subscribe">>
    <3>1. r # <<>> /\ Head(r) = r[1] /\ r[1] = "subscribe" /\ Len(r) = 1
      BY <2>3
    <3> QED
      BY <1>4, <3>1 DEF Leads, Checks, LetterOps, ListOps
  <2> QED
    BY <1>4, <2>1, <2>2, <2>3 DEF Rest
<1>5. CASE op = "unsubscribe"
  <2>1. CASE r = <<"found", "unsubscribe">>
    <3>1. r # <<>> /\ Head(r) = r[1] /\ r[1] = "found" /\ Len(r) = 2
      BY <2>1
    <3>2. Tail(r) = <<"unsubscribe">> /\ Tail(r) # <<>> /\ Tail(r)[1] = "unsubscribe"
      BY <2>1
    <3>3. Rest(op, Tail(r))
      BY <1>5, <3>2 DEF Rest
    <3> QED
      BY <1>5, <3>1, <3>2, <3>3 DEF Leads, Checks, LetterOps, ListOps
  <2>2. CASE r = <<"unsubscribe">>
    <3>1. r # <<>> /\ Head(r) = r[1] /\ r[1] = "unsubscribe" /\ Len(r) = 1
      BY <2>2
    <3> QED
      BY <1>5, <3>1 DEF Leads, Checks, LetterOps, ListOps
  <2> QED
    BY <1>5, <2>1, <2>2 DEF Rest
<1>6. CASE op = "close"
  <2>1. CASE r = <<"owned", "close">>
    <3>1. r # <<>> /\ Head(r) = r[1] /\ r[1] = "owned" /\ Len(r) = 2
      BY <2>1
    <3>2. Tail(r) = <<"close">> /\ Tail(r) # <<>> /\ Tail(r)[1] = "close"
      BY <2>1
    <3>3. Rest(op, Tail(r))
      BY <1>6, <3>2 DEF Rest
    <3> QED
      BY <1>6, <3>1, <3>2, <3>3 DEF Leads, Checks, LetterOps, ListOps
  <2>2. CASE r = <<"close">>
    <3>1. r # <<>> /\ Head(r) = r[1] /\ r[1] = "close" /\ Len(r) = 1
      BY <2>2
    <3> QED
      BY <1>6, <3>1 DEF Leads, Checks, LetterOps, ListOps
  <2> QED
    BY <1>6, <2>1, <2>2 DEF Rest
<1>7. CASE op = "post"
  <2>1. CASE r = <<"found", "allowed", "recipients", "post">>
    <3>1. r # <<>> /\ Head(r) = r[1] /\ r[1] = "found" /\ Len(r) = 4
      BY <2>1
    <3>2. Tail(r) = <<"allowed", "recipients", "post">> /\ Tail(r) # <<>> /\ Tail(r)[1] = "allowed"
      BY <2>1
    <3>3. Rest(op, Tail(r))
      BY <1>7, <3>2 DEF Rest, DeliveryRests
    <3> QED
      BY <1>7, <3>1, <3>2, <3>3 DEF Leads, Checks, LetterOps, ListOps
  <2>2. CASE r = <<"allowed", "recipients", "post">>
    <3>1. r # <<>> /\ Head(r) = r[1] /\ r[1] = "allowed" /\ Len(r) = 3
      BY <2>2
    <3>2. Tail(r) = <<"recipients", "post">> /\ Tail(r) # <<>> /\ Tail(r)[1] = "recipients"
      BY <2>2
    <3>3. Rest(op, Tail(r))
      BY <1>7, <3>2 DEF Rest, DeliveryRests
    <3> QED
      BY <1>7, <3>1, <3>2, <3>3 DEF Leads, Checks, LetterOps, ListOps
  <2>3. CASE r = <<"recipients", "post">>
    <3>1. r # <<>> /\ Head(r) = r[1] /\ r[1] = "recipients" /\ Len(r) = 2
      BY <2>3
    <3>2. Tail(r) = <<"post">> /\ Tail(r) # <<>> /\ Tail(r)[1] = "post"
      BY <2>3
    <3>3. Rest(op, Tail(r))
      BY <1>7, <3>2 DEF Rest, DeliveryRests
    <3> QED
      BY <1>7, <3>1, <3>2, <3>3 DEF Leads, Checks, LetterOps, ListOps
  <2>4. CASE r = <<"post">>
    <3>1. r # <<>> /\ Head(r) = r[1] /\ r[1] = "post" /\ Len(r) = 1
      BY <2>4
    <3> QED
      BY <1>7, <3>1 DEF Leads, Checks, LetterOps, ListOps
  <2>5. CASE r = <<"deliveries">>
    <3>1. r # <<>> /\ Head(r) = r[1] /\ r[1] = "deliveries" /\ Len(r) = 1
      BY <2>5
    <3> QED
      BY <1>7, <3>1 DEF Leads, Checks, LetterOps, ListOps
  <2>6. CASE r = <<"draw", "item", "notify", "link">>
    <3>1. r # <<>> /\ Head(r) = r[1] /\ r[1] = "draw" /\ Len(r) = 4
      BY <2>6
    <3>2. Tail(r) = <<"item", "notify", "link">> /\ Tail(r) # <<>> /\ Tail(r)[1] = "item"
      BY <2>6
    <3>3. Rest(op, Tail(r))
      BY <1>7, <3>2 DEF Rest, DeliveryRests
    <3> QED
      BY <1>7, <3>1, <3>2, <3>3 DEF Leads, Checks, LetterOps, ListOps
  <2>7. CASE r = <<"item", "notify", "link">>
    <3>1. r # <<>> /\ Head(r) = r[1] /\ r[1] = "item" /\ Len(r) = 3
      BY <2>7
    <3>2. Tail(r) = <<"notify", "link">> /\ Tail(r) # <<>> /\ Tail(r)[1] = "notify"
      BY <2>7
    <3>3. Rest(op, Tail(r))
      BY <1>7, <3>2 DEF Rest, DeliveryRests
    <3> QED
      BY <1>7, <3>1, <3>2, <3>3 DEF Leads, Checks, LetterOps, ListOps
  <2>8. CASE r = <<"notify", "link">>
    <3>1. r # <<>> /\ Head(r) = r[1] /\ r[1] = "notify" /\ Len(r) = 2
      BY <2>8
    <3>2. Tail(r) = <<"link">> /\ Tail(r) # <<>> /\ Tail(r)[1] = "link"
      BY <2>8
    <3>3. Rest(op, Tail(r))
      BY <1>7, <3>2 DEF Rest, DeliveryRests
    <3> QED
      BY <1>7, <3>1, <3>2, <3>3 DEF Leads, Checks, LetterOps, ListOps
  <2>9. CASE r = <<"link">>
    <3>1. r # <<>> /\ Head(r) = r[1] /\ r[1] = "link" /\ Len(r) = 1
      BY <2>9
    <3> QED
      BY <1>7, <3>1 DEF Leads, Checks, LetterOps, ListOps
  <2> QED
    BY <1>7, <2>1, <2>2, <2>3, <2>4, <2>5, <2>6, <2>7, <2>8, <2>9 DEF Rest, DeliveryRests
<1>8. CASE op = "redeliver"
  <2>1. CASE r = <<"deliveries">>
    <3>1. r # <<>> /\ Head(r) = r[1] /\ r[1] = "deliveries" /\ Len(r) = 1
      BY <2>1
    <3> QED
      BY <1>8, <3>1 DEF Leads, Checks, LetterOps, ListOps
  <2>2. CASE r = <<"draw", "item", "notify", "link">>
    <3>1. r # <<>> /\ Head(r) = r[1] /\ r[1] = "draw" /\ Len(r) = 4
      BY <2>2
    <3>2. Tail(r) = <<"item", "notify", "link">> /\ Tail(r) # <<>> /\ Tail(r)[1] = "item"
      BY <2>2
    <3>3. Rest(op, Tail(r))
      BY <1>8, <3>2 DEF Rest, DeliveryRests
    <3> QED
      BY <1>8, <3>1, <3>2, <3>3 DEF Leads, Checks, LetterOps, ListOps
  <2>3. CASE r = <<"item", "notify", "link">>
    <3>1. r # <<>> /\ Head(r) = r[1] /\ r[1] = "item" /\ Len(r) = 3
      BY <2>3
    <3>2. Tail(r) = <<"notify", "link">> /\ Tail(r) # <<>> /\ Tail(r)[1] = "notify"
      BY <2>3
    <3>3. Rest(op, Tail(r))
      BY <1>8, <3>2 DEF Rest, DeliveryRests
    <3> QED
      BY <1>8, <3>1, <3>2, <3>3 DEF Leads, Checks, LetterOps, ListOps
  <2>4. CASE r = <<"notify", "link">>
    <3>1. r # <<>> /\ Head(r) = r[1] /\ r[1] = "notify" /\ Len(r) = 2
      BY <2>4
    <3>2. Tail(r) = <<"link">> /\ Tail(r) # <<>> /\ Tail(r)[1] = "link"
      BY <2>4
    <3>3. Rest(op, Tail(r))
      BY <1>8, <3>2 DEF Rest, DeliveryRests
    <3> QED
      BY <1>8, <3>1, <3>2, <3>3 DEF Leads, Checks, LetterOps, ListOps
  <2>5. CASE r = <<"link">>
    <3>1. r # <<>> /\ Head(r) = r[1] /\ r[1] = "link" /\ Len(r) = 1
      BY <2>5
    <3> QED
      BY <1>8, <3>1 DEF Leads, Checks, LetterOps, ListOps
  <2> QED
    BY <1>8, <2>1, <2>2, <2>3, <2>4, <2>5 DEF Rest, DeliveryRests
<1> QED
  BY <1>1, <1>2, <1>3, <1>4, <1>5, <1>6, <1>7, <1>8 DEF Rest

LEMMA Begun ==
    ASSUME NEW op \in LetterOps \cup ListOps
    PROVE  /\ Rest(op, Statements(op))
           /\ Statements(op)[1] \in (Checks \cup {"message", "deliveries"})
           /\ op \in LetterOps => Statements(op)[1] = "message"
           /\ Statements(op)[1] = "deliveries" <=> op = "redeliver"
           /\ op \in {"mail", "reply"} => Statements(op) = OneLetter
<1>1. OneLetter \o <<"number">> = <<"message", "source", "draw", "item", "notify", "memory", "number">>
  <2> DEFINE T == OneLetter \o <<"number">>
             U == <<"message", "source", "draw", "item", "notify", "memory", "number">>
             L == {"message", "source", "draw", "item", "notify", "memory", "number"}
  <2>1. OneLetter \in Seq(L) /\ <<"number">> \in Seq(L) /\ U \in Seq(L)
    BY DEF OneLetter
  <2>2. T \in Seq(L) /\ Len(T) = 7 /\ Len(U) = 7
    BY <2>1 DEF OneLetter
  <2>3. \A i \in 1..7 : T[i] = U[i]
    BY DEF OneLetter
  <2> HIDE DEF T, U
  <2>4. T = U
    BY <2>1, <2>2, <2>3
  <2> QED
    BY <2>4 DEF T, U
<1>2. CASE op \in {"mail", "reply"}
  BY <1>2 DEF Statements, OneLetter, Rest, LetterRests, Checks, LetterOps
<1>3. CASE op = "ask"
  <2>1. Statements(op) = <<"message", "source", "draw", "item", "notify", "memory", "number">>
    BY <1>1, <1>3 DEF Statements
  <2> QED
    BY <1>3, <2>1 DEF Rest, AskRests, Checks, LetterOps
<1>4. CASE op \in ListOps
  BY <1>4 DEF Statements, Rest, DeliveryRests, Checks, LetterOps, ListOps
<1> QED
  BY <1>2, <1>3, <1>4 DEF LetterOps

(* Where a session is at a statement. *)
LEMMA Here ==
    ASSUME CallsInv, NEW s \in Sessions, NEW a, At(s, a)
    PROVE  /\ call[s] \in MailCall /\ read[s] \in Read
           /\ todo[s] # <<>> /\ todo[s][1] = a
           /\ Len(todo[s]) # 1 => Tail(todo[s]) # <<>> /\ Rest(call[s].op, Tail(todo[s]))
           /\ Leads(call[s].op, a, todo[s])
           /\ call[s].op \in LetterOps => LetterKnows(s, a)
           /\ call[s].op \in {"post", "redeliver"} => PostKnows(s, a)
<1>1. todo[s] # <<>> /\ Head(todo[s]) = a /\ SessionInv(s)
  BY DEF At, CallsInv
<1>2. call[s] \in MailCall /\ Rest(call[s].op, todo[s])
  BY <1>1 DEF SessionInv
<1>3. todo[s][1] = a
  BY <1>1, <1>2, Scripts
<1>4. read[s] \in Read
  BY DEF CallsInv, CallersTyped
<1> QED
  BY <1>1, <1>2, <1>3, <1>4, Scripts DEF SessionInv

LEMMA CallTyped ==
    ASSUME NEW c \in MailCall
    PROVE  /\ c.op \in LetterOps \cup ListOps /\ c.by \in Players /\ c.to \in Seq(Players)
           /\ c.op \in LetterOps <=> c.letter # None
           /\ c.op \in LetterOps => c.letter \in Letters /\ c.to # <<>>
           /\ c.op = "ask" => c.to = <<RoomPlayer>>
BY DEF MailCall
-----------------------------------------------------------------------------
(* Steps and the other callers *)

(* No step takes anything of this from a caller. *)
Grows ==
    /\ Len(inbox) <= Len(inbox')
    /\ \A i \in Ids :
          /\ inbox[i].to # None => /\ inbox'[i].to = inbox[i].to
                                   /\ inbox'[i].letter = inbox[i].letter
          /\ inbox[i].kind = "post" => /\ inbox'[i].kind = "post"
                                       /\ inbox'[i].source = inbox[i].source
                                       /\ inbox'[i].to = inbox[i].to
          /\ inbox[i].status \in Finished => inbox'[i].status \in Finished
    /\ written \subseteq written'
    /\ \A p \in Players : membership[p] # "none" => membership'[p] # "none"
    /\ Len(deliveries) <= Len(deliveries')
    /\ \A n \in 1..Len(deliveries) :
          /\ DOMAIN deliveries'[n] = DOMAIN deliveries[n]
          /\ \A p \in DOMAIN deliveries[n] : deliveries[n][p] # 0 => deliveries'[n][p] # 0

Lengths == Len(inbox) \in Nat /\ Len(inbox') \in Nat
           /\ Len(deliveries) \in Nat /\ Len(deliveries') \in Nat

LEMMA ArrivedStays ==
    ASSUME Grows, Lengths, NEW l, NEW p, Arrived(l, p)
    PROVE  Arrived(l, p)'
<1>1. PICK i \in Ids : inbox[i].letter = l /\ inbox[i].to = p
  BY DEF Arrived
<1>2. i \in Ids'
  BY DEF Grows, Ids, Lengths
<1> QED
  BY <1>1, <1>2 DEF Grows, Arrived

LEMMA LetterKept ==
    ASSUME CallsInv, Grows, Lengths, NEW t \in Sessions,
           call'[t] = call[t], read'[t] = read[t], NEW a, LetterKnows(t, a)
    PROVE  LetterKnows(t, a)'
<1>1. PICK k, r : k = call[t] /\ r = read[t]
  OBVIOUS
<1>2. /\ r.post = 0 /\ r.due # <<>>
      /\ k.op = "ask" => Len(r.due) = 1
      /\ \A i \in 1..Len(r.due) : \E n \in 1..Len(k.to) : r.due[i] = k.to[n]
      /\ \A n \in 1..Len(k.to) : \/ Arrived(k.letter, k.to[n])
                                 \/ \E i \in 1..Len(r.due) : r.due[i] = k.to[n]
      /\ a # "message" => k.letter \in written
      /\ a \in {"notify", "memory", "number"} =>
             /\ r.id \in Ids
             /\ inbox[r.id].letter = k.letter /\ inbox[r.id].to = r.due[1]
  BY <1>1 DEF LetterKnows
<1>3. \A n \in 1..Len(k.to) : \/ Arrived(k.letter, k.to[n])'
                              \/ \E i \in 1..Len(r.due) : r.due[i] = k.to[n]
  <2> SUFFICES ASSUME NEW n \in 1..Len(k.to)
               PROVE  \/ Arrived(k.letter, k.to[n])'
                      \/ \E i \in 1..Len(r.due) : r.due[i] = k.to[n]
    OBVIOUS
  <2>1. PICK l, p : l = k.letter /\ p = k.to[n]
    OBVIOUS
  <2>2. Arrived(l, p) => Arrived(l, p)'
    BY ArrivedStays
  <2> QED
    BY <1>2, <2>1, <2>2
<1>4. a # "message" => k.letter \in written'
  BY <1>2 DEF Grows
<1>5. r.due[1] # None
  <2>1. r.due \in Seq(Players)
    BY <1>1 DEF CallsInv, CallersTyped, Read
  <2>2. r.due[1] \in Players
    BY <1>2, <2>1
  <2> QED
    BY <2>2, MailCallsAssumption DEF MailCallsAssumption
<1>6. a \in {"notify", "memory", "number"} =>
             /\ r.id \in Ids'
             /\ inbox'[r.id].letter = k.letter /\ inbox'[r.id].to = r.due[1]
  BY <1>2, <1>5 DEF Grows, Ids, Lengths
<1> QED
  BY <1>1, <1>2, <1>3, <1>4, <1>6 DEF LetterKnows

LEMMA PostKept ==
    ASSUME CallsInv, Grows, Lengths, NEW t \in Sessions,
           read'[t] = read[t], NEW a, PostKnows(t, a)
    PROVE  PostKnows(t, a)'
<1>1. PICK r : r = read[t]
  OBVIOUS
<1>2. /\ a = "post" => r.ids # {} /\ \A p \in r.ids : membership[p] # "none"
      /\ a = "deliveries" => r.post <= Len(deliveries)
      /\ a \in {"draw", "item", "notify", "link"} =>
             /\ r.post \in 1..Len(deliveries) /\ r.due # <<>>
             /\ \A i \in 1..Len(r.due) : r.due[i] \in DOMAIN deliveries[r.post]
             /\ \A p \in DOMAIN deliveries[r.post] :
                    \/ deliveries[r.post][p] # 0
                    \/ \E i \in 1..Len(r.due) : r.due[i] = p
      /\ a \in {"notify", "link"} =>
             /\ r.id \in Ids /\ inbox[r.id].kind = "post"
             /\ inbox[r.id].source = <<r.post>> /\ inbox[r.id].to = r.due[1]
  BY <1>1 DEF PostKnows
<1>3. r \in Read
  BY <1>1 DEF CallsInv, CallersTyped
<1>4. r.ids \subseteq Players /\ r.post \in Nat
  BY <1>3 DEF Read
<1>5. a = "post" => r.ids # {} /\ \A p \in r.ids : membership'[p] # "none"
  BY <1>2, <1>4 DEF Grows
<1>6. a = "deliveries" => r.post <= Len(deliveries')
  BY <1>2, <1>4 DEF Grows, Lengths
<1>7. a \in {"draw", "item", "notify", "link"} =>
        /\ r.post \in 1..Len(deliveries') /\ r.due # <<>>
        /\ \A i \in 1..Len(r.due) : r.due[i] \in DOMAIN deliveries'[r.post]
        /\ \A p \in DOMAIN deliveries'[r.post] :
               \/ deliveries'[r.post][p] # 0
               \/ \E i \in 1..Len(r.due) : r.due[i] = p
  <2> SUFFICES ASSUME a \in {"draw", "item", "notify", "link"}
               PROVE  /\ r.post \in 1..Len(deliveries') /\ r.due # <<>>
                      /\ \A i \in 1..Len(r.due) : r.due[i] \in DOMAIN deliveries'[r.post]
                      /\ \A p \in DOMAIN deliveries'[r.post] :
                             \/ deliveries'[r.post][p] # 0
                             \/ \E i \in 1..Len(r.due) : r.due[i] = p
    OBVIOUS
  <2>1. /\ r.post \in 1..Len(deliveries')
        /\ DOMAIN deliveries'[r.post] = DOMAIN deliveries[r.post]
        /\ \A p \in DOMAIN deliveries[r.post] :
               deliveries[r.post][p] # 0 => deliveries'[r.post][p] # 0
    BY <1>2 DEF Grows, Lengths
  <2> QED
    BY <1>2, <2>1
<1>8. a \in {"notify", "link"} =>
        /\ r.id \in Ids' /\ inbox'[r.id].kind = "post"
        /\ inbox'[r.id].source = <<r.post>> /\ inbox'[r.id].to = r.due[1]
  BY <1>2 DEF Grows, Ids, Lengths
<1> QED
  BY <1>1, <1>2, <1>5, <1>6, <1>7, <1>8 DEF PostKnows

LEMMA SessionKept ==
    ASSUME CallsInv, Grows, Lengths, NEW t \in Sessions,
           todo'[t] = todo[t], call'[t] = call[t], read'[t] = read[t]
    PROVE  SessionInv(t)'
<1>1. PICK a : a = todo[t][1]
  OBVIOUS
<1>2. todo[t] # <<>> =>
        /\ call[t] \in MailCall /\ Rest(call[t].op, todo[t])
        /\ call[t].op \in LetterOps => LetterKnows(t, a)
        /\ call[t].op \in {"post", "redeliver"} => PostKnows(t, a)
  BY <1>1 DEF CallsInv, SessionInv
<1>3. LetterKnows(t, a) => LetterKnows(t, a)'
  BY LetterKept
<1>4. PostKnows(t, a) => PostKnows(t, a)'
  BY PostKept
<1> QED
  BY <1>1, <1>2, <1>3, <1>4 DEF SessionInv

(* The step of a caller, and a step of anybody else. *)
Own(s) == /\ CallersTyped'
          /\ \A t \in Sessions \ {s} : /\ todo'[t] = todo[t] /\ call'[t] = call[t]
                                       /\ read'[t] = read[t]
          /\ SessionInv(s)'

Tables == ItemsInv' /\ LinksInv' /\ Grows

LEMMA LengthsTyped ==
    ASSUME CallsInv, Tables
    PROVE  Lengths
<1>1. inbox \in Seq(Item) /\ inbox' \in Seq(Item)
  BY DEF CallsInv, Tables, ItemsInv, ItemsTypeOK
<1>2. deliveries \in Seq(Links) /\ deliveries' \in Seq(Links)
  BY DEF CallsInv, Tables, LinksInv
<1> QED
  BY <1>1, <1>2 DEF Lengths

LEMMA CallerStepKeeps ==
    ASSUME CallsInv, NEW s \in Sessions, Own(s), Tables
    PROVE  CallsInv' /\ Grows
<1>1. \A t \in Sessions : SessionInv(t)'
  BY LengthsTyped, SessionKept DEF Own, Tables
<1> QED
  BY <1>1 DEF CallsInv, Own, Tables

LEMMA TableStepKeeps ==
    ASSUME CallsInv, UNCHANGED callers, Tables
    PROVE  CallsInv' /\ Grows
<1>1. \A t \in Sessions : SessionInv(t)'
  BY LengthsTyped, SessionKept DEF callers, Tables
<1>2. CallersTyped'
  BY DEF CallsInv, CallersTyped, callers
<1> QED
  BY <1>1, <1>2 DEF CallsInv, Tables

-----------------------------------------------------------------------------
(* A caller's own place *)

LEMMA NothingTyped == NoRead \in Read /\ NoCall \in MailCall
<1>1. <<>> \in Seq(Players)
  OBVIOUS
<1> QED
  BY <1>1, MailCallsAssumption
     DEF MailCallsAssumption, NoRead, Read, NoCall, MailCall, LetterOps, ListOps

LEMMA EndOwn ==
    ASSUME CallsInv, NEW s \in Sessions, EndCall(s)
    PROVE  Own(s)
<1>1. /\ todo = [t \in Sessions |-> todo[t]] /\ call \in [Sessions -> MailCall]
      /\ read \in [Sessions -> Read]
  BY DEF CallsInv, CallersTyped
<1>2. todo'[s] = <<>> /\ \A t \in Sessions \ {s} : todo'[t] = todo[t]
  BY <1>1 DEF EndCall, Goto
<1>3. todo' = [t \in Sessions |-> todo'[t]]
  BY <1>1 DEF EndCall, Goto
<1>4. /\ call' \in [Sessions -> MailCall] /\ read' \in [Sessions -> Read]
      /\ \A t \in Sessions \ {s} : call'[t] = call[t] /\ read'[t] = read[t]
  BY <1>1, NothingTyped DEF EndCall
<1> QED
  BY <1>2, <1>3, <1>4 DEF Own, CallersTyped, SessionInv

(* On to another statement, with what the call should know there. *)
LEMMA GotoOwn ==
    ASSUME CallsInv, NEW s \in Sessions, NEW r, Goto(s, r), r # <<>>,
           call' \in [Sessions -> MailCall], read' \in [Sessions -> Read],
           \A t \in Sessions \ {s} : call'[t] = call[t] /\ read'[t] = read[t],
           Rest(call'[s].op, r), NEW a, a = r[1],
           call'[s].op \in LetterOps => LetterKnows(s, a)',
           call'[s].op \in {"post", "redeliver"} => PostKnows(s, a)'
    PROVE  Own(s)
<1>1. todo = [t \in Sessions |-> todo[t]]
  BY DEF CallsInv, CallersTyped
<1>2. /\ todo' = [t \in Sessions |-> todo'[t]] /\ todo'[s] = r
      /\ \A t \in Sessions \ {s} : todo'[t] = todo[t]
  BY <1>1 DEF Goto
<1> QED
  BY <1>2 DEF Own, CallersTyped, SessionInv
-----------------------------------------------------------------------------
(* The tables *)

(* What CallsInv says of the tables, an idea at a time. *)
LEMMA TablesNow ==
    ASSUME CallsInv
    PROVE  /\ roomEnabled \in BOOLEAN /\ inbox \in Seq(Item) /\ Len(inbox) \in Nat
           /\ Len(inbox) <= MaxItems /\ notices \in Seq(Nat)
           /\ written \subseteq Letters /\ remembered \subseteq Letters
           /\ \A i \in Ids : /\ inbox[i].kind = "post" => inbox[i].letter = None
                             /\ inbox[i].to = None => inbox[i] = Drawn
                             /\ inbox[i].letter # None => inbox[i].letter \in written
                             /\ inbox[i].kind = "room_command" =>
                                   inbox[i].source = <<i>> /\ inbox[i].to = RoomPlayer
           /\ \A a \in answered : Answers(a)
           /\ deliveries \in Seq(Links) /\ Len(deliveries) \in Nat
<1>1. ItemsInv /\ LinksInv
  BY DEF CallsInv
<1>2. /\ roomEnabled \in BOOLEAN /\ inbox \in Seq(Item) /\ Len(inbox) \in Nat
      /\ Len(inbox) <= MaxItems /\ notices \in Seq(Nat)
  BY <1>1 DEF ItemsInv, ItemsTypeOK
<1>3. /\ written \subseteq Letters /\ remembered \subseteq Letters
      /\ \A i \in Ids : /\ inbox[i].kind = "post" => inbox[i].letter = None
                        /\ inbox[i].to = None => inbox[i] = Drawn
                        /\ inbox[i].letter # None => inbox[i].letter \in written
                        /\ inbox[i].kind = "room_command" =>
                              inbox[i].source = <<i>> /\ inbox[i].to = RoomPlayer
  BY <1>1 DEF ItemsInv, AnsweredLettersArrived, RequestsNumberThemselves
<1>4. \A a \in answered : Answers(a)
  BY <1>1 DEF ItemsInv
<1>5. deliveries \in Seq(Links) /\ Len(deliveries) \in Nat
  BY <1>1 DEF LinksInv
<1> QED
  BY <1>2, <1>3, <1>4, <1>5

(* Answers that were true stay so; a new one must be. *)
LEMMA AnswersStay ==
    ASSUME CallsInv, Grows, Lengths,
           \A a \in answered' \ answered : Answers(a)
    PROVE  \A a \in answered' : Answers(a)'
<1> SUFFICES ASSUME NEW a \in answered', NEW n \in 1..Len(a[2])
             PROVE  Arrived(a[1], a[2][n])'
  BY DEF Answers
<1>1. PICK l, p : l = a[1] /\ p = a[2][n]
  OBVIOUS
<1>2. Answers(a)
  BY TablesNow
<1>3. Arrived(l, p)
  BY <1>1, <1>2 DEF Answers
<1> QED
  BY <1>1, <1>3, ArrivedStays

(* A step that leaves the items and the list alone. *)
LEMMA SameInbox ==
    ASSUME CallsInv, UNCHANGED <<inbox, lists>>,
           notices' \in Seq(Nat), roomEnabled' \in BOOLEAN,
           written \subseteq written', written' \subseteq Letters,
           remembered' \subseteq Letters,
           \A a \in answered' \ answered : Answers(a)
    PROVE  Tables
<1>0. /\ inbox' = inbox /\ list' = list /\ membership' = membership
      /\ deliveries' = deliveries /\ sent' = sent
  BY DEF lists
<1>1. Grows /\ Lengths
  BY <1>0, TablesNow DEF Grows, Lengths
<1>2. \A a \in answered' : Answers(a)'
  BY <1>1, AnswersStay
<1>3. AnsweredLettersArrived'
  BY <1>0, <1>2, TablesNow DEF AnsweredLettersArrived, Answers, Arrived, Ids
<1>4. ItemsInv'
  BY <1>0, <1>2, <1>3, TablesNow DEF ItemsInv, ItemsTypeOK, RequestsNumberThemselves, Ids
<1>5. LinksInv'
  BY <1>0 DEF CallsInv, LinksInv, PostsArriveOnce, SentPostsReachSubscribers, Ids
<1> QED
  BY <1>1, <1>4, <1>5 DEF Tables

LEMMA SameTables ==
    ASSUME CallsInv, UNCHANGED <<inbox, notices, mails, roomEnabled, lists>>
    PROVE  Tables
<1>1. /\ inbox' = inbox /\ notices' = notices /\ roomEnabled' = roomEnabled
      /\ written' = written /\ remembered' = remembered /\ answered' = answered
      /\ UNCHANGED lists
  BY DEF mails
<1> QED
  BY <1>1, SameInbox, TablesNow

(* A step that touches items where they are: whose they are and what       *)
(* letter or post they are stays. *)
LEMMA Touched ==
    ASSUME CallsInv, inbox' \in Seq(Item), Len(inbox') = Len(inbox),
           \A i \in Ids : /\ inbox'[i].to = inbox[i].to
                          /\ inbox[i].to = None => inbox'[i] = inbox[i]
                          /\ inbox'[i].letter = inbox[i].letter
                          /\ \/ inbox'[i].kind = inbox[i].kind /\ inbox'[i].source = inbox[i].source
                             \/ /\ inbox[i].kind # "post" /\ inbox'[i].kind = "room_command"
                                /\ inbox'[i].source = <<i>> /\ inbox[i].to = RoomPlayer
                          /\ inbox[i].status \in Finished => inbox'[i].status \in Finished,
           UNCHANGED <<notices, roomEnabled, written, remembered, lists>>,
           \A a \in answered' \ answered : Answers(a)
    PROVE  Tables
<1>0. /\ list' = list /\ membership' = membership /\ deliveries' = deliveries
      /\ sent' = sent /\ Ids' = Ids
  BY DEF lists, Ids
<1>1. /\ inbox \in Seq(Item) /\ Len(inbox) \in Nat
  BY TablesNow
<1>2. Grows /\ Lengths
  BY <1>0, <1>1, TablesNow DEF Grows, Lengths, Ids
<1>3. \A a \in answered' : Answers(a)'
  BY <1>2, AnswersStay
<1>4. \A i \in Ids : inbox'[i].kind = "post" <=> inbox[i].kind = "post"
  OBVIOUS
<1>5. AnsweredLettersArrived'
  BY <1>0, <1>3, TablesNow DEF AnsweredLettersArrived, Answers, Arrived
<1>6. RequestsNumberThemselves'
  BY <1>0, TablesNow DEF RequestsNumberThemselves
<1>7. ItemsInv'
  BY <1>0, <1>3, <1>4, <1>5, <1>6, TablesNow DEF ItemsInv, ItemsTypeOK
<1>8. \A i \in Ids : inbox[i].kind = "post" => inbox'[i].source = inbox[i].source
  OBVIOUS
<1>9. \A n \in 1..Len(deliveries) : \A p \in DOMAIN deliveries[n] : deliveries[n][p] # 0 =>
         /\ deliveries[n][p] \in Ids /\ inbox[deliveries[n][p]].kind = "post"
         /\ inbox[deliveries[n][p]].to = p /\ inbox[deliveries[n][p]].source = <<n>>
  BY DEF CallsInv, LinksInv, PostsArriveOnce
<1>10. \A i, j \in Ids :
           inbox[i].kind = "post" /\ inbox[j].kind = "post"
               /\ inbox[i].source = inbox[j].source /\ inbox[i].to = inbox[j].to
               => i = j
  BY DEF CallsInv, LinksInv, PostsArriveOnce
<1>11. PostsArriveOnce'
  <2>1. \A i, j \in Ids :
           inbox'[i].kind = "post" /\ inbox'[j].kind = "post"
               /\ inbox'[i].source = inbox'[j].source /\ inbox'[i].to = inbox'[j].to
               => i = j
    <3> SUFFICES ASSUME NEW i \in Ids, NEW j \in Ids,
                        inbox'[i].kind = "post", inbox'[j].kind = "post",
                        inbox'[i].source = inbox'[j].source, inbox'[i].to = inbox'[j].to
                 PROVE  i = j
      OBVIOUS
    <3>1. inbox[i].kind = "post" /\ inbox[j].kind = "post"
      BY <1>4
    <3>2. inbox[i].source = inbox[j].source /\ inbox[i].to = inbox[j].to
      BY <1>8, <3>1
    <3> QED
      BY <1>10, <3>1, <3>2
  <2>2. ASSUME NEW n \in 1..Len(deliveries), NEW p \in DOMAIN deliveries[n],
               deliveries[n][p] # 0
        PROVE  inbox'[deliveries[n][p]].to = p /\ inbox'[deliveries[n][p]].source = <<n>>
    <3>1. PICK d : d = deliveries[n][p]
      OBVIOUS
    <3>2. d \in Ids /\ inbox[d].kind = "post" /\ inbox[d].to = p /\ inbox[d].source = <<n>>
      BY <1>9, <2>2, <3>1
    <3>3. inbox'[d].to = inbox[d].to
      BY <3>2
    <3> QED
      BY <1>8, <3>1, <3>2, <3>3
  <2> QED
    BY <1>0, <2>1, <2>2 DEF PostsArriveOnce
<1>12. LinksInv'
  <2>1. SentPostsReachSubscribers'
    BY <1>0 DEF CallsInv, LinksInv, SentPostsReachSubscribers
  <2>2. ASSUME NEW n \in 1..Len(deliveries), NEW p \in DOMAIN deliveries[n],
               deliveries[n][p] # 0
        PROVE  deliveries[n][p] \in Ids' /\ inbox'[deliveries[n][p]].kind = "post"
    <3>1. PICK d : d = deliveries[n][p]
      OBVIOUS
    <3>2. d \in Ids /\ inbox[d].kind = "post"
      BY <1>9, <2>2, <3>1
    <3>3. d \in Ids' /\ inbox'[d].kind = "post"
      BY <1>0, <1>4, <3>2
    <3> QED
      BY <3>1, <3>3
  <2> QED
    BY <1>0, <1>11, <2>1, <2>2 DEF CallsInv, LinksInv
<1> QED
  BY <1>2, <1>7, <1>12 DEF Tables

(* A new item: a letter that is written, or a post its recipient does not  *)
(* have. *)
LEMMA Appended ==
    ASSUME CallsInv, NEW item \in Item, Len(inbox) < MaxItems,
           inbox' = Append(inbox, item),
           item.kind = "post" => item.letter = None, item.to = None => item = Drawn,
           item.letter # None => item.letter \in written,
           item.kind # "room_command",
           item.kind = "post" => \A i \in Ids : ~ (/\ inbox[i].kind = "post"
                                                   /\ inbox[i].source = item.source
                                                   /\ inbox[i].to = item.to),
           UNCHANGED <<notices, mails, roomEnabled, lists>>
    PROVE  /\ Tables
           /\ Len(inbox) + 1 \in Ids' /\ inbox'[Len(inbox) + 1] = item
<1>0. /\ list' = list /\ membership' = membership /\ deliveries' = deliveries
      /\ sent' = sent /\ notices' = notices /\ roomEnabled' = roomEnabled
      /\ written' = written /\ remembered' = remembered /\ answered' = answered
  BY DEF lists, mails
<1>1. /\ inbox \in Seq(Item) /\ Len(inbox) \in Nat
  BY TablesNow
<1>2. PICK k \in Nat : k = Len(inbox)
  BY <1>1
<1>3. /\ inbox' \in Seq(Item) /\ Len(inbox') = k + 1 /\ inbox'[k + 1] = item
      /\ \A i \in 1..k : inbox'[i] = inbox[i]
  BY <1>1, <1>2
<1>4. Ids = 1..k /\ Ids' = 1..k + 1 /\ \A i \in Ids' : i \in Ids \/ i = k + 1
  BY <1>2, <1>3 DEF Ids
<1>5. Grows /\ Lengths
  BY <1>0, <1>2, <1>3, <1>4, TablesNow DEF Grows, Lengths
<1>6. \A a \in answered' : Answers(a)'
  BY <1>0, <1>5, AnswersStay
<1>7. AnsweredLettersArrived'
  <2>1. \A i \in Ids' : inbox'[i].letter # None => inbox'[i].letter \in written'
    BY <1>0, <1>3, <1>4, TablesNow
  <2> QED
    BY <2>1, <1>6 DEF AnsweredLettersArrived, Answers, Arrived
<1>8. RequestsNumberThemselves'
  BY <1>3, <1>4, TablesNow DEF RequestsNumberThemselves
<1>9. \A i \in Ids' : /\ inbox'[i].kind = "post" => inbox'[i].letter = None
                      /\ inbox'[i].to = None => inbox'[i] = Drawn
  BY <1>3, <1>4, TablesNow
<1>10. Len(inbox') <= MaxItems
  BY <1>2, <1>3, MailCallsAssumption DEF MailCallsAssumption
<1>11. ItemsInv'
  BY <1>0, <1>3, <1>6, <1>7, <1>8, <1>9, <1>10, TablesNow DEF ItemsInv, ItemsTypeOK
<1>12. PostsArriveOnce
  BY DEF CallsInv, LinksInv
<1>13. \A n \in 1..Len(deliveries) : \A p \in DOMAIN deliveries[n] : deliveries[n][p] # 0 =>
         /\ deliveries[n][p] \in Ids /\ inbox[deliveries[n][p]].kind = "post"
         /\ inbox[deliveries[n][p]].to = p /\ inbox[deliveries[n][p]].source = <<n>>
  BY DEF CallsInv, LinksInv, PostsArriveOnce
<1>14. PostsArriveOnce'
  <2>1. ASSUME NEW i \in Ids', NEW j \in Ids', inbox'[i].kind = "post", inbox'[j].kind = "post",
               inbox'[i].source = inbox'[j].source, inbox'[i].to = inbox'[j].to
        PROVE  i = j
    <3>1. CASE i \in Ids /\ j \in Ids
      BY <1>3, <1>4, <1>12, <2>1, <3>1 DEF PostsArriveOnce
    <3>2. CASE i \in Ids /\ j = k + 1
      BY <1>3, <1>4, <2>1, <3>2
    <3>3. CASE i = k + 1 /\ j \in Ids
      BY <1>3, <1>4, <2>1, <3>3
    <3> QED
      BY <1>4, <3>1, <3>2, <3>3
  <2>2. \A n \in 1..Len(deliveries) : \A p \in DOMAIN deliveries[n] : deliveries[n][p] # 0 =>
           inbox'[deliveries[n][p]].to = p /\ inbox'[deliveries[n][p]].source = <<n>>
    BY <1>3, <1>4, <1>13
  <2> QED
    BY <1>0, <2>1, <2>2 DEF PostsArriveOnce
<1>15. LinksInv'
  BY <1>0, <1>3, <1>4, <1>14 DEF CallsInv, LinksInv, SentPostsReachSubscribers
<1> QED
  BY <1>2, <1>3, <1>4, <1>5, <1>11, <1>15 DEF Tables

(* The row of an id that was drawn. *)
LEMMA Filled ==
    ASSUME CallsInv, NEW item \in Item, NEW d \in Ids, inbox[d].to = None,
           inbox' = [inbox EXCEPT ![d] = item],
           item.kind = "post" => item.letter = None, item.to # None,
           item.letter # None => item.letter \in written,
           item.kind # "room_command",
           item.kind = "post" => \A i \in Ids : ~ (/\ inbox[i].kind = "post"
                                                   /\ inbox[i].source = item.source
                                                   /\ inbox[i].to = item.to),
           UNCHANGED <<notices, mails, roomEnabled, lists>>
    PROVE  /\ Tables /\ Ids' = Ids /\ inbox'[d] = item
           /\ \A i \in Ids : i # d => inbox'[i] = inbox[i]
<1>0. /\ list' = list /\ membership' = membership /\ deliveries' = deliveries
      /\ sent' = sent /\ notices' = notices /\ roomEnabled' = roomEnabled
      /\ written' = written /\ remembered' = remembered /\ answered' = answered
  BY DEF lists, mails
<1>1. /\ inbox \in Seq(Item) /\ Len(inbox) \in Nat
  BY TablesNow
<1>2. inbox[d] = Drawn
  BY TablesNow
<1>3. /\ inbox[d].kind = "mail" /\ inbox[d].status = "unread" /\ inbox[d].letter = None
  BY <1>2 DEF Drawn, NewItem
<1>4. /\ inbox' \in Seq(Item) /\ Len(inbox') = Len(inbox) /\ inbox'[d] = item
      /\ \A i \in Ids : i # d => inbox'[i] = inbox[i]
  BY <1>1 DEF Ids
<1>5. Ids' = Ids
  BY <1>4 DEF Ids
<1>6. Grows /\ Lengths
  BY <1>0, <1>1, <1>3, <1>4, <1>5, TablesNow DEF Grows, Lengths, Finished
<1>7. \A a \in answered' : Answers(a)'
  BY <1>0, <1>6, AnswersStay
<1>8. AnsweredLettersArrived'
  <2>1. \A i \in Ids' : inbox'[i].letter # None => inbox'[i].letter \in written'
    BY <1>0, <1>4, <1>5, TablesNow
  <2> QED
    BY <2>1, <1>7 DEF AnsweredLettersArrived, Answers, Arrived
<1>9. RequestsNumberThemselves'
  BY <1>4, <1>5, TablesNow DEF RequestsNumberThemselves
<1>10. \A i \in Ids' : /\ inbox'[i].kind = "post" => inbox'[i].letter = None
                       /\ inbox'[i].to = None => inbox'[i] = Drawn
  BY <1>4, <1>5, TablesNow
<1>11. ItemsInv'
  BY <1>0, <1>4, <1>7, <1>8, <1>9, <1>10, TablesNow DEF ItemsInv, ItemsTypeOK
<1>12. PostsArriveOnce
  BY DEF CallsInv, LinksInv
<1>13. \A n \in 1..Len(deliveries) : \A p \in DOMAIN deliveries[n] : deliveries[n][p] # 0 =>
         /\ deliveries[n][p] \in Ids /\ inbox[deliveries[n][p]].kind = "post"
         /\ inbox[deliveries[n][p]].to = p /\ inbox[deliveries[n][p]].source = <<n>>
         /\ deliveries[n][p] # d
  BY <1>3 DEF CallsInv, LinksInv, PostsArriveOnce
<1>14. PostsArriveOnce'
  <2>1. ASSUME NEW i \in Ids', NEW j \in Ids', inbox'[i].kind = "post", inbox'[j].kind = "post",
               inbox'[i].source = inbox'[j].source, inbox'[i].to = inbox'[j].to
        PROVE  i = j
    <3>1. CASE i # d /\ j # d
      BY <1>4, <1>5, <1>12, <2>1, <3>1 DEF PostsArriveOnce
    <3>2. CASE i # d /\ j = d
      BY <1>4, <1>5, <2>1, <3>2
    <3>3. CASE i = d /\ j # d
      BY <1>4, <1>5, <2>1, <3>3
    <3> QED
      BY <3>1, <3>2, <3>3
  <2>2. ASSUME NEW n \in 1..Len(deliveries), NEW p \in DOMAIN deliveries[n],
               deliveries[n][p] # 0
        PROVE  inbox'[deliveries[n][p]].to = p /\ inbox'[deliveries[n][p]].source = <<n>>
    <3>1. PICK l : l = deliveries[n][p]
      OBVIOUS
    <3>2. l \in Ids /\ l # d /\ inbox[l].to = p /\ inbox[l].source = <<n>>
      BY <1>13, <2>2, <3>1
    <3>3. inbox'[l] = inbox[l]
      BY <1>4, <3>2
    <3> QED
      BY <3>1, <3>2, <3>3
  <2>3. \A i, j \in Ids' :
          inbox'[i].kind = "post" /\ inbox'[j].kind = "post"
            /\ inbox'[i].source = inbox'[j].source /\ inbox'[i].to = inbox'[j].to => i = j
    BY <2>1
  <2>4. \A n \in 1..Len(deliveries') : \A p \in DOMAIN deliveries'[n] :
          deliveries'[n][p] # 0 => /\ inbox'[deliveries'[n][p]].to = p
                                   /\ inbox'[deliveries'[n][p]].source = <<n>>
    <3>1. \A n \in 1..Len(deliveries) : \A p \in DOMAIN deliveries[n] :
            deliveries[n][p] # 0 => /\ inbox'[deliveries[n][p]].to = p
                                    /\ inbox'[deliveries[n][p]].source = <<n>>
      BY <2>2
    <3> QED
      BY <1>0, <3>1, SMT
  <2> QED
    BY <2>3, <2>4, Zenon DEF PostsArriveOnce
<1>15. LinksInv'
  BY <1>0, <1>4, <1>5, <1>13, <1>14 DEF CallsInv, LinksInv, SentPostsReachSubscribers
<1> QED
  BY <1>4, <1>5, <1>6, <1>11, <1>15 DEF Tables
-----------------------------------------------------------------------------
(* What a statement leaves its caller to read *)

ReadNow(s, id, kind, due, post, ids) ==
    /\ read' \in [Sessions -> Read]
    /\ \A t \in Sessions \ {s} : read'[t] = read[t]
    /\ read'[s].id = id /\ read'[s].kind = kind /\ read'[s].due = due
    /\ read'[s].post = post /\ read'[s].ids = ids

LEMMA ReadDueAndPost ==
    ASSUME CallsInv, NEW s \in Sessions, NEW d \in Seq(Players), NEW n \in Nat,
           read' = [read EXCEPT ![s].due = d, ![s].post = n]
    PROVE  ReadNow(s, read[s].id, read[s].kind, d, n, read[s].ids)
<1>1. read \in [Sessions -> Read]
  BY DEF CallsInv, CallersTyped
<1>2. read' = [read EXCEPT ![s] = [read[s] EXCEPT !.due = d, !.post = n]]
  BY <1>1
<1>3. PICK e : e = [read[s] EXCEPT !.due = d, !.post = n]
  OBVIOUS
<1>4. e \in Read /\ e.id = read[s].id /\ e.kind = read[s].kind /\ e.due = d /\ e.post = n
      /\ e.ids = read[s].ids
  BY <1>1, <1>3 DEF Read
<1>5. read' = [read EXCEPT ![s] = e]
  BY <1>2, <1>3
<1> QED
  BY <1>1, <1>4, <1>5 DEF ReadNow

LEMMA ReadDueAndIds ==
    ASSUME CallsInv, NEW s \in Sessions, NEW d \in Seq(Players), NEW S \in SUBSET Players,
           read' = [read EXCEPT ![s].due = d, ![s].ids = S]
    PROVE  ReadNow(s, read[s].id, read[s].kind, d, read[s].post, S)
<1>1. read \in [Sessions -> Read]
  BY DEF CallsInv, CallersTyped
<1>2. read' = [read EXCEPT ![s] = [read[s] EXCEPT !.due = d, !.ids = S]]
  BY <1>1
<1>3. PICK e : e = [read[s] EXCEPT !.due = d, !.ids = S]
  OBVIOUS
<1>4. e \in Read /\ e.id = read[s].id /\ e.kind = read[s].kind /\ e.due = d
      /\ e.post = read[s].post /\ e.ids = S
  BY <1>1, <1>3 DEF Read
<1>5. read' = [read EXCEPT ![s] = e]
  BY <1>2, <1>3
<1> QED
  BY <1>1, <1>4, <1>5 DEF ReadNow

LEMMA ReadOneField ==
    ASSUME CallsInv, NEW s \in Sessions
    PROVE  /\ \A n \in Nat : read' = [read EXCEPT ![s].id = n] =>
                 ReadNow(s, n, read[s].kind, read[s].due, read[s].post, read[s].ids)
           /\ \A n \in Nat : read' = [read EXCEPT ![s].post = n] =>
                 ReadNow(s, read[s].id, read[s].kind, read[s].due, n, read[s].ids)
           /\ \A k \in {"mail", "room_reply"} : read' = [read EXCEPT ![s].kind = k] =>
                 ReadNow(s, read[s].id, k, read[s].due, read[s].post, read[s].ids)
           /\ \A d \in Seq(Players) : read' = [read EXCEPT ![s].due = d] =>
                 ReadNow(s, read[s].id, read[s].kind, d, read[s].post, read[s].ids)
           /\ \A S \in SUBSET Players : read' = [read EXCEPT ![s].ids = S] =>
                 ReadNow(s, read[s].id, read[s].kind, read[s].due, read[s].post, S)
           /\ read' = read =>
                 ReadNow(s, read[s].id, read[s].kind, read[s].due, read[s].post, read[s].ids)
<1>1. read \in [Sessions -> Read]
  BY DEF CallsInv, CallersTyped
<1>2. PICK r : r = read[s] /\ r \in Read
  BY <1>1
<1>3. ASSUME NEW n \in Nat, read' = [read EXCEPT ![s].id = n]
      PROVE  ReadNow(s, n, read[s].kind, read[s].due, read[s].post, read[s].ids)
  <2>1. [r EXCEPT !.id = n] \in Read
    BY <1>2 DEF Read
  <2> QED
    BY <1>1, <1>2, <1>3, <2>1 DEF ReadNow, Read
<1>4. ASSUME NEW n \in Nat, read' = [read EXCEPT ![s].post = n]
      PROVE  ReadNow(s, read[s].id, read[s].kind, read[s].due, n, read[s].ids)
  <2>1. [r EXCEPT !.post = n] \in Read
    BY <1>2 DEF Read
  <2> QED
    BY <1>1, <1>2, <1>4, <2>1 DEF ReadNow, Read
<1>5. ASSUME NEW k \in {"mail", "room_reply"}, read' = [read EXCEPT ![s].kind = k]
      PROVE  ReadNow(s, read[s].id, k, read[s].due, read[s].post, read[s].ids)
  <2>1. [r EXCEPT !.kind = k] \in Read
    BY <1>2 DEF Read
  <2> QED
    BY <1>1, <1>2, <1>5, <2>1 DEF ReadNow, Read
<1>6. ASSUME NEW d \in Seq(Players), read' = [read EXCEPT ![s].due = d]
      PROVE  ReadNow(s, read[s].id, read[s].kind, d, read[s].post, read[s].ids)
  <2>1. [r EXCEPT !.due = d] \in Read
    BY <1>2 DEF Read
  <2> QED
    BY <1>1, <1>2, <1>6, <2>1 DEF ReadNow, Read
<1>7. ASSUME NEW S \in SUBSET Players, read' = [read EXCEPT ![s].ids = S]
      PROVE  ReadNow(s, read[s].id, read[s].kind, read[s].due, read[s].post, S)
  <2>1. [r EXCEPT !.ids = S] \in Read
    BY <1>2 DEF Read
  <2> QED
    BY <1>1, <1>2, <1>7, <2>1 DEF ReadNow, Read
<1>8. read' = read => ReadNow(s, read[s].id, read[s].kind, read[s].due, read[s].post, read[s].ids)
  BY <1>1 DEF ReadNow
<1> QED
  BY <1>3, <1>4, <1>5, <1>6, <1>7, <1>8
-----------------------------------------------------------------------------
(* The statements of a letter *)

(* On to the next statement of the script. *)
LEMMA NextOwn ==
    ASSUME CallsInv, NEW s \in Sessions, NEW a, At(s, a), Len(todo[s]) # 1,
           Goto(s, Tail(todo[s])), UNCHANGED call,
           NEW id, NEW kind, NEW due, NEW post, NEW ids, ReadNow(s, id, kind, due, post, ids),
           NEW b, b = Tail(todo[s])[1],
           call[s].op \in LetterOps => LetterKnows(s, b)',
           call[s].op \in {"post", "redeliver"} => PostKnows(s, b)'
    PROVE  Own(s)
<1>1. call \in [Sessions -> MailCall]
  BY DEF CallsInv, CallersTyped
<1>2. PICK r : r = Tail(todo[s])
  OBVIOUS
<1>3. r # <<>> /\ Rest(call[s].op, r) /\ Goto(s, r) /\ b = r[1]
  BY <1>2, Here
<1>4. /\ call' \in [Sessions -> MailCall] /\ read' \in [Sessions -> Read]
      /\ \A t \in Sessions \ {s} : call'[t] = call[t] /\ read'[t] = read[t]
  BY <1>1 DEF ReadNow
<1>5. Rest(call'[s].op, r)
  BY <1>3
<1> QED
  BY <1>3, <1>4, <1>5, GotoOwn

(* What a caller knows of its letter, after a step that did not change for *)
(* whom it is due. *)
LEMMA LetterOnward ==
    ASSUME CallsInv, Tables, NEW s \in Sessions, NEW a, At(s, a), call[s].op \in LetterOps,
           UNCHANGED call,
           NEW id, NEW kind, NEW ids, ReadNow(s, id, kind, read[s].due, read[s].post, ids),
           NEW b, b # "message" => call[s].letter \in written',
           b \in {"notify", "memory", "number"} =>
               /\ id \in Ids'
               /\ inbox'[id].letter = call[s].letter /\ inbox'[id].to = read[s].due[1]
    PROVE  LetterKnows(s, b)'
<1>1. Grows /\ Lengths
  BY LengthsTyped DEF Tables
<1>2. LetterKnows(s, a)
  BY Here
<1>3. PICK k, r : k = call[s] /\ r = read'[s]
  OBVIOUS
<1>4. r.id = id /\ r.due = read[s].due /\ r.post = read[s].post
  BY <1>3 DEF ReadNow
<1>5. /\ r.post = 0 /\ r.due # <<>> /\ (k.op = "ask" => Len(r.due) = 1)
      /\ \A i \in 1..Len(r.due) : \E n \in 1..Len(k.to) : r.due[i] = k.to[n]
      /\ \A n \in 1..Len(k.to) : \/ Arrived(k.letter, k.to[n])
                                 \/ \E i \in 1..Len(r.due) : r.due[i] = k.to[n]
  BY <1>2, <1>3, <1>4 DEF LetterKnows
<1>6. \A n \in 1..Len(k.to) : \/ Arrived(k.letter, k.to[n])'
                              \/ \E i \in 1..Len(r.due) : r.due[i] = k.to[n]
  <2> SUFFICES ASSUME NEW n \in 1..Len(k.to)
               PROVE  \/ Arrived(k.letter, k.to[n])'
                      \/ \E i \in 1..Len(r.due) : r.due[i] = k.to[n]
    OBVIOUS
  <2>1. PICK l, p : l = k.letter /\ p = k.to[n]
    OBVIOUS
  <2>2. Arrived(l, p) => Arrived(l, p)'
    BY <1>1, ArrivedStays
  <2> QED
    BY <1>5, <2>1, <2>2
<1>7. k = call'[s] /\ k = call[s]
  BY <1>3
<1>8. b # "message" => k.letter \in written'
  BY <1>7
<1>9. b \in {"notify", "memory", "number"} =>
          r.id \in Ids' /\ inbox'[r.id].letter = k.letter /\ inbox'[r.id].to = r.due[1]
  BY <1>4, <1>7
<1> QED
  BY <1>3, <1>5, <1>6, <1>7, <1>8, <1>9 DEF LetterKnows

LEMMA WriteMessageKeeps ==
    ASSUME CallsInv, NEW s \in Sessions, WriteMessage(s)
    PROVE  CallsInv' /\ Grows
<1>1. At(s, "message")
  BY DEF WriteMessage
<1>2. /\ call[s].op \in LetterOps /\ Len(todo[s]) # 1 /\ Tail(todo[s])[1] = "source"
      /\ call[s].letter \in Letters
  BY <1>1, Here, CallTyped DEF Leads
<1>3. Goto(s, Tail(todo[s])) /\ UNCHANGED <<call, read>>
  BY <1>2 DEF WriteMessage, Advance
<1>4. /\ written' = written \cup {call[s].letter}
      /\ UNCHANGED <<inbox, notices, remembered, answered, roomEnabled, lists>>
  BY DEF WriteMessage
<1>5. Tables
  BY <1>2, <1>4, SameInbox, TablesNow
<1>6. ReadNow(s, read[s].id, read[s].kind, read[s].due, read[s].post, read[s].ids)
  BY <1>3, ReadOneField
<1>7. LetterKnows(s, "source")'
  BY <1>1, <1>2, <1>3, <1>4, <1>5, <1>6, LetterOnward
<1>8. call[s].op \notin {"post", "redeliver"}
  BY <1>2 DEF LetterOps
<1>9. Own(s)
  BY <1>1, <1>2, <1>3, <1>6, <1>7, <1>8, NextOwn
<1> QED
  BY <1>5, <1>9, CallerStepKeeps

LEMMA ReadSourceKeeps ==
    ASSUME CallsInv, NEW s \in Sessions, ReadSource(s)
    PROVE  CallsInv' /\ Grows
<1>1. At(s, "source")
  BY DEF ReadSource
<1>2. /\ call[s].op \in LetterOps /\ Len(todo[s]) # 1 /\ Tail(todo[s])[1] = "draw"
      /\ LetterKnows(s, "source")
  BY <1>1, Here DEF Leads
<1>3. PICK k \in {"mail", "room_reply"} : read' = [read EXCEPT ![s].kind = k]
  BY DEF ReadSource
<1>4. Goto(s, Tail(todo[s])) /\ UNCHANGED call
      /\ UNCHANGED <<inbox, notices, mails, roomEnabled, lists>>
  BY DEF ReadSource
<1>5. Tables
  BY <1>4, SameTables
<1>6. ReadNow(s, read[s].id, k, read[s].due, read[s].post, read[s].ids)
  BY <1>3, ReadOneField
<1>7. call[s].letter \in written'
  BY <1>2, <1>4 DEF LetterKnows, mails
<1>8. LetterKnows(s, "draw")'
  BY <1>1, <1>2, <1>4, <1>5, <1>6, <1>7, LetterOnward
<1>9. call[s].op \notin {"post", "redeliver"}
  BY <1>2 DEF LetterOps
<1>10. Own(s)
  BY <1>1, <1>2, <1>4, <1>6, <1>8, <1>9, NextOwn
<1> QED
  BY <1>5, <1>10, CallerStepKeeps
-----------------------------------------------------------------------------
(* What a caller knows of its post, after a step that did not change for   *)
(* whom it is due. *)
LEMMA PostOnward ==
    ASSUME CallsInv, Tables, NEW s \in Sessions, NEW a \in {"draw", "item", "notify"}, At(s, a),
           call[s].op \in {"post", "redeliver"},
           NEW id, NEW kind, NEW ids, ReadNow(s, id, kind, read[s].due, read[s].post, ids),
           NEW b \in {"item", "notify", "link"},
           b # "item" => /\ id \in Ids' /\ inbox'[id].kind = "post"
                         /\ inbox'[id].source = <<read[s].post>>
                         /\ inbox'[id].to = read[s].due[1]
    PROVE  PostKnows(s, b)'
<1>1. Grows /\ Lengths
  BY LengthsTyped DEF Tables
<1>2. PostKnows(s, a)
  BY Here
<1>3. PICK r : r = read'[s]
  OBVIOUS
<1>4. r.id = id /\ r.due = read[s].due /\ r.post = read[s].post
  BY <1>3 DEF ReadNow
<1>5. /\ r.post \in 1..Len(deliveries) /\ r.due # <<>>
      /\ \A i \in 1..Len(r.due) : r.due[i] \in DOMAIN deliveries[r.post]
      /\ \A p \in DOMAIN deliveries[r.post] :
             \/ deliveries[r.post][p] # 0
             \/ \E i \in 1..Len(r.due) : r.due[i] = p
  BY <1>2, <1>4 DEF PostKnows
<1>6. /\ r.post \in 1..Len(deliveries')
      /\ DOMAIN deliveries'[r.post] = DOMAIN deliveries[r.post]
      /\ \A p \in DOMAIN deliveries[r.post] :
             deliveries[r.post][p] # 0 => deliveries'[r.post][p] # 0
  BY <1>1, <1>5 DEF Grows, Lengths
<1>7. \A p \in DOMAIN deliveries'[r.post] :
             \/ deliveries'[r.post][p] # 0
             \/ \E i \in 1..Len(r.due) : r.due[i] = p
  BY <1>5, <1>6
<1>8. \A i \in 1..Len(r.due) : r.due[i] \in DOMAIN deliveries'[r.post]
  BY <1>5, <1>6
<1>9. b # "item" => /\ r.id \in Ids' /\ inbox'[r.id].kind = "post"
                    /\ inbox'[r.id].source = <<r.post>> /\ inbox'[r.id].to = r.due[1]
  BY <1>4
<1> QED
  BY <1>3, <1>5, <1>6, <1>7, <1>8, <1>9 DEF PostKnows

LEMMA NotifyInboxKeeps ==
    ASSUME CallsInv, NEW s \in Sessions, NotifyInbox(s)
    PROVE  CallsInv' /\ Grows
<1>1. At(s, "notify")
  BY DEF NotifyInbox
<1>2. /\ call[s].op \in LetterOps \cup {"post", "redeliver"} /\ Len(todo[s]) # 1
      /\ Tail(todo[s])[1] = (IF call[s].op \in LetterOps THEN "memory" ELSE "link")
      /\ call[s].op \in LetterOps => LetterKnows(s, "notify")
      /\ call[s].op \in {"post", "redeliver"} => PostKnows(s, "notify")
      /\ read[s].id \in Nat
  BY <1>1, Here DEF Leads, Read
<1>3. /\ Goto(s, Tail(todo[s])) /\ UNCHANGED <<call, read>>
      /\ UNCHANGED <<inbox, mails, roomEnabled, lists>> /\ SendNotice(read[s].id)
  BY DEF NotifyInbox
<1>4. notices' \in Seq(Nat)
  BY <1>2, <1>3, TablesNow DEF SendNotice
<1>5. Tables
  <2>1. /\ written' = written /\ remembered' = remembered /\ answered' = answered
    BY <1>3 DEF mails
  <2> QED
    BY <1>3, <1>4, <2>1, SameInbox, TablesNow
<1>6. ReadNow(s, read[s].id, read[s].kind, read[s].due, read[s].post, read[s].ids)
  BY <1>3, ReadOneField
<1>7. ASSUME call[s].op \in LetterOps
      PROVE  LetterKnows(s, "memory")'
  <2>1. /\ call[s].letter \in written' /\ read[s].id \in Ids'
        /\ inbox'[read[s].id].letter = call[s].letter /\ inbox'[read[s].id].to = read[s].due[1]
    BY <1>2, <1>3, <1>7 DEF LetterKnows, mails, Ids
  <2> QED
    BY <1>1, <1>3, <1>5, <1>6, <1>7, <2>1, LetterOnward
<1>8. ASSUME call[s].op \in {"post", "redeliver"}
      PROVE  PostKnows(s, "link")'
  <2>1. /\ read[s].id \in Ids' /\ inbox'[read[s].id].kind = "post"
        /\ inbox'[read[s].id].source = <<read[s].post>>
        /\ inbox'[read[s].id].to = read[s].due[1]
    BY <1>2, <1>3, <1>8 DEF PostKnows, Ids
  <2> QED
    BY <1>1, <1>5, <1>6, <1>8, <2>1, PostOnward
<1>9. PICK b : b = Tail(todo[s])[1]
  OBVIOUS
<1>10. /\ call[s].op \in LetterOps => b = "memory" /\ call[s].op \notin {"post", "redeliver"}
       /\ call[s].op \notin LetterOps => b = "link"
  BY <1>2, <1>9 DEF LetterOps
<1>11. /\ call[s].op \in LetterOps => LetterKnows(s, b)'
       /\ call[s].op \in {"post", "redeliver"} => PostKnows(s, b)'
  BY <1>7, <1>8, <1>10
<1>12. Own(s)
  BY <1>1, <1>2, <1>3, <1>6, <1>9, <1>11, NextOwn
<1> QED
  BY <1>5, <1>12, CallerStepKeeps

LEMMA DrawnTyped == /\ Drawn \in Item /\ Drawn.kind = "mail" /\ Drawn.letter = None
                    /\ Drawn.to = None
<1>1. <<>> \in Seq(Nat)
  OBVIOUS
<1>2. PICK e : e = <<>> /\ e \in Seq(Nat)
  BY <1>1
<1>3. Drawn = [to |-> None, from |-> None, letter |-> None, source |-> e, kind |-> "mail",
               status |-> "unread"]
  BY <1>2 DEF Drawn, NewItem
<1> QED
  BY <1>2, <1>3 DEF Item, Open, Finished

LEMMA DrawItemIdKeeps ==
    ASSUME CallsInv, NEW s \in Sessions, DrawItemId(s)
    PROVE  /\ CallsInv' /\ Grows
           /\ Len(inbox) + 1 \in Ids' /\ inbox'[Len(inbox) + 1].to = None
<1>1. At(s, "draw")
  BY DEF DrawItemId
<1>2. /\ call[s].op \in LetterOps \cup {"post", "redeliver"} /\ Len(todo[s]) # 1
      /\ Tail(todo[s])[1] = "item"
      /\ call[s].op \in LetterOps => LetterKnows(s, "draw")
  BY <1>1, Here DEF Leads
<1>3. /\ Goto(s, Tail(todo[s])) /\ UNCHANGED call
      /\ UNCHANGED <<notices, mails, roomEnabled, lists>>
      /\ Len(inbox) < MaxItems /\ inbox' = Append(inbox, Drawn)
      /\ read' = [read EXCEPT ![s].id = Len(inbox) + 1]
  BY DEF DrawItemId, DrawId
<1>4. PICK id \in Nat : id = Len(inbox) + 1
  BY TablesNow
<1>5. ReadNow(s, id, read[s].kind, read[s].due, read[s].post, read[s].ids)
  BY <1>3, <1>4, ReadOneField
<1>6. PICK item : item = Drawn
  OBVIOUS
<1>7. /\ item \in Item /\ item.kind # "post" /\ item.kind # "room_command"
      /\ item.letter = None /\ item.to = None
  BY <1>6, DrawnTyped
<1>8. Tables /\ id \in Ids' /\ inbox'[id] = item
  BY <1>3, <1>4, <1>6, <1>7, Appended
<1>9. ASSUME call[s].op \in LetterOps
      PROVE  LetterKnows(s, "item")'
  <2>1. call[s].letter \in written'
    BY <1>2, <1>3, <1>9 DEF LetterKnows, mails
  <2>2. PICK b : b = "item"
    OBVIOUS
  <2>3. /\ b # "message" => call[s].letter \in written'
        /\ b \in {"notify", "memory", "number"} =>
               /\ id \in Ids'
               /\ inbox'[id].letter = call[s].letter /\ inbox'[id].to = read[s].due[1]
    BY <2>1, <2>2
  <2>4. UNCHANGED call
    BY <1>3
  <2>5. LetterKnows(s, b)'
    BY <1>1, <1>5, <1>8, <1>9, <2>3, <2>4, LetterOnward
  <2> QED
    BY <2>2, <2>5
<1>10. ASSUME call[s].op \in {"post", "redeliver"}
       PROVE  PostKnows(s, "item")'
  BY <1>1, <1>5, <1>8, <1>10, PostOnward
<1>11. Own(s)
  BY <1>1, <1>2, <1>3, <1>5, <1>9, <1>10, NextOwn
<1> QED
  BY <1>4, <1>7, <1>8, <1>11, CallerStepKeeps

LEMMA CreateInboxItemKeeps ==
    ASSUME CallsInv, DrawsInv, NEW s \in Sessions, CreateInboxItem(s)
    PROVE  /\ CallsInv' /\ Grows
           /\ Ids' = Ids /\ \A i \in Ids : i # read[s].id => inbox'[i] = inbox[i]
<1>1. At(s, "item")
  BY DEF CreateInboxItem
<1>2. /\ call[s].op \in LetterOps \cup {"post", "redeliver"} /\ Len(todo[s]) # 1
      /\ Tail(todo[s])[1] = "notify" /\ read[s] \in Read
      /\ call[s].op \in LetterOps => LetterKnows(s, "item")
      /\ call[s].op \in {"post", "redeliver"} => PostKnows(s, "item")
      /\ call[s] \in MailCall
  BY <1>1, Here DEF Leads
<1>0. PICK item : item = ItemFor(s)
  OBVIOUS
<1>3. PICK id, d : /\ d = read[s].id /\ id \in Ids /\ InsertItem(item, d, id)
                   /\ read' = [read EXCEPT ![s].id = id]
  BY <1>0 DEF CreateInboxItem
<1>3a. d \in Ids /\ inbox[d].to = None
  BY <1>1, <1>3 DEF DrawsInv, Holds
<1>4. /\ Goto(s, Tail(todo[s])) /\ UNCHANGED call
      /\ UNCHANGED <<notices, mails, roomEnabled, lists>>
  BY DEF CreateInboxItem
<1>5. id \in Nat
  BY <1>3, TablesNow DEF Ids
<1>6. ReadNow(s, id, read[s].kind, read[s].due, read[s].post, read[s].ids)
  BY <1>3, <1>5, ReadOneField
<1>7. CASE call[s].op \in LetterOps
  <2>1. /\ read[s].post = 0 /\ read[s].due # <<>> /\ call[s].letter \in written
    BY <1>2, <1>7 DEF LetterKnows
  <2>2. /\ call[s].by \in Players /\ call[s].letter \in Letters /\ call[s].letter # None
        /\ read[s].due \in Seq(Players) /\ read[s].kind \in {"mail", "room_reply"}
    BY <1>2, <1>7, CallTyped DEF Read
  <2>3. Head(read[s].due) \in Players /\ Head(read[s].due) = read[s].due[1]
    BY <2>1, <2>2
  <2>3a. read[s].due[1] # None
    BY <2>3, MailCallsAssumption DEF MailCallsAssumption
  <2>4. item = NewItem(call[s].by, Head(read[s].due), call[s].letter, read[s].kind, <<>>)
    BY <1>0, <2>1 DEF ItemFor
  <2>5. <<>> \in Seq(Nat)
    OBVIOUS
  <2>6. /\ item \in Item /\ item.to = read[s].due[1] /\ item.letter = call[s].letter
        /\ item.kind \in {"mail", "room_reply"} /\ item.source = <<>>
    <3>1. PICK from, to, letter, kind : /\ from = call[s].by /\ to = read[s].due[1]
                                        /\ letter = call[s].letter /\ kind = read[s].kind
      OBVIOUS
    <3>2. /\ from \in Players /\ to \in Players /\ letter \in Letters \cup {None}
          /\ kind \in {"mail", "room_reply", "post"} /\ kind \in {"mail", "room_reply"}
      BY <2>2, <2>3, <3>1
    <3>3. item = NewItem(from, to, letter, kind, <<>>)
      BY <2>3, <2>4, <3>1
    <3> QED
      <4>1. item \in Item /\ item.to = to /\ item.letter = letter /\ item.kind = kind
            /\ item.source = <<>>
        BY <2>5, <3>2, <3>3 DEF NewItem, Item, Open, Finished
      <4> QED
        BY <3>1, <3>2, <4>1
  <2>7. Existing(item) = {}
    BY <2>6 DEF Existing
  <2>8. id = d /\ inbox' = [inbox EXCEPT ![d] = item]
    BY <1>3, <2>7 DEF InsertItem
  <2>9. item.kind # "post" /\ item.kind # "room_command"
    BY <2>6
  <2>10. /\ Tables /\ id \in Ids' /\ inbox'[id] = item /\ Ids' = Ids
         /\ \A i \in Ids : i # d => inbox'[i] = inbox[i]
    <3>1. item.letter \in written /\ item.to # None
      BY <2>1, <2>3a, <2>6
    <3> QED
      BY <1>3, <1>3a, <1>4, <2>6, <2>8, <2>9, <3>1, Filled
  <2>11. call[s].letter \in written'
    BY <1>4, <2>1 DEF mails
  <2>12. inbox'[id].letter = call[s].letter /\ inbox'[id].to = read[s].due[1]
    BY <2>6, <2>10
  <2>13. LetterKnows(s, "notify")'
    BY <1>1, <1>4, <1>6, <1>7, <2>10, <2>11, <2>12, LetterOnward
  <2>14. call[s].op \notin {"post", "redeliver"}
    BY <1>7 DEF LetterOps
  <2>15. Own(s)
    BY <1>1, <1>2, <1>4, <1>6, <2>13, <2>14, NextOwn
  <2> QED
    BY <1>3, <2>10, <2>15, CallerStepKeeps
<1>8. CASE call[s].op \in {"post", "redeliver"}
  <2>1. read[s].post \in 1..Len(deliveries) /\ read[s].due # <<>>
    BY <1>2, <1>8 DEF PostKnows
  <2>2. call[s].by \in Players /\ read[s].due \in Seq(Players)
    BY <1>2, CallTyped DEF Read
  <2>3. Head(read[s].due) \in Players /\ Head(read[s].due) = read[s].due[1]
    BY <2>1, <2>2
  <2>3a. read[s].due[1] # None
    BY <2>3, MailCallsAssumption DEF MailCallsAssumption
  <2>4. read[s].post # 0 /\ read[s].post \in Nat
    BY <2>1, TablesNow
  <2>5. item = NewItem(call[s].by, Head(read[s].due), None, "post", <<read[s].post>>)
    BY <1>0, <2>4 DEF ItemFor
  <2>6. <<read[s].post>> \in Seq(Nat) /\ <<read[s].post>> # <<>>
    BY <2>4
  <2>7. /\ item \in Item /\ item.to = read[s].due[1] /\ item.letter = None
        /\ item.kind = "post" /\ item.source = <<read[s].post>>
    <3>1. PICK from, to, letter, kind, source :
              /\ from = call[s].by /\ to = read[s].due[1] /\ letter = None /\ kind = "post"
              /\ source = <<read[s].post>>
      OBVIOUS
    <3>2. /\ from \in Players /\ to \in Players /\ letter \in Letters \cup {None}
          /\ kind \in {"mail", "room_reply", "post"} /\ source \in Seq(Nat)
      BY <2>2, <2>3, <2>6, <3>1
    <3>3. item = NewItem(from, to, letter, kind, source)
      BY <2>3, <2>5, <3>1
    <3> QED
      <4>1. item \in Item /\ item.to = to /\ item.letter = letter /\ item.kind = kind
            /\ item.source = source
        BY <3>2, <3>3 DEF NewItem, Item, Open, Finished
      <4> QED
        BY <3>1, <4>1
  <2>8. Existing(item) = {i \in Ids : /\ inbox[i].kind = "post" /\ inbox[i].source = item.source
                                      /\ inbox[i].to = item.to}
    BY <2>6, <2>7 DEF Existing
  <2>9. Tables /\ id \in Ids' /\ inbox'[id].kind = "post"
        /\ inbox'[id].source = <<read[s].post>> /\ inbox'[id].to = read[s].due[1]
        /\ Ids' = Ids /\ \A i \in Ids : i # d => inbox'[i] = inbox[i]
    <3>1. CASE Existing(item) # {}
      <4>1. id \in Existing(item) /\ UNCHANGED inbox
        BY <1>3, <3>1 DEF InsertItem
      <4>2. Tables
        BY <1>4, <4>1, SameTables
      <4> QED
        BY <2>7, <2>8, <4>1, <4>2 DEF Ids
    <3>2. CASE Existing(item) = {}
      <4>1. id = d /\ inbox' = [inbox EXCEPT ![d] = item]
        BY <1>3, <3>2 DEF InsertItem
      <4>2. \A i \in Ids : ~ (/\ inbox[i].kind = "post" /\ inbox[i].source = item.source
                              /\ inbox[i].to = item.to)
        BY <2>8, <3>2
      <4>3. item.kind # "room_command" /\ item.to # None
        BY <2>3a, <2>7
      <4>3a. /\ item.kind = "post" => item.letter = None
             /\ item.letter # None => item.letter \in written
             /\ item.kind = "post" => \A i \in Ids : ~ (/\ inbox[i].kind = "post"
                                                         /\ inbox[i].source = item.source
                                                         /\ inbox[i].to = item.to)
        BY <2>7, <4>2
      <4>3b. item \in Item /\ d \in Ids /\ inbox[d].to = None
        BY <1>3, <1>3a, <1>4, <2>7
      <4>3c. UNCHANGED <<notices, mails, roomEnabled, lists>>
        BY <1>3, <1>4
      <4>4. /\ Tables /\ id \in Ids' /\ inbox'[id] = item /\ Ids' = Ids
            /\ \A i \in Ids : i # d => inbox'[i] = inbox[i]
        BY <4>1, <4>3, <4>3a, <4>3b, <4>3c, Filled
      <4> QED
        BY <2>7, <4>4
    <3> QED
      BY <3>1, <3>2
  <2>10. PostKnows(s, "notify")'
    BY <1>1, <1>6, <1>8, <2>9, PostOnward
  <2>11. call[s].op \notin LetterOps
    BY <1>8 DEF LetterOps
  <2>12. Own(s)
    BY <1>1, <1>2, <1>4, <1>6, <2>10, <2>11, NextOwn
  <2> QED
    BY <1>3, <2>9, <2>12, CallerStepKeeps
<1> QED
  BY <1>2, <1>7, <1>8
-----------------------------------------------------------------------------
(* The letter of a caller past its notification is in the inbox of the     *)
(* first of those it is due to, so once it is due to one alone everybody   *)
(* has it.                                                                 *)
LEMMA DueArrived ==
    ASSUME CallsInv, NEW s \in Sessions, NEW a \in {"memory", "number"}, At(s, a)
    PROVE  /\ call[s].op \in LetterOps /\ call[s].letter \in Letters
           /\ read[s].due \in Seq(Players) /\ Len(read[s].due) \in Nat \ {0}
           /\ call[s].op = "ask" => Len(read[s].due) = 1
           /\ Arrived(call[s].letter, read[s].due[1])
           /\ \A i \in 1..Len(read[s].due) : \E n \in 1..Len(call[s].to) :
                  read[s].due[i] = call[s].to[n]
           /\ \A n \in 1..Len(call[s].to) :
                  \/ Arrived(call[s].letter, call[s].to[n])
                  \/ \E i \in 2..Len(read[s].due) : read[s].due[i] = call[s].to[n]
           /\ read[s].id \in Ids /\ inbox[read[s].id].letter = call[s].letter
           /\ inbox[read[s].id].to = read[s].due[1] /\ call[s].letter \in written
           /\ read[s].post = 0
<1>1. /\ call[s].op \in LetterOps /\ LetterKnows(s, a) /\ call[s] \in MailCall
      /\ read[s] \in Read
  BY Here DEF Leads
<1>2. PICK k, r : k = call[s] /\ r = read[s]
  OBVIOUS
<1>3. /\ r.post = 0 /\ r.due # <<>> /\ (k.op = "ask" => Len(r.due) = 1)
      /\ \A i \in 1..Len(r.due) : \E n \in 1..Len(k.to) : r.due[i] = k.to[n]
      /\ \A n \in 1..Len(k.to) : \/ Arrived(k.letter, k.to[n])
                                 \/ \E i \in 1..Len(r.due) : r.due[i] = k.to[n]
      /\ k.letter \in written
      /\ r.id \in Ids /\ inbox[r.id].letter = k.letter /\ inbox[r.id].to = r.due[1]
  BY <1>1, <1>2 DEF LetterKnows
<1>4. r.due \in Seq(Players)
  BY <1>1, <1>2 DEF Read
<1>5. Len(r.due) \in Nat \ {0}
  BY <1>3, <1>4
<1>6. Arrived(k.letter, r.due[1])
  <2>1. r.due[1] \in Players
    BY <1>4, <1>5
  <2>2. r.due[1] # None
    BY <2>1, MailCallsAssumption DEF MailCallsAssumption
  <2> QED
    BY <1>3, <2>2 DEF Arrived
<1>7. \A n \in 1..Len(k.to) : \/ Arrived(k.letter, k.to[n])
                              \/ \E i \in 2..Len(r.due) : r.due[i] = k.to[n]
  <2> SUFFICES ASSUME NEW n \in 1..Len(k.to), ~ Arrived(k.letter, k.to[n])
               PROVE  \E i \in 2..Len(r.due) : r.due[i] = k.to[n]
    OBVIOUS
  <2>1. PICK i \in 1..Len(r.due) : r.due[i] = k.to[n]
    BY <1>3
  <2>2. i # 1
    BY <1>6, <2>1
  <2> QED
    BY <1>5, <2>1, <2>2
<1>8. k.letter \in Letters
  BY <1>1, <1>2, CallTyped
<1> QED
  BY <1>1, <1>2, <1>3, <1>4, <1>5, <1>6, <1>7, <1>8

LEMMA LastAnswers ==
    ASSUME CallsInv, NEW s \in Sessions, NEW a \in {"memory", "number"}, At(s, a),
           Len(read[s].due) = 1
    PROVE  Answers(<<call[s].letter, call[s].to>>)
<1>1. \A n \in 1..Len(call[s].to) : Arrived(call[s].letter, call[s].to[n])
  <2> SUFFICES ASSUME NEW n \in 1..Len(call[s].to)
               PROVE  Arrived(call[s].letter, call[s].to[n])
    OBVIOUS
  <2>1. PICK p, d : p = call[s].to[n] /\ d = read[s].due
    OBVIOUS
  <2>2. Arrived(call[s].letter, p) \/ \E i \in 2..Len(d) : d[i] = p
    BY <2>1, DueArrived
  <2>3. Len(d) = 1
    BY <2>1
  <2> QED
    BY <2>1, <2>2, <2>3
<1> QED
  BY <1>1 DEF Answers

LEMMA RecordMemoryKeeps ==
    ASSUME CallsInv, NEW s \in Sessions, RecordMemory(s)
    PROVE  CallsInv' /\ Grows
<1>1. At(s, "memory")
  BY DEF RecordMemory
<1>2. PICK left, due : left = Tail(due) /\ due = read[s].due
  OBVIOUS
<1>3. /\ due \in Seq(Players) /\ Len(due) \in Nat \ {0}
      /\ call[s].op = "ask" => Len(due) = 1
  BY <1>1, <1>2, DueArrived
<1>4. /\ left \in Seq(Players) /\ Len(left) = Len(due) - 1
      /\ \A i \in 1..Len(left) : left[i] = due[i + 1]
      /\ left = <<>> <=> Len(due) = 1
  <2>1. due # <<>>
    BY <1>3
  <2>2. left \in Seq(Players) /\ Len(left) = Len(due) - 1
    BY <1>2, <1>3, <2>1
  <2>3. \A i \in 1..Len(left) : left[i] = due[i + 1]
    BY <1>2, <1>3, <2>1
  <2>4. left = <<>> => Len(left) = 0
    OBVIOUS
  <2>5. Len(left) = 0 => left = <<>>
    BY <2>2
  <2> QED
    BY <1>3, <2>2, <2>3, <2>4, <2>5
<1>5. /\ remembered' = remembered \cup {call[s].letter}
      /\ answered' = IF left = <<>> /\ call[s].op # "ask"
                       THEN answered \cup {<<call[s].letter, call[s].to>>} ELSE answered
      /\ UNCHANGED <<inbox, notices, written, roomEnabled, lists>>
  BY <1>2 DEF RecordMemory
<1>6. /\ left # <<>> => /\ Goto(s, OneLetter) /\ read' = [read EXCEPT ![s].due = left]
                        /\ UNCHANGED call
      /\ left = <<>> => Advance(s)
  BY <1>2 DEF RecordMemory
<1>7. Tables
  <2>1. \A x \in answered' \ answered : Answers(x)
    <3>1. CASE left = <<>> /\ call[s].op # "ask"
      BY <1>1, <1>2, <1>4, <1>5, <3>1, LastAnswers
    <3>2. CASE ~ (left = <<>> /\ call[s].op # "ask")
      BY <1>5, <3>2
    <3> QED
      BY <3>1, <3>2
  <2>2. remembered' \subseteq Letters
    BY <1>1, <1>5, DueArrived, TablesNow
  <2> QED
    BY <1>5, <2>1, <2>2, SameInbox, TablesNow
<1>8. CASE left # <<>>
  <2>1. call[s].op \in {"mail", "reply"} /\ call[s].op # "ask"
    BY <1>1, <1>3, <1>4, <1>8, DueArrived DEF LetterOps
  <2>2. ReadNow(s, read[s].id, read[s].kind, left, read[s].post, read[s].ids)
    BY <1>4, <1>6, <1>8, ReadOneField
  <2>3. LetterKnows(s, "message")'
    <3>1. PICK k, r : k = call[s] /\ r = read'[s]
      OBVIOUS
    <3>2. r.due = left /\ r.post = 0
      BY <1>1, <2>2, <3>1, DueArrived DEF ReadNow
    <3>3. \A i \in 1..Len(left) : \E n \in 1..Len(k.to) : left[i] = k.to[n]
      <4> SUFFICES ASSUME NEW i \in 1..Len(left)
                   PROVE  \E n \in 1..Len(k.to) : left[i] = k.to[n]
        OBVIOUS
      <4>1. i + 1 \in 1..Len(due) /\ left[i] = due[i + 1]
        BY <1>3, <1>4
      <4> QED
        BY <1>1, <1>2, <3>1, <4>1, DueArrived
    <3>4. \A n \in 1..Len(k.to) : \/ Arrived(k.letter, k.to[n])'
                                  \/ \E i \in 1..Len(left) : left[i] = k.to[n]
      <4> SUFFICES ASSUME NEW n \in 1..Len(k.to)
                   PROVE  \/ Arrived(k.letter, k.to[n])'
                          \/ \E i \in 1..Len(left) : left[i] = k.to[n]
        OBVIOUS
      <4>1. PICK l, p : l = k.letter /\ p = k.to[n]
        OBVIOUS
      <4>2. Arrived(l, p) => Arrived(l, p)'
        BY <1>5 DEF Arrived, Ids
      <4>3. Arrived(l, p) \/ \E i \in 2..Len(due) : due[i] = p
        BY <1>1, <1>2, <3>1, <4>1, DueArrived
      <4>4. ASSUME NEW i \in 2..Len(due), due[i] = p
            PROVE  \E j \in 1..Len(left) : left[j] = p
        <5>1. i - 1 \in 1..Len(left) /\ left[i - 1] = due[i]
          BY <1>3, <1>4
        <5> QED
          BY <4>4, <5>1
      <4> QED
        BY <4>1, <4>2, <4>3, <4>4
    <3>5. k = call'[s] /\ k.op # "ask"
      BY <1>6, <1>8, <2>1, <3>1
    <3>6. r.due # <<>> /\ \A i \in 1..Len(r.due) : \E n \in 1..Len(k.to) : r.due[i] = k.to[n]
      BY <1>8, <3>2, <3>3
    <3>7. \A n \in 1..Len(k.to) : \/ Arrived(k.letter, k.to[n])'
                                  \/ \E i \in 1..Len(r.due) : r.due[i] = k.to[n]
      BY <3>2, <3>4
    <3> QED
      BY <3>1, <3>2, <3>5, <3>6, <3>7 DEF LetterKnows
  <2>4. PICK r : r = OneLetter
    OBVIOUS
  <2>5. r # <<>> /\ r[1] = "message"
    BY <2>4 DEF OneLetter
  <2>6. Rest(call'[s].op, r)
    BY <1>6, <1>8, <2>1, <2>4 DEF Rest, LetterRests, OneLetter
  <2>7. call'[s].op \notin {"post", "redeliver"}
    BY <1>6, <1>8, <2>1
  <2>8. /\ call' \in [Sessions -> MailCall] /\ read' \in [Sessions -> Read]
        /\ \A t \in Sessions \ {s} : call'[t] = call[t] /\ read'[t] = read[t]
    BY <1>6, <1>8, <2>2 DEF ReadNow, CallsInv, CallersTyped
  <2>9. Own(s)
    BY <1>6, <1>8, <2>3, <2>4, <2>5, <2>6, <2>7, <2>8, GotoOwn
  <2> QED
    BY <1>7, <2>9, CallerStepKeeps
<1>9. CASE left = <<>> /\ call[s].op = "ask"
  <2>1. Len(todo[s]) # 1 /\ Tail(todo[s])[1] = "number"
    BY <1>1, <1>9, Here DEF Leads
  <2>2. Goto(s, Tail(todo[s])) /\ UNCHANGED <<call, read>>
    BY <1>6, <1>9, <2>1 DEF Advance
  <2>3. ReadNow(s, read[s].id, read[s].kind, read[s].due, read[s].post, read[s].ids)
    BY <2>2, ReadOneField
  <2>4. /\ call[s].letter \in written' /\ read[s].id \in Ids'
        /\ inbox'[read[s].id].letter = call[s].letter /\ inbox'[read[s].id].to = read[s].due[1]
    BY <1>1, <1>5, DueArrived DEF Ids
  <2>5. LetterKnows(s, "number")'
    BY <1>1, <1>7, <2>2, <2>3, <2>4, DueArrived, LetterOnward
  <2>6. Own(s)
    BY <1>1, <1>9, <2>1, <2>2, <2>3, <2>5, NextOwn
  <2> QED
    BY <1>7, <2>6, CallerStepKeeps
<1>10. CASE left = <<>> /\ call[s].op # "ask"
  <2>1. Len(todo[s]) = 1
    BY <1>1, <1>10, Here DEF Leads
  <2>2. EndCall(s)
    BY <1>6, <1>10, <2>1 DEF Advance
  <2> QED
    BY <1>7, <2>2, EndOwn, CallerStepKeeps
<1> QED
  BY <1>8, <1>9, <1>10

LEMMA NumberRequestKeeps ==
    ASSUME CallsInv, NEW s \in Sessions, NumberRequest(s)
    PROVE  /\ CallsInv' /\ Grows
           /\ Len(inbox') = Len(inbox) /\ \A i \in Ids : inbox'[i].to = inbox[i].to
<1>1. At(s, "number")
  BY DEF NumberRequest, NumberWith
<1>2. PICK id : id = read[s].id
  OBVIOUS
<1>3. /\ inbox' = [inbox EXCEPT ![id].kind = "room_command", ![id].source = <<id>>]
      /\ answered' = answered \cup {<<call[s].letter, call[s].to>>}
      /\ EndCall(s)
      /\ UNCHANGED <<notices, written, remembered, roomEnabled, lists>>
  BY <1>2 DEF NumberRequest, NumberWith
<1>4. call[s].op = "ask" /\ call[s] \in MailCall
  BY <1>1, Here DEF Leads
<1>5. /\ id \in Ids /\ inbox[id].letter \in Letters /\ Len(read[s].due) = 1
      /\ inbox[id].to = read[s].due[1]
  BY <1>1, <1>2, <1>4, DueArrived
<1>6. inbox[id].to = RoomPlayer
  <2>1. call[s].to = <<RoomPlayer>>
    BY <1>4, CallTyped
  <2>2. PICK n \in 1..Len(call[s].to) : read[s].due[1] = call[s].to[n]
    BY <1>1, <1>5, DueArrived
  <2>3. Len(call[s].to) = 1 /\ call[s].to[1] = RoomPlayer
    BY <2>1
  <2>4. n = 1
    BY <2>2, <2>3
  <2> QED
    BY <1>5, <2>2, <2>3, <2>4
<1>7. inbox[id].kind # "post" /\ inbox[id].to # None
  BY <1>5, <1>6, TablesNow, MailCallsAssumption DEF MailCallsAssumption
<1>8. inbox \in Seq(Item) /\ Len(inbox) \in Nat
  BY TablesNow
<1>9. PICK old, new : /\ old = inbox[id]
                      /\ new = [old EXCEPT !.kind = "room_command", !.source = <<id>>]
  OBVIOUS
<1>10. inbox' = [inbox EXCEPT ![id] = new]
  BY <1>3, <1>5, <1>8, <1>9 DEF Ids
<1>11. old \in Item /\ id \in Nat
  BY <1>5, <1>8, <1>9 DEF Ids
<1>12. /\ new \in Item /\ new.to = old.to /\ new.letter = old.letter /\ new.kind = "room_command"
       /\ new.source = <<id>> /\ new.status = old.status
  <2>0. <<id>> \in Seq(Nat)
    BY <1>11
  <2>1. PICK src : src = <<id>> /\ src \in Seq(Nat)
    BY <2>0
  <2>2. new = [old EXCEPT !.kind = "room_command", !.source = src]
    BY <1>9, <2>1
  <2> QED
    BY <1>11, <2>1, <2>2 DEF Item
<1>13. /\ inbox' \in Seq(Item) /\ Len(inbox') = Len(inbox) /\ inbox'[id] = new
       /\ \A i \in Ids : i # id => inbox'[i] = inbox[i]
  BY <1>5, <1>8, <1>10, <1>12 DEF Ids
<1>14. \A i \in Ids : /\ inbox'[i].to = inbox[i].to
                      /\ inbox[i].to = None => inbox'[i] = inbox[i]
                      /\ inbox'[i].letter = inbox[i].letter
                      /\ \/ inbox'[i].kind = inbox[i].kind /\ inbox'[i].source = inbox[i].source
                         \/ /\ inbox[i].kind # "post" /\ inbox'[i].kind = "room_command"
                            /\ inbox'[i].source = <<i>> /\ inbox[i].to = RoomPlayer
                      /\ inbox[i].status \in Finished => inbox'[i].status \in Finished
  BY <1>6, <1>7, <1>9, <1>12, <1>13
<1>15. \A x \in answered' \ answered : Answers(x)
  BY <1>1, <1>3, <1>5, LastAnswers
<1>16. Tables
  BY <1>3, <1>13, <1>14, <1>15, Touched
<1> QED
  BY <1>3, <1>13, <1>14, <1>16, EndOwn, CallerStepKeeps

LEMMA BeginCallKeeps ==
    ASSUME CallsInv, NEW s \in Sessions, NEW c \in MailCall, BeginCall(s, c)
    PROVE  CallsInv' /\ Grows
<1>1. /\ Goto(s, Statements(c.op)) /\ call' = [call EXCEPT ![s] = c]
      /\ UNCHANGED <<inbox, notices, mails, roomEnabled, lists>>
  BY DEF BeginCall
<1>2. PICK n : n = (IF c.op = "redeliver" THEN Len(deliveries) ELSE 0)
  OBVIOUS
<1>3. n \in Nat /\ (c.op = "redeliver" => n = Len(deliveries)) /\ (c.op # "redeliver" => n = 0)
  BY <1>2, TablesNow
<1>4. read' = [read EXCEPT ![s].due = c.to, ![s].post = n]
  BY <1>2 DEF BeginCall
<1>5. PICK to : to = c.to /\ to \in Seq(Players)
  BY CallTyped
<1>6. ReadNow(s, read[s].id, read[s].kind, to, n, read[s].ids)
  BY <1>3, <1>4, <1>5, ReadDueAndPost
<1>7. Tables
  BY <1>1, SameTables
<1>8. PICK r, a : r = Statements(c.op) /\ a = r[1]
  OBVIOUS
<1>9. /\ Rest(c.op, r) /\ a \in (Checks \cup {"message", "deliveries"})
      /\ c.op \in LetterOps => a = "message"
      /\ a = "deliveries" <=> c.op = "redeliver"
  BY <1>8, Begun, CallTyped
<1>10. r # <<>> /\ Goto(s, r)
  BY <1>1, <1>8, <1>9, Scripts
<1>11. /\ call' \in [Sessions -> MailCall] /\ call'[s] = c /\ read' \in [Sessions -> Read]
       /\ \A t \in Sessions \ {s} : call'[t] = call[t] /\ read'[t] = read[t]
  BY <1>1, <1>6 DEF ReadNow, CallsInv, CallersTyped
<1>12. ASSUME c.op \in LetterOps
       PROVE  LetterKnows(s, a)'
  <2>1. PICK q : q = read'[s]
    OBVIOUS
  <2>2. q.due = to /\ q.post = n
    BY <1>6, <2>1 DEF ReadNow
  <2>3. n = 0 /\ a = "message" /\ to # <<>>
    <3>1. c.op # "redeliver"
      BY <1>12 DEF LetterOps
    <3>2. c.to # <<>>
      BY <1>12, CallTyped
    <3>3. n = 0
      BY <1>3, <3>1
    <3>4. a = "message"
      BY <1>9, <1>12
    <3>5. to # <<>>
      BY <1>5, <3>2
    <3> QED
      BY <3>3, <3>4, <3>5
  <2>4. c.op = "ask" => Len(to) = 1
    <3>1. c.op = "ask" => to = <<RoomPlayer>>
      BY <1>5, CallTyped
    <3> QED
      BY <3>1
  <2> QED
    BY <1>5, <1>11, <2>1, <2>2, <2>3, <2>4 DEF LetterKnows
<1>13. ASSUME c.op \in {"post", "redeliver"}
       PROVE  PostKnows(s, a)'
  <2>1. a \notin {"post", "draw", "item", "notify", "link"}
    BY <1>9 DEF Checks
  <2>2. a = "deliveries" => read'[s].post <= Len(deliveries')
    <3>1. read'[s].post = n /\ deliveries' = deliveries
      BY <1>1, <1>6 DEF ReadNow, lists
    <3> QED
      BY <1>3, <1>9, <3>1, TablesNow
  <2> QED
    BY <2>1, <2>2 DEF PostKnows
<1>14. Own(s)
  BY <1>8, <1>9, <1>10, <1>11, <1>12, <1>13, GotoOwn
<1> QED
  BY <1>7, <1>14, CallerStepKeeps

LEMMA AbandonCallKeeps ==
    ASSUME CallsInv, NEW s \in Sessions, AbandonCall(s)
    PROVE  CallsInv' /\ Grows
BY SameTables, EndOwn, CallerStepKeeps DEF AbandonCall

LEMMA SetRoomEnabledKeeps ==
    ASSUME CallsInv, SetRoomEnabled
    PROVE  CallsInv' /\ Grows
<1>1. /\ inbox' = inbox /\ notices' = notices /\ written' = written /\ remembered' = remembered
      /\ answered' = answered /\ UNCHANGED lists /\ UNCHANGED callers
      /\ roomEnabled' = ~ roomEnabled
  BY DEF SetRoomEnabled, mails
<1>2. roomEnabled' \in BOOLEAN
  BY <1>1
<1> QED
  BY <1>1, <1>2, SameInbox, TablesNow, TableStepKeeps
-----------------------------------------------------------------------------
(* The statements of the mailing list *)

LEMMA CheckListKeeps ==
    ASSUME CallsInv, NEW s \in Sessions, CheckList(s)
    PROVE  CallsInv' /\ Grows
<1>1. PICK a \in Checks : At(s, a)
  BY DEF CheckList
<1>2. PICK b : b = Tail(todo[s])[1]
  OBVIOUS
<1>3. /\ call[s].op \in ListOps /\ Len(todo[s]) # 1
      /\ b \in (Checks \cup {"create", "subscribe", "unsubscribe", "close", "recipients"})
  BY <1>1, <1>2, Here DEF Leads
<1>4. /\ UNCHANGED <<inbox, notices, mails, roomEnabled, lists>>
      /\ EndCall(s) \/ Advance(s)
  BY DEF CheckList
<1>5. Tables
  BY <1>4, SameTables
<1>6. ASSUME Advance(s)
      PROVE  Own(s)
  <2>1. Goto(s, Tail(todo[s])) /\ UNCHANGED <<call, read>>
    BY <1>3, <1>6 DEF Advance
  <2>2. ReadNow(s, read[s].id, read[s].kind, read[s].due, read[s].post, read[s].ids)
    BY <2>1, ReadOneField
  <2>3. b \notin {"post", "deliveries", "draw", "item", "notify", "link"}
    BY <1>3 DEF Checks
  <2>4. PostKnows(s, b)'
    BY <2>3 DEF PostKnows
  <2>5. call[s].op \notin LetterOps
    BY <1>3 DEF LetterOps, ListOps
  <2> QED
    BY <1>1, <1>2, <1>3, <2>1, <2>2, <2>4, <2>5, NextOwn
<1> QED
  BY <1>4, <1>5, <1>6, EndOwn, CallerStepKeeps

(* The list's status changes, or a member's; nobody who was ever a member  *)
(* becomes a stranger. *)
LEMMA ListChange ==
    ASSUME CallsInv, UNCHANGED <<inbox, notices, mails, roomEnabled, deliveries, sent>>,
           list' \in {"none", "open", "closed"},
           membership' \in [Players -> {"none", "active", "unsubscribed"}],
           \A p \in Players : membership[p] # "none" => membership'[p] # "none"
    PROVE  Tables
<1>1. /\ inbox' = inbox /\ notices' = notices /\ written' = written
      /\ remembered' = remembered /\ answered' = answered /\ roomEnabled' = roomEnabled
      /\ deliveries' = deliveries /\ sent' = sent
  BY DEF mails
<1>2. Grows
  BY <1>1, TablesNow DEF Grows
<1>3. ItemsInv'
  BY <1>1 DEF CallsInv, ItemsInv, ItemsTypeOK, AnsweredLettersArrived, Answers, Arrived,
              RequestsNumberThemselves, Ids
<1>4. \A n \in 1..Len(deliveries) : \A p \in DOMAIN deliveries[n] : p \in Players
  BY TablesNow DEF Links
<1>5. SentPostsReachSubscribers'
  BY <1>1, <1>4 DEF CallsInv, LinksInv, SentPostsReachSubscribers
<1>6. PostsArriveOnce'
  BY <1>1 DEF CallsInv, LinksInv, PostsArriveOnce, Ids
<1>7. LinksInv'
  BY <1>1, <1>5, <1>6 DEF CallsInv, LinksInv, Ids
<1> QED
  BY <1>2, <1>3, <1>7 DEF Tables

LEMMA CreateListKeeps ==
    ASSUME CallsInv, NEW s \in Sessions, CreateList(s) \/ CloseList(s)
    PROVE  CallsInv' /\ Grows
<1>1. /\ UNCHANGED <<inbox, notices, mails, roomEnabled, deliveries, sent, membership>>
      /\ list' \in {list, "open", "closed"} /\ EndCall(s)
  BY DEF CreateList, CloseList
<1>2. list' \in {"none", "open", "closed"}
      /\ membership' \in [Players -> {"none", "active", "unsubscribed"}]
  BY <1>1 DEF CallsInv, LinksInv
<1>3. Tables
  BY <1>1, <1>2, ListChange
<1> QED
  BY <1>1, <1>3, EndOwn, CallerStepKeeps

LEMMA SubscribeKeeps ==
    ASSUME CallsInv, NEW s \in Sessions, Subscribe(s) \/ Unsubscribe(s)
    PROVE  CallsInv' /\ Grows
<1>1. PICK st \in {"active", "unsubscribed"} :
          membership' = [membership EXCEPT ![call[s].by] = st]
  BY DEF Subscribe, Unsubscribe, SetMembership
<1>2. /\ UNCHANGED <<inbox, notices, mails, roomEnabled, deliveries, sent, list>>
      /\ EndCall(s)
  BY DEF Subscribe, Unsubscribe, SetMembership
<1>3. membership \in [Players -> {"none", "active", "unsubscribed"}]
      /\ list \in {"none", "open", "closed"}
  BY DEF CallsInv, LinksInv
<1>4. /\ membership' \in [Players -> {"none", "active", "unsubscribed"}]
      /\ \A p \in Players : membership'[p] \in {membership[p], st}
  BY <1>1, <1>3
<1>5. Tables
  BY <1>2, <1>3, <1>4, ListChange
<1> QED
  BY <1>2, <1>5, EndOwn, CallerStepKeeps

LEMMA ReadRecipientsKeeps ==
    ASSUME CallsInv, NEW s \in Sessions, ReadRecipients(s)
    PROVE  CallsInv' /\ Grows
<1>1. At(s, "recipients") /\ UNCHANGED <<inbox, notices, mails, roomEnabled, lists>>
  BY DEF ReadRecipients
<1>2. Tables
  BY <1>1, SameTables
<1>3. CASE Active = {}
  BY <1>2, <1>3, EndOwn, CallerStepKeeps DEF ReadRecipients
<1>4. CASE Active # {}
  <2>1. /\ read' = [read EXCEPT ![s].ids = Active] /\ Goto(s, Tail(todo[s])) /\ UNCHANGED call
    BY <1>4 DEF ReadRecipients
  <2>2. Active \in SUBSET Players
    BY DEF Active
  <2>3. ReadNow(s, read[s].id, read[s].kind, read[s].due, read[s].post, Active)
    BY <2>1, <2>2, ReadOneField
  <2>4. call[s].op = "post" /\ Len(todo[s]) # 1 /\ Tail(todo[s])[1] = "post"
    BY <1>1, Here DEF Leads
  <2>5. membership' = membership
    BY <1>1 DEF lists
  <2>6. PostKnows(s, "post")'
    <3>1. read'[s].ids = Active
      BY <2>3 DEF ReadNow
    <3>2. \A p \in Active : membership'[p] # "none"
      BY <2>5 DEF Active
    <3> QED
      BY <1>4, <3>1, <3>2 DEF PostKnows
  <2>7. call[s].op \notin LetterOps
    BY <2>4 DEF LetterOps
  <2>8. Own(s)
    BY <1>1, <2>1, <2>3, <2>4, <2>6, <2>7, NextOwn
  <2> QED
    BY <1>2, <2>8, CallerStepKeeps
<1> QED
  BY <1>3, <1>4

LEMMA LinkTyped ==
    ASSUME NEW f
    PROVE  f \in Links <=> DOMAIN f \subseteq Players /\ f \in [DOMAIN f -> Nat]
<1>1. ASSUME f \in Links
      PROVE  DOMAIN f \subseteq Players /\ f \in [DOMAIN f -> Nat]
  <2>1. PICK D \in SUBSET Players : f \in [D -> Nat]
    BY <1>1 DEF Links
  <2> QED
    BY <2>1
<1>2. ASSUME DOMAIN f \subseteq Players, f \in [DOMAIN f -> Nat]
      PROVE  f \in Links
  <2>1. PICK D : D = DOMAIN f
    OBVIOUS
  <2>2. D \in SUBSET Players /\ f \in [D -> Nat]
    BY <1>2, <2>1
  <2>3. [D -> Nat] \in {[E -> Nat] : E \in SUBSET Players}
    BY <2>2
  <2> QED
    BY <2>2, <2>3 DEF Links
<1> QED
  BY <1>1, <1>2

LEMMA InsertPostKeeps ==
    ASSUME CallsInv, NEW s \in Sessions, InsertPost(s)
    PROVE  CallsInv' /\ Grows
<1>1. /\ At(s, "post") /\ Goto(s, <<"deliveries">>)
      /\ UNCHANGED <<inbox, notices, mails, roomEnabled, list, membership, sent, call>>
  BY DEF InsertPost
<1>0. PICK k \in Nat : k = Len(deliveries)
  BY TablesNow
<1>2. PICK row : row = [p \in read[s].ids |-> 0] /\ k = Len(deliveries)
  BY <1>0
<1>3. deliveries' = Append(deliveries, row) /\ read' = [read EXCEPT ![s].post = k + 1]
  BY <1>2 DEF InsertPost
<1>4. /\ call[s].op = "post" /\ PostKnows(s, "post") /\ read[s] \in Read
  BY <1>1, Here DEF Leads
<1>5. /\ read[s].ids \subseteq Players /\ read[s].ids # {}
      /\ \A p \in read[s].ids : membership[p] # "none"
  BY <1>4 DEF PostKnows, Read
<1>6. /\ DOMAIN row = read[s].ids /\ row \in Links /\ \A p \in DOMAIN row : row[p] = 0
  <2>1. DOMAIN row = read[s].ids /\ row \in [DOMAIN row -> Nat] /\ \A p \in DOMAIN row : row[p] = 0
    BY <1>2
  <2> QED
    BY <1>5, <2>1, LinkTyped
<1>7. /\ deliveries' \in Seq(Links) /\ Len(deliveries') = k + 1 /\ deliveries'[k + 1] = row
      /\ \A n \in 1..k : deliveries'[n] = deliveries[n]
  BY <1>2, <1>3, <1>6, TablesNow
<1>8. /\ inbox' = inbox /\ notices' = notices /\ written' = written
      /\ remembered' = remembered /\ answered' = answered /\ roomEnabled' = roomEnabled
      /\ list' = list /\ membership' = membership /\ sent' = sent
  BY <1>1 DEF mails
<1>9. Grows
  BY <1>2, <1>7, <1>8, TablesNow DEF Grows
<1>10. ItemsInv'
  BY <1>8 DEF CallsInv, ItemsInv, ItemsTypeOK, AnsweredLettersArrived, Answers, Arrived,
              RequestsNumberThemselves, Ids
<1>11. \A n \in 1..Len(deliveries') : n \in 1..Len(deliveries) \/ n = k + 1
  BY <1>2, <1>7
<1>12. sent \subseteq 1..k
  BY <1>2 DEF CallsInv, LinksInv
<1>13. SentPostsReachSubscribers'
  <2> SUFFICES ASSUME NEW n \in 1..Len(deliveries'), NEW p \in DOMAIN deliveries'[n]
               PROVE  membership[p] # "none" /\ (n \in sent => deliveries'[n][p] # 0)
    BY <1>8 DEF SentPostsReachSubscribers
  <2>1. CASE n \in 1..Len(deliveries)
    BY <1>2, <1>7, <2>1 DEF CallsInv, LinksInv, SentPostsReachSubscribers
  <2>2. CASE n = k + 1
    BY <1>2, <1>5, <1>6, <1>7, <1>12, <2>2
  <2> QED
    BY <1>11, <2>1, <2>2
<1>14. \A n \in 1..Len(deliveries') :
          /\ DOMAIN deliveries'[n] # {}
          /\ \A p \in DOMAIN deliveries'[n] : deliveries'[n][p] # 0 =>
                /\ n \in 1..Len(deliveries) /\ deliveries'[n] = deliveries[n]
  BY <1>2, <1>5, <1>6, <1>7, <1>11 DEF CallsInv, LinksInv
<1>15. PostsArriveOnce'
  <2>1. PostsArriveOnce /\ Ids' = Ids
    BY <1>8 DEF CallsInv, LinksInv, Ids
  <2>2. ASSUME NEW n \in 1..Len(deliveries'), NEW p \in DOMAIN deliveries'[n],
               deliveries'[n][p] # 0
        PROVE  inbox[deliveries'[n][p]].to = p /\ inbox[deliveries'[n][p]].source = <<n>>
    <3>1. n \in 1..Len(deliveries) /\ deliveries'[n] = deliveries[n]
      BY <1>14, <2>2
    <3>2. PICK d : d = deliveries[n][p]
      OBVIOUS
    <3>3. d # 0 /\ p \in DOMAIN deliveries[n] /\ deliveries'[n][p] = d
      BY <2>2, <3>1, <3>2
    <3>4. inbox[d].to = p /\ inbox[d].source = <<n>>
      BY <2>1, <3>1, <3>2, <3>3 DEF PostsArriveOnce
    <3> QED
      BY <3>3, <3>4
  <2> QED
    BY <1>8, <2>1, <2>2 DEF PostsArriveOnce
<1>16. LinksInv'
  <2>1. \A n \in 1..Len(deliveries') : \A p \in DOMAIN deliveries'[n] : deliveries'[n][p] # 0 =>
             deliveries'[n][p] \in Ids /\ inbox[deliveries'[n][p]].kind = "post"
    BY <1>14 DEF CallsInv, LinksInv
  <2>2. sent \subseteq 1..Len(deliveries')
    BY <1>2, <1>7, <1>12
  <2> QED
    BY <1>7, <1>8, <1>13, <1>14, <1>15, <2>1, <2>2 DEF CallsInv, LinksInv, Ids
<1>17. Tables
  BY <1>9, <1>10, <1>16 DEF Tables
<1>18. k + 1 \in Nat
  OBVIOUS
<1>19. ReadNow(s, read[s].id, read[s].kind, read[s].due, k + 1, read[s].ids)
  BY <1>3, <1>18, ReadOneField
<1>20. PostKnows(s, "deliveries")'
  <2>1. read'[s].post = k + 1
    BY <1>19 DEF ReadNow
  <2> QED
    BY <1>7, <2>1 DEF PostKnows
<1>21. PICK r : r = <<"deliveries">>
  OBVIOUS
<1>22. r # <<>> /\ r[1] = "deliveries" /\ r \in DeliveryRests
  BY <1>21 DEF DeliveryRests
<1>23. Rest(call'[s].op, r) /\ call'[s].op \notin LetterOps
  BY <1>1, <1>4, <1>22 DEF Rest, LetterOps
<1>24. /\ call' \in [Sessions -> MailCall] /\ read' \in [Sessions -> Read]
       /\ \A t \in Sessions \ {s} : call'[t] = call[t] /\ read'[t] = read[t]
  BY <1>1, <1>19 DEF ReadNow, CallsInv, CallersTyped
<1>25. Own(s)
  BY <1>1, <1>20, <1>21, <1>22, <1>23, <1>24, GotoOwn
<1> QED
  BY <1>17, <1>25, CallerStepKeeps
-----------------------------------------------------------------------------
(* An enumeration of a finite set reaches all of it. *)
LEMMA Enumerated ==
    ASSUME NEW S, IsFiniteSet(S), NEW q \in SetToSeqs(S)
    PROVE  /\ q \in Seq(S) /\ Len(q) = Cardinality(S) /\ Cardinality(S) \in Nat
           /\ \A p \in S : \E i \in 1..Len(q) : q[i] = p
           /\ S # {} => q # <<>>
<1>1. PICK n \in Nat : n = Cardinality(S)
  BY FS_CardinalityType
<1>2. q \in [1..n -> S] /\ \A i, j \in 1..n : i # j => q[i] # q[j]
  BY <1>1 DEF SetToSeqs
<1>3. q \in Injection(1..n, S)
  BY <1>2 DEF Injection, IsInjective
<1>4. IsFiniteSet(1..n) /\ Cardinality(1..n) = n
  BY FS_Interval
<1>5. q \in Surjection(1..n, S)
  BY <1>1, <1>3, <1>4, FS_Injection
<1>6. q \in Seq(S) /\ Len(q) = n
  BY <1>2
<1>7. \A p \in S : \E i \in 1..n : q[i] = p
  BY <1>5 DEF Surjection
<1>8. S # {} => q # <<>>
  BY <1>6, <1>7
<1> QED
  BY <1>1, <1>6, <1>7, <1>8

LEMMA ReadDeliveriesKeeps ==
    ASSUME CallsInv, NEW s \in Sessions, ReadDeliveries(s)
    PROVE  CallsInv' /\ Grows
<1>1. At(s, "deliveries") /\ UNCHANGED <<inbox, notices, mails, roomEnabled, lists>>
  BY DEF ReadDeliveries
<1>2. Tables
  BY <1>1, SameTables
<1>3. CASE read[s].post = 0
  BY <1>2, <1>3, EndOwn, CallerStepKeeps DEF ReadDeliveries
<1>4. CASE read[s].post # 0
  <2>1. PICK n, D : n = read[s].post /\ D = DOMAIN deliveries[n]
    OBVIOUS
  <2>2. PICK q \in SetToSeqs(D) : read' = [read EXCEPT ![s].due = q, ![s].ids = {}]
    BY <1>4, <2>1 DEF ReadDeliveries
  <2>3. Goto(s, OneDelivery) /\ UNCHANGED call
    BY <1>4 DEF ReadDeliveries
  <2>4. /\ call[s].op \in {"post", "redeliver"} /\ PostKnows(s, "deliveries")
        /\ read[s] \in Read
    BY <1>1, Here DEF Leads
  <2>5. n \in 1..Len(deliveries)
    BY <1>4, <2>1, <2>4, TablesNow DEF PostKnows, Read
  <2>6. D # {} /\ D \subseteq Players
    <3>1. deliveries[n] \in Links
      BY <2>5, TablesNow
    <3>2. DOMAIN deliveries[n] # {}
      BY <2>5 DEF CallsInv, LinksInv
    <3> QED
      BY <2>1, <3>1, <3>2, LinkTyped
  <2>7. IsFiniteSet(D)
    BY <2>6, FS_Subset, MailCallsAssumption DEF MailCallsAssumption
  <2>8. /\ q \in Seq(D) /\ q # <<>> /\ \A p \in D : \E i \in 1..Len(q) : q[i] = p
    BY <2>6, <2>7, Enumerated
  <2>9. PICK due : due = q /\ due \in Seq(Players)
    BY <2>6, <2>8
  <2>10. {} \in SUBSET Players
    OBVIOUS
  <2>11. ReadNow(s, read[s].id, read[s].kind, due, read[s].post, {})
    BY <2>2, <2>9, <2>10, ReadDueAndIds
  <2>12. PostKnows(s, "draw")'
    <3>1. PICK r : r = read'[s]
      OBVIOUS
    <3>2. r.due = q /\ r.post = n
      BY <2>1, <2>9, <2>11, <3>1 DEF ReadNow
    <3>3. deliveries' = deliveries
      BY <1>1 DEF lists
    <3>4. \A i \in 1..Len(q) : q[i] \in D
      BY <2>8
    <3> QED
      BY <2>1, <2>5, <2>8, <3>1, <3>2, <3>3, <3>4 DEF PostKnows
  <2>13. PICK r : r = OneDelivery
    OBVIOUS
  <2>14. r # <<>> /\ r[1] = "draw" /\ r \in DeliveryRests
    BY <2>13 DEF OneDelivery, DeliveryRests
  <2>15. Rest(call'[s].op, r) /\ call'[s].op \notin LetterOps
    BY <2>3, <2>4, <2>14 DEF Rest, LetterOps
  <2>16. /\ call' \in [Sessions -> MailCall] /\ read' \in [Sessions -> Read]
         /\ \A t \in Sessions \ {s} : call'[t] = call[t] /\ read'[t] = read[t]
    BY <2>3, <2>11 DEF ReadNow, CallsInv, CallersTyped
  <2>17. Own(s)
    BY <2>3, <2>12, <2>13, <2>14, <2>15, <2>16, GotoOwn
  <2> QED
    BY <1>2, <2>17, CallerStepKeeps
<1> QED
  BY <1>3, <1>4

LEMMA LinkDeliveryKeeps ==
    ASSUME CallsInv, NEW s \in Sessions, LinkDelivery(s)
    PROVE  CallsInv' /\ Grows
<1>1. PICK n, due, id, left, p :
          n = read[s].post /\ due = read[s].due /\ id = read[s].id /\ left = Tail(due)
          /\ p = Head(due)
  OBVIOUS
<1>2. /\ At(s, "link")
      /\ deliveries' = [deliveries EXCEPT ![n][p] = id]
      /\ sent' = IF left = <<>> THEN sent \cup {n} ELSE sent
      /\ left = <<>> => EndCall(s)
      /\ left # <<>> => /\ Goto(s, OneDelivery)
                        /\ read' = [read EXCEPT ![s].due = left]
                        /\ UNCHANGED call
      /\ UNCHANGED <<inbox, notices, mails, roomEnabled, list, membership>>
  BY <1>1 DEF LinkDelivery, LinkTo
<1>3. /\ call[s].op \in {"post", "redeliver"} /\ PostKnows(s, "link") /\ read[s] \in Read
  BY <1>2, Here DEF Leads
<1>4. /\ n \in 1..Len(deliveries) /\ due # <<>>
      /\ \A i \in 1..Len(due) : due[i] \in DOMAIN deliveries[n]
      /\ \A x \in DOMAIN deliveries[n] : \/ deliveries[n][x] # 0
                                         \/ \E i \in 1..Len(due) : due[i] = x
      /\ id \in Ids /\ inbox[id].kind = "post" /\ inbox[id].source = <<n>>
      /\ inbox[id].to = due[1]
  BY <1>1, <1>3 DEF PostKnows
<1>5. due \in Seq(Players) /\ Len(due) \in Nat \ {0}
  BY <1>1, <1>3, <1>4 DEF Read
<1>6. p = due[1] /\ p \in DOMAIN deliveries[n] /\ inbox[id].to = p
  BY <1>1, <1>4, <1>5
<1>7. /\ left \in Seq(Players) /\ Len(left) = Len(due) - 1
      /\ \A i \in 1..Len(left) : left[i] = due[i + 1]
  BY <1>1, <1>4, <1>5
<1>8. PICK old, new : old = deliveries[n] /\ new = [old EXCEPT ![p] = id]
  OBVIOUS
<1>9. id \in Nat /\ id # 0
  BY <1>4, TablesNow DEF Ids
<1>10. old \in Links
  BY <1>4, <1>8, TablesNow
<1>11. /\ new \in Links /\ DOMAIN new = DOMAIN old /\ new[p] = id
       /\ \A x \in DOMAIN old : x # p => new[x] = old[x]
  <2>1. DOMAIN old \subseteq Players /\ old \in [DOMAIN old -> Nat]
    BY <1>10, LinkTyped
  <2>2. /\ new \in [DOMAIN old -> Nat] /\ DOMAIN new = DOMAIN old /\ new[p] = id
        /\ \A x \in DOMAIN old : x # p => new[x] = old[x]
    BY <1>6, <1>8, <1>9, <2>1
  <2> QED
    BY <2>1, <2>2, LinkTyped
<1>12. deliveries' = [deliveries EXCEPT ![n] = new]
  BY <1>2, <1>8
<1>13. /\ deliveries' \in Seq(Links) /\ Len(deliveries') = Len(deliveries)
       /\ deliveries'[n] = new
       /\ \A m \in 1..Len(deliveries) : m # n => deliveries'[m] = deliveries[m]
  BY <1>4, <1>11, <1>12, TablesNow
<1>14. /\ inbox' = inbox /\ notices' = notices /\ written' = written
       /\ remembered' = remembered /\ answered' = answered /\ roomEnabled' = roomEnabled
       /\ list' = list /\ membership' = membership /\ Ids' = Ids
  BY <1>2 DEF mails, Ids
<1>15. \A m \in 1..Len(deliveries) :
           /\ DOMAIN deliveries'[m] = DOMAIN deliveries[m]
           /\ \A x \in DOMAIN deliveries[m] :
                 \/ m = n /\ x = p /\ deliveries'[m][x] = id
                 \/ deliveries'[m][x] = deliveries[m][x]
  BY <1>8, <1>11, <1>13
<1>16. Grows
  BY <1>9, <1>13, <1>14, <1>15, TablesNow DEF Grows
<1>17. ItemsInv'
  BY <1>14 DEF CallsInv, ItemsInv, ItemsTypeOK, AnsweredLettersArrived, Answers, Arrived,
               RequestsNumberThemselves
<1>18. \A m \in 1..Len(deliveries) : \A x \in DOMAIN deliveries[m] : deliveries'[m][x] # 0 =>
           /\ deliveries'[m][x] \in Ids /\ inbox[deliveries'[m][x]].kind = "post"
           /\ inbox[deliveries'[m][x]].to = x /\ inbox[deliveries'[m][x]].source = <<m>>
  <2> SUFFICES ASSUME NEW m \in 1..Len(deliveries), NEW x \in DOMAIN deliveries[m],
                      deliveries'[m][x] # 0
               PROVE  /\ deliveries'[m][x] \in Ids /\ inbox[deliveries'[m][x]].kind = "post"
                      /\ inbox[deliveries'[m][x]].to = x
                      /\ inbox[deliveries'[m][x]].source = <<m>>
    OBVIOUS
  <2>1. CASE m = n /\ x = p /\ deliveries'[m][x] = id
    BY <1>4, <1>6, <2>1
  <2>2. CASE deliveries'[m][x] = deliveries[m][x]
    <3>1. PICK d : d = deliveries[m][x]
      OBVIOUS
    <3>2. d # 0
      BY <2>2, <3>1
    <3>3. d \in Ids /\ inbox[d].kind = "post"
      BY <3>1, <3>2 DEF CallsInv, LinksInv
    <3>4. inbox[d].to = x /\ inbox[d].source = <<m>>
      BY <3>1, <3>2 DEF CallsInv, LinksInv, PostsArriveOnce
    <3> QED
      BY <2>2, <3>1, <3>3, <3>4
  <2> QED
    BY <1>15, <2>1, <2>2
<1>19. PostsArriveOnce'
  BY <1>13, <1>14, <1>15, <1>18 DEF CallsInv, LinksInv, PostsArriveOnce
<1>20. left = <<>> => \A x \in DOMAIN deliveries[n] : deliveries'[n][x] # 0
  <2> SUFFICES ASSUME left = <<>>, NEW x \in DOMAIN deliveries[n]
               PROVE  deliveries'[n][x] # 0
    OBVIOUS
  <2>1. Len(due) = 1
    BY <1>5, <1>7
  <2>2. deliveries[n][x] # 0 \/ x = p
    BY <1>4, <1>6, <2>1
  <2> QED
    BY <1>6, <1>8, <1>9, <1>11, <1>13, <2>2
<1>21. sent' \subseteq 1..Len(deliveries')
  BY <1>2, <1>4, <1>13 DEF CallsInv, LinksInv
<1>22. SentPostsReachSubscribers'
  <2> SUFFICES ASSUME NEW m \in 1..Len(deliveries), NEW x \in DOMAIN deliveries[m]
               PROVE  membership[x] # "none" /\ (m \in sent' => deliveries'[m][x] # 0)
    BY <1>13, <1>14, <1>15 DEF SentPostsReachSubscribers
  <2>1. membership[x] # "none" /\ (m \in sent => deliveries[m][x] # 0)
    BY DEF CallsInv, LinksInv, SentPostsReachSubscribers
  <2>2. deliveries[m][x] # 0 => deliveries'[m][x] # 0
    BY <1>9, <1>15
  <2>3. m \in sent' => m \in sent \/ (m = n /\ left = <<>>)
    BY <1>2
  <2> QED
    BY <1>20, <2>1, <2>2, <2>3
<1>23. LinksInv'
  <2>1. \A m \in 1..Len(deliveries) : DOMAIN deliveries[m] # {}
    BY DEF CallsInv, LinksInv
  <2>2. /\ list \in {"none", "open", "closed"}
        /\ membership \in [Players -> {"none", "active", "unsubscribed"}]
    BY DEF CallsInv, LinksInv
  <2> QED
    BY <1>13, <1>14, <1>15, <1>18, <1>19, <1>21, <1>22, <2>1, <2>2 DEF LinksInv
<1>24. Tables
  BY <1>16, <1>17, <1>23 DEF Tables
<1>25. CASE left = <<>>
  BY <1>2, <1>24, <1>25, EndOwn, CallerStepKeeps
<1>26. CASE left # <<>>
  <2>1. ReadNow(s, read[s].id, read[s].kind, left, read[s].post, read[s].ids)
    BY <1>2, <1>7, <1>26, ReadOneField
  <2>2. PostKnows(s, "draw")'
    <3>1. PICK r : r = read'[s]
      OBVIOUS
    <3>2. r.due = left /\ r.post = n
      BY <1>1, <2>1, <3>1 DEF ReadNow
    <3>3. \A i \in 1..Len(left) : left[i] \in DOMAIN deliveries'[n]
      <4> SUFFICES ASSUME NEW i \in 1..Len(left)
                   PROVE  left[i] \in DOMAIN deliveries'[n]
        OBVIOUS
      <4>1. i + 1 \in 1..Len(due) /\ left[i] = due[i + 1]
        BY <1>5, <1>7
      <4> QED
        BY <1>4, <1>15, <4>1
    <3>4. \A x \in DOMAIN deliveries'[n] : \/ deliveries'[n][x] # 0
                                           \/ \E i \in 1..Len(left) : left[i] = x
      <4> SUFFICES ASSUME NEW x \in DOMAIN deliveries[n], deliveries'[n][x] = 0
                   PROVE  \E i \in 1..Len(left) : left[i] = x
        BY <1>4, <1>15
      <4>1. x # p
        BY <1>8, <1>9, <1>11, <1>13
      <4>2. deliveries[n][x] = 0
        BY <1>4, <1>15, <4>1
      <4>3. PICK i \in 1..Len(due) : due[i] = x
        BY <1>4, <4>2
      <4>4. i # 1
        BY <1>6, <4>1, <4>3
      <4>5. i - 1 \in 1..Len(left) /\ left[i - 1] = due[i]
        BY <1>5, <1>7, <4>4
      <4> QED
        BY <4>3, <4>5
    <3>5. n \in 1..Len(deliveries')
      BY <1>4, <1>13
    <3> QED
      BY <1>26, <3>1, <3>2, <3>3, <3>4, <3>5 DEF PostKnows
  <2>3. PICK r : r = OneDelivery
    OBVIOUS
  <2>4. r # <<>> /\ r[1] = "draw" /\ r \in DeliveryRests
    BY <2>3 DEF OneDelivery, DeliveryRests
  <2>5. Rest(call'[s].op, r) /\ call'[s].op \notin LetterOps
    BY <1>2, <1>3, <1>26, <2>4 DEF Rest, LetterOps
  <2>6. /\ call' \in [Sessions -> MailCall] /\ read' \in [Sessions -> Read]
        /\ \A t \in Sessions \ {s} : call'[t] = call[t] /\ read'[t] = read[t]
    BY <1>2, <1>26, <2>1 DEF ReadNow, CallsInv, CallersTyped
  <2>7. Own(s)
    BY <1>2, <1>26, <2>2, <2>3, <2>4, <2>5, <2>6, GotoOwn
  <2> QED
    BY <1>24, <2>7, CallerStepKeeps
<1> QED
  BY <1>25, <1>26

-----------------------------------------------------------------------------
(* The ids that are drawn *)

(* A step after which nobody is newly between the two steps of an insert,  *)
(* and no row of nobody is filled. *)
LEMMA DrawsStay ==
    ASSUME DrawsInv, \A i \in Ids : i \in Ids',
           \A i \in Ids : inbox[i].to = None => inbox'[i].to = None,
           \A t \in Sessions : At(t, "item")' => At(t, "item") /\ read'[t] = read[t]
    PROVE  DrawsInv'
<1>1. ASSUME NEW t \in Sessions, At(t, "item")'
      PROVE  Holds(t)'
  <2>1. At(t, "item") /\ read'[t] = read[t]
    BY <1>1
  <2>2. read[t].id \in Ids /\ inbox[read[t].id].to = None
    BY <2>1 DEF DrawsInv, Holds
  <2> QED
    BY <2>1, <2>2 DEF Holds
<1>2. ASSUME NEW s \in Sessions, NEW t \in Sessions, At(s, "item")', At(t, "item")',
             read'[s].id = read'[t].id
      PROVE  s = t
  <2>1. /\ At(s, "item") /\ read'[s] = read[s]
        /\ At(t, "item") /\ read'[t] = read[t]
    BY <1>2
  <2> QED
    BY <1>2, <2>1 DEF DrawsInv
<1> QED
  BY <1>1, <1>2 DEF DrawsInv

(* Where a statement leaves its caller: anywhere but at the row.           *)
Elsewhere(s) == /\ \A t \in Sessions \ {s} : todo'[t] = todo[t] /\ read'[t] = read[t]
                /\ todo'[s] = <<>> \/ Head(todo'[s]) # "item"

LEMMA ElsewhereDraws ==
    ASSUME DrawsInv, NEW s \in Sessions, Elsewhere(s), \A i \in Ids : i \in Ids',
           \A i \in Ids : inbox[i].to = None => inbox'[i].to = None
    PROVE  DrawsInv'
<1>1. ASSUME NEW t \in Sessions, At(t, "item")'
      PROVE  At(t, "item") /\ read'[t] = read[t]
  <2>1. todo'[t] # <<>> /\ Head(todo'[t]) = "item"
    BY <1>1 DEF At
  <2>2. t # s
    BY <2>1 DEF Elsewhere
  <2> QED
    BY <2>1, <2>2 DEF Elsewhere, At
<1> QED
  BY <1>1, DrawsStay

(* Its script's next statement is not the row, unless this one draws. *)
LEMMA TailElsewhere ==
    ASSUME CallsInv, NEW s \in Sessions, NEW a, At(s, a), a # "draw",
           EndCall(s) \/ (Goto(s, Tail(todo[s])) /\ Len(todo[s]) # 1),
           \A t \in Sessions \ {s} : read'[t] = read[t]
    PROVE  Elsewhere(s)
<1>1. todo = [t \in Sessions |-> todo[t]]
  BY DEF CallsInv, CallersTyped
<1>2. CASE EndCall(s)
  BY <1>1, <1>2 DEF EndCall, Goto, Elsewhere
<1>3. CASE Goto(s, Tail(todo[s])) /\ Len(todo[s]) # 1
  <2>1. PICK r : r = Tail(todo[s])
    OBVIOUS
  <2>2. Rest(call[s].op, r) /\ r[1] # "item"
    BY <1>3, <2>1, Here DEF Leads
  <2>3. Head(r) # "item"
    BY <2>2, Scripts
  <2>4. todo'[s] = r /\ \A t \in Sessions \ {s} : todo'[t] = todo[t]
    BY <1>1, <1>3, <2>1 DEF Goto
  <2> QED
    BY <2>3, <2>4 DEF Elsewhere
<1> QED
  BY <1>2, <1>3

LEMMA GotoElsewhere ==
    ASSUME CallsInv, NEW s \in Sessions, NEW r, Goto(s, r), Head(r) # "item",
           \A t \in Sessions \ {s} : read'[t] = read[t]
    PROVE  Elsewhere(s)
<1>1. todo = [t \in Sessions |-> todo[t]]
  BY DEF CallsInv, CallersTyped
<1> QED
  BY <1>1 DEF Goto, Elsewhere

(* Of another caller no statement changes what it has read. *)
LEMMA ReadElsewhere ==
    ASSUME CallsInv, NEW s \in Sessions,
           \/ MailStatement(s) \/ AbandonCall(s) \/ \E c \in MailCall : BeginCall(s, c)
    PROVE  \A t \in Sessions \ {s} : read'[t] = read[t]
<1>1. read \in [Sessions -> Read]
  BY DEF CallsInv, CallersTyped
<1>2. ASSUME EndCall(s)
      PROVE  \A t \in Sessions \ {s} : read'[t] = read[t]
  BY <1>1, <1>2 DEF EndCall
<1>3. ASSUME Advance(s)
      PROVE  \A t \in Sessions \ {s} : read'[t] = read[t]
  BY <1>2, <1>3 DEF Advance
<1>4. CASE WriteMessage(s)
  BY <1>3, <1>4 DEF WriteMessage
<1>5. CASE ReadSource(s)
  BY <1>1, <1>5 DEF ReadSource
<1>6. CASE DrawItemId(s)
  BY <1>1, <1>6 DEF DrawItemId
<1>7. CASE CreateInboxItem(s)
  BY <1>1, <1>7 DEF CreateInboxItem
<1>8. CASE NotifyInbox(s)
  BY <1>8 DEF NotifyInbox
<1>9. CASE RecordMemory(s)
  <2>1. Advance(s) \/ (\E d : read' = [read EXCEPT ![s].due = d])
    BY <1>9 DEF RecordMemory
  <2> QED
    BY <1>1, <1>3, <2>1
<1>10. CASE NumberRequest(s)
  BY <1>2, <1>10 DEF NumberRequest, NumberWith
<1>11. CASE CheckList(s)
  BY <1>2, <1>3, <1>11 DEF CheckList
<1>12. CASE CreateList(s) \/ CloseList(s) \/ Subscribe(s) \/ Unsubscribe(s)
  BY <1>2, <1>12 DEF CreateList, CloseList, Subscribe, Unsubscribe, SetMembership
<1>13. CASE ReadRecipients(s)
  <2>1. EndCall(s) \/ read' = [read EXCEPT ![s].ids = Active]
    BY <1>13 DEF ReadRecipients
  <2> QED
    BY <1>1, <1>2, <2>1
<1>14. CASE InsertPost(s)
  BY <1>1, <1>14 DEF InsertPost
<1>15. CASE ReadDeliveries(s)
  <2>1. EndCall(s) \/ (\E q : read' = [read EXCEPT ![s].due = q, ![s].ids = {}])
    BY <1>15 DEF ReadDeliveries
  <2> QED
    BY <1>1, <1>2, <2>1
<1>16. CASE LinkDelivery(s)
  <2>1. EndCall(s) \/ (\E d : read' = [read EXCEPT ![s].due = d])
    BY <1>16 DEF LinkDelivery, LinkTo
  <2> QED
    BY <1>1, <1>2, <2>1
<1>17. CASE AbandonCall(s)
  BY <1>2, <1>17 DEF AbandonCall
<1>18. CASE \E c \in MailCall : BeginCall(s, c)
  BY <1>1, <1>18 DEF BeginCall
<1> QED
  BY <1>4, <1>5, <1>6, <1>7, <1>8, <1>9, <1>10, <1>11, <1>12, <1>13, <1>14, <1>15, <1>16,
     <1>17, <1>18 DEF MailStatement

(* A statement that is not about the row goes elsewhere. *)
LEMMA StatementElsewhere ==
    ASSUME CallsInv, NEW s \in Sessions, MailStatement(s),
           ~ DrawItemId(s)
    PROVE  Elsewhere(s)
<1>0. \A t \in Sessions \ {s} : read'[t] = read[t]
  BY ReadElsewhere
<1>1. ASSUME NEW a, At(s, a), a # "draw", Advance(s)
      PROVE  Elsewhere(s)
  <2>1. EndCall(s) \/ (Goto(s, Tail(todo[s])) /\ Len(todo[s]) # 1)
    BY <1>1 DEF Advance
  <2> QED
    BY <1>0, <1>1, <2>1, TailElsewhere
<1>2. ASSUME NEW a, At(s, a), a # "draw", EndCall(s)
      PROVE  Elsewhere(s)
  BY <1>0, <1>2, TailElsewhere
<1>3. ASSUME NEW a, At(s, a), a \in {"source", "item", "notify", "recipients"},
             Goto(s, Tail(todo[s]))
      PROVE  Elsewhere(s)
  <2>1. Len(todo[s]) # 1 /\ a # "draw"
    BY <1>3, Here DEF Leads
  <2> QED
    BY <1>0, <1>3, <2>1, TailElsewhere
<1>4. /\ Head(OneLetter) # "item" /\ Head(OneDelivery) # "item"
      /\ Head(<<"deliveries">>) # "item"
  BY DEF OneLetter, OneDelivery
<1>5. CASE WriteMessage(s)
  BY <1>1, <1>5 DEF WriteMessage
<1>6. CASE ReadSource(s)
  BY <1>3, <1>6 DEF ReadSource
<1>7. CASE CreateInboxItem(s)
  BY <1>3, <1>7 DEF CreateInboxItem
<1>8. CASE NotifyInbox(s)
  BY <1>3, <1>8 DEF NotifyInbox
<1>9. CASE RecordMemory(s)
  <2>1. At(s, "memory") /\ (Advance(s) \/ Goto(s, OneLetter))
    BY <1>9 DEF RecordMemory
  <2> QED
    BY <1>0, <1>1, <1>4, <2>1, GotoElsewhere
<1>10. CASE NumberRequest(s)
  BY <1>2, <1>10 DEF NumberRequest, NumberWith
<1>11. CASE CheckList(s)
  <2>1. PICK a \in Checks : At(s, a)
    BY <1>11 DEF CheckList
  <2>2. a # "draw" /\ (Advance(s) \/ EndCall(s))
    BY <1>11 DEF CheckList, Checks
  <2> QED
    BY <1>1, <1>2, <2>1, <2>2
<1>12. CASE CreateList(s) \/ CloseList(s) \/ Subscribe(s) \/ Unsubscribe(s)
  BY <1>2, <1>12 DEF CreateList, CloseList, Subscribe, Unsubscribe, SetMembership
<1>13. CASE ReadRecipients(s)
  BY <1>2, <1>3, <1>13 DEF ReadRecipients
<1>14. CASE InsertPost(s)
  BY <1>0, <1>4, <1>14, GotoElsewhere DEF InsertPost
<1>15. CASE ReadDeliveries(s)
  <2>1. At(s, "deliveries") /\ (EndCall(s) \/ Goto(s, OneDelivery))
    BY <1>15 DEF ReadDeliveries
  <2> QED
    BY <1>0, <1>2, <1>4, <2>1, GotoElsewhere
<1>16. CASE LinkDelivery(s)
  <2>1. At(s, "link") /\ (EndCall(s) \/ Goto(s, OneDelivery))
    BY <1>16 DEF LinkDelivery, LinkTo
  <2> QED
    BY <1>0, <1>2, <1>4, <2>1, GotoElsewhere
<1> QED
  BY <1>5, <1>6, <1>7, <1>8, <1>9, <1>10, <1>11, <1>12, <1>13, <1>14, <1>15, <1>16
     DEF MailStatement

LEMMA DrawItemIdDraws ==
    ASSUME CallsInv, DrawsInv, NEW s \in Sessions, DrawItemId(s)
    PROVE  DrawsInv'
<1>1. PICK k \in Nat : k = Len(inbox)
  BY TablesNow
<1>2. /\ k + 1 \in Ids' /\ inbox'[k + 1].to = None
  BY <1>1, DrawItemIdKeeps
<1>3. /\ \A t \in Sessions \ {s} : todo'[t] = todo[t] /\ read'[t] = read[t]
      /\ read'[s].id = k + 1
  <2>1. todo = [t \in Sessions |-> todo[t]] /\ read \in [Sessions -> Read]
    BY DEF CallsInv, CallersTyped
  <2>2. read'[s].id = k + 1
    BY <1>1, <2>1 DEF DrawItemId, Read
  <2> QED
    BY <2>1, <2>2 DEF DrawItemId, Goto
<1>4. /\ \A i \in Ids : i \in Ids' /\ inbox'[i] = inbox[i] /\ i # k + 1
  <2>1. inbox' = Append(inbox, Drawn) /\ inbox \in Seq(Item)
    BY TablesNow DEF DrawItemId, DrawId
  <2>2. Len(inbox') = k + 1 /\ \A i \in 1..k : inbox'[i] = inbox[i]
    BY <1>1, <2>1, DrawnTyped
  <2> QED
    BY <1>1, <2>2 DEF Ids
<1>5. ASSUME NEW t \in Sessions \ {s}, At(t, "item")'
      PROVE  At(t, "item") /\ read'[t] = read[t] /\ Holds(t)
  <2>1. At(t, "item")
    BY <1>3, <1>5 DEF At
  <2> QED
    BY <1>3, <2>1 DEF DrawsInv
<1>6. ASSUME NEW t \in Sessions, At(t, "item")'
      PROVE  Holds(t)'
  <2>1. CASE t = s
    BY <1>2, <1>3, <2>1 DEF Holds
  <2>2. CASE t # s
    BY <1>4, <1>5, <1>6, <2>2 DEF Holds
  <2> QED
    BY <2>1, <2>2
<1>7. ASSUME NEW t \in Sessions \ {s}, At(t, "item")'
      PROVE  read'[t].id # read'[s].id
  BY <1>3, <1>4, <1>5, <1>7 DEF Holds
<1>8. ASSUME NEW t \in Sessions, NEW u \in Sessions, At(t, "item")', At(u, "item")',
             read'[t].id = read'[u].id
      PROVE  t = u
  <2>1. CASE t # s /\ u # s
    BY <1>5, <1>8, <2>1 DEF DrawsInv
  <2>2. CASE t = s \/ u = s
    BY <1>7, <1>8, <2>2
  <2> QED
    BY <2>1, <2>2
<1> QED
  BY <1>6, <1>8 DEF DrawsInv

LEMMA CreateInboxItemDraws ==
    ASSUME CallsInv, DrawsInv, NEW s \in Sessions, CreateInboxItem(s), Elsewhere(s)
    PROVE  DrawsInv'
<1>1. Ids' = Ids /\ \A i \in Ids : i # read[s].id => inbox'[i] = inbox[i]
  BY CreateInboxItemKeeps
<1>2. At(s, "item")
  BY DEF CreateInboxItem
<1>3. ASSUME NEW t \in Sessions, At(t, "item")'
      PROVE  /\ t # s /\ At(t, "item") /\ read'[t] = read[t]
             /\ Holds(t) /\ read[t].id # read[s].id
  <2>1. todo'[t] # <<>> /\ Head(todo'[t]) = "item"
    BY <1>3 DEF At
  <2>2. t # s
    BY <2>1 DEF Elsewhere
  <2>3. At(t, "item") /\ read'[t] = read[t]
    BY <2>1, <2>2 DEF Elsewhere, At
  <2> QED
    BY <1>2, <2>2, <2>3 DEF DrawsInv
<1>4. ASSUME NEW t \in Sessions, At(t, "item")'
      PROVE  Holds(t)'
  BY <1>1, <1>3, <1>4 DEF Holds
<1>5. ASSUME NEW t \in Sessions, NEW u \in Sessions, At(t, "item")', At(u, "item")',
             read'[t].id = read'[u].id
      PROVE  t = u
  BY <1>3, <1>5 DEF DrawsInv
<1> QED
  BY <1>4, <1>5 DEF DrawsInv

(* Every statement of a caller. *)
LEMMA MailStatementKeeps ==
    ASSUME CallsInv, DrawsInv, NEW s \in Sessions, MailStatement(s)
    PROVE  CallsInv' /\ Grows /\ DrawsInv'
<1>1. CallsInv' /\ Grows
  BY WriteMessageKeeps, ReadSourceKeeps, DrawItemIdKeeps, CreateInboxItemKeeps,
     NotifyInboxKeeps, RecordMemoryKeeps, NumberRequestKeeps, CheckListKeeps,
     CreateListKeeps, SubscribeKeeps, ReadRecipientsKeeps, InsertPostKeeps,
     ReadDeliveriesKeeps, LinkDeliveryKeeps DEF MailStatement
<1>2. DrawsInv'
  <2>1. CASE DrawItemId(s)
    BY <2>1, DrawItemIdDraws
  <2>2. CASE CreateInboxItem(s) /\ ~ DrawItemId(s)
    BY <2>2, StatementElsewhere, CreateInboxItemDraws
  <2>3. CASE ~ CreateInboxItem(s) /\ ~ DrawItemId(s)
    <3>1. (Len(inbox') = Len(inbox)) /\ (\A i \in Ids : inbox'[i].to = inbox[i].to)
      <4>1. CASE NumberRequest(s)
        BY <4>1, NumberRequestKeeps
      <4>2. CASE ~ NumberRequest(s)
        <5>1. inbox' = inbox
          BY <2>3, <4>2 DEF MailStatement, WriteMessage, ReadSource, NotifyInbox,
             RecordMemory, CheckList, CreateList, CloseList, Subscribe, Unsubscribe,
             SetMembership, ReadRecipients, InsertPost, ReadDeliveries, LinkDelivery, LinkTo
        <5> QED
          BY <5>1
      <4> QED
        BY <4>1, <4>2
    <3>2. Ids' = Ids
      BY <3>1 DEF Ids
    <3> QED
      BY <2>3, <3>1, <3>2, StatementElsewhere, ElsewhereDraws
  <2> QED
    BY <2>1, <2>2, <2>3
<1> QED
  BY <1>1, <1>2

LEMMA BeginCallDraws ==
    ASSUME CallsInv, DrawsInv, NEW s \in Sessions, NEW c \in MailCall, BeginCall(s, c)
    PROVE  DrawsInv'
<1>1. Goto(s, Statements(c.op)) /\ inbox' = inbox
  BY DEF BeginCall
<1>2. Head(Statements(c.op)) # "item"
  <2>1. PICK r : r = Statements(c.op)
    OBVIOUS
  <2>2. Rest(c.op, r) /\ r[1] \in (Checks \cup {"message", "deliveries"})
    BY <2>1, Begun, CallTyped
  <2>3. Head(r) = r[1]
    BY <2>2, Scripts
  <2> QED
    BY <2>1, <2>2, <2>3 DEF Checks
<1>3. Elsewhere(s)
  BY <1>1, <1>2, ReadElsewhere, GotoElsewhere
<1>4. Ids' = Ids
  BY <1>1 DEF Ids
<1> QED
  BY <1>1, <1>3, <1>4, ElsewhereDraws

LEMMA AbandonCallDraws ==
    ASSUME CallsInv, DrawsInv, NEW s \in Sessions, AbandonCall(s)
    PROVE  DrawsInv'
<1>1. EndCall(s) /\ inbox' = inbox
  BY DEF AbandonCall
<1>2. Elsewhere(s)
  <2>1. todo = [t \in Sessions |-> todo[t]]
    BY DEF CallsInv, CallersTyped
  <2> QED
    BY <1>1, <2>1, ReadElsewhere DEF EndCall, Goto, Elsewhere
<1>3. Ids' = Ids
  BY <1>1 DEF Ids
<1> QED
  BY <1>1, <1>2, <1>3, ElsewhereDraws

LEMMA CallersRest ==
    ASSUME DrawsInv, UNCHANGED callers, Len(inbox') = Len(inbox),
           \A i \in Ids : inbox'[i].to = inbox[i].to
    PROVE  DrawsInv'
<1>1. todo' = todo /\ read' = read /\ Ids' = Ids
  BY DEF callers, Ids
<1>2. \A t \in Sessions : At(t, "item")' => At(t, "item") /\ read'[t] = read[t]
  BY <1>1 DEF At
<1> QED
  BY <1>1, <1>2, DrawsStay
-----------------------------------------------------------------------------
(* The numbers of an IMAP mailbox *)

(* Members of a finite set of numbers have different places. *)
LEMMA Places ==
    ASSUME NEW S \in SUBSET Nat, IsFiniteSet(S)
    PROVE  /\ Cardinality(S) \in Nat
           /\ \A i \in S : Place(i, S) \in 1..Cardinality(S)
           /\ \A i, j \in S : i < j => Place(i, S) < Place(j, S)
           /\ \A i, j \in S : Place(i, S) = Place(j, S) => i = j
           /\ \A n \in 1..Cardinality(S) : \E i \in S : Place(i, S) = n
<1> DEFINE UpToHere(i) == {j \in S : j <= i}
<1>1. Cardinality(S) \in Nat
  BY FS_CardinalityType
<1>2. ASSUME NEW i \in S
      PROVE  /\ IsFiniteSet(UpToHere(i)) /\ Cardinality(UpToHere(i)) \in Nat
             /\ Cardinality(UpToHere(i)) <= Cardinality(S)
             /\ Cardinality(UpToHere(i)) # 0
  <2>1. UpToHere(i) \in SUBSET S /\ i \in UpToHere(i)
    OBVIOUS
  <2>2. IsFiniteSet(UpToHere(i)) /\ Cardinality(UpToHere(i)) <= Cardinality(S)
    BY <2>1, FS_Subset
  <2> HIDE DEF UpToHere
  <2>3. Cardinality(UpToHere(i)) \in Nat
    BY <2>2, FS_CardinalityType
  <2>4. Cardinality(UpToHere(i)) # 0
    BY <2>1, <2>2, FS_EmptySet
  <2> QED
    BY <2>2, <2>3, <2>4
<1>3. ASSUME NEW i \in S, NEW j \in S, i < j
      PROVE  Place(i, S) < Place(j, S)
  <2>1. /\ UpToHere(i) \in SUBSET UpToHere(j)
        /\ j \in UpToHere(j) /\ j \notin UpToHere(i)
    <3>1. i \in Nat /\ j \in Nat /\ S \subseteq Nat
      OBVIOUS
    <3>2. ASSUME NEW x \in S, x <= i
          PROVE  x <= j
      BY <1>3, <3>1, <3>2
    <3>3. ~ (j <= i) /\ j <= j
      BY <1>3, <3>1
    <3> QED
      BY <3>2, <3>3
  <2>2. PICK A, B : A = UpToHere(i) /\ B = UpToHere(j)
    OBVIOUS
  <2>3. IsFiniteSet(B) /\ A \in SUBSET B /\ A # B
    BY <1>2, <2>1, <2>2
  <2>4. Cardinality(A) <= Cardinality(B) /\ Cardinality(A) # Cardinality(B)
    BY <2>3, FS_Subset
  <2>5. Cardinality(A) \in Nat /\ Cardinality(B) \in Nat
    BY <1>2, <2>2
  <2> QED
    BY <2>2, <2>4, <2>5 DEF Place
<1>4. \A i \in S : Place(i, S) \in 1..Cardinality(S)
  BY <1>1, <1>2 DEF Place
<1>5. ASSUME NEW i \in S, NEW j \in S, Place(i, S) = Place(j, S)
      PROVE  i = j
  BY <1>1, <1>3, <1>4, <1>5
<1>6. PICK n, f : n = Cardinality(S) /\ f = [i \in S |-> Place(i, S)]
  OBVIOUS
<1>7. f \in [S -> 1..n] /\ \A i \in S : f[i] = Place(i, S)
  BY <1>4, <1>6
<1>8. f \in Injection(S, 1..n)
  BY <1>5, <1>7 DEF Injection, IsInjective
<1>9. IsFiniteSet(1..n) /\ Cardinality(1..n) = n
  BY <1>1, <1>6, FS_Interval
<1>10. f \in Surjection(S, 1..n)
  BY <1>6, <1>8, <1>9, FS_Injection
<1>11. \A m \in 1..n : \E i \in S : Place(i, S) = m
  BY <1>7, <1>10 DEF Surjection
<1> QED
  BY <1>1, <1>3, <1>4, <1>5, <1>6, <1>11

LEMMA AscendingPlaces ==
    ASSUME NEW S \in SUBSET Nat, IsFiniteSet(S), NEW q, q = Ascending(S)
    PROVE  /\ q \in Seq(Nat) /\ Len(q) = Cardinality(S) /\ Cardinality(S) \in Nat
           /\ \A n \in 1..Len(q) : q[n] \in S /\ Place(q[n], S) = n
           /\ Range(q) = S
<1>1. PICK k \in Nat : k = Cardinality(S)
  BY Places
<1>2. q = [n \in 1..k |-> CHOOSE i \in S : Place(i, S) = n]
  BY <1>1 DEF Ascending
<1>3. \A n \in 1..k : \E i \in S : Place(i, S) = n
  BY <1>1, Places
<1>4. \A n \in 1..k : q[n] \in S /\ Place(q[n], S) = n
  BY <1>2, <1>3
<1>5. q \in [1..k -> Nat]
  BY <1>2, <1>4
<1>6. q \in Seq(Nat) /\ Len(q) = k
  BY <1>5
<1>7. ASSUME NEW i \in S
      PROVE  \E n \in 1..k : q[n] = i
  <2>1. PICK n : n = Place(i, S)
    OBVIOUS
  <2>2. n \in 1..k
    BY <1>1, <2>1, Places
  <2>3. q[n] \in S /\ Place(q[n], S) = Place(i, S)
    BY <1>4, <2>1, <2>2
  <2>4. q[n] = i
    BY <2>3, Places
  <2> QED
    BY <2>2, <2>4
<1>8. Range(q) = S
  BY <1>4, <1>5, <1>7 DEF Range
<1> QED
  BY <1>1, <1>4, <1>6, <1>8

(* The window: it holds at most as many items as it is wide, and all of    *)
(* the player's when they are not more. *)
LEMMA Newest ==
    ASSUME CallsInv, NEW p, NEW mine, mine = Owned(p),
           NEW S, S = NewestItems(p, Window)
    PROVE  /\ IsFiniteSet(mine) /\ mine \subseteq Nat /\ Cardinality(mine) \in Nat
           /\ S \subseteq mine /\ IsFiniteSet(S) /\ Cardinality(S) <= Window
           /\ Cardinality(mine) <= Window => S = mine
<1> DEFINE After(i) == {j \in mine : j > i}
<1>1. PICK k \in Nat : k = Len(inbox)
  BY TablesNow
<1>2. IsFiniteSet(1..k)
  BY FS_Interval
<1>3. mine \in SUBSET (1..k) /\ mine \subseteq Nat
  BY <1>1 DEF Ids, Owned
<1>4. IsFiniteSet(mine) /\ Cardinality(mine) \in Nat
  BY <1>2, <1>3, FS_Subset, FS_CardinalityType
<1>5. S = {i \in mine : Cardinality(After(i)) < Window}
  BY DEF NewestItems, Owned
<1>6. S \in SUBSET mine
  BY <1>5
<1>7. IsFiniteSet(S)
  BY <1>4, <1>6, FS_Subset
<1>8. ASSUME NEW i \in mine
      PROVE  /\ IsFiniteSet(After(i)) /\ Cardinality(After(i)) \in Nat
             /\ Cardinality(After(i)) < Cardinality(mine)
  <2>1. After(i) \in SUBSET mine /\ i \notin After(i)
    BY <1>3
  <2>2. After(i) # mine
    BY <2>1
  <2> HIDE DEF After
  <2>3. IsFiniteSet(After(i)) /\ Cardinality(After(i)) <= Cardinality(mine)
        /\ Cardinality(After(i)) # Cardinality(mine)
    BY <1>4, <2>1, <2>2, FS_Subset
  <2>4. Cardinality(After(i)) \in Nat
    BY <2>3, FS_CardinalityType
  <2> QED
    BY <1>4, <2>3, <2>4
<1>9. Cardinality(mine) <= Window => S = mine
  <2> SUFFICES ASSUME Cardinality(mine) <= Window, NEW i \in mine
               PROVE  i \in S
    BY <1>6
  <2>1. Cardinality(After(i)) < Window
    <3>1. PICK x, y : x = Cardinality(After(i)) /\ y = Cardinality(mine)
      OBVIOUS
    <3>2. x \in Nat /\ y \in Nat /\ x < y /\ y <= Window
      BY <1>4, <1>8, <3>1
    <3> QED
      BY <3>1, <3>2, MailSidecarAssumption DEF MailSidecarAssumption
  <2> QED
    BY <1>5, <2>1
<1>10. ASSUME NEW i \in mine, NEW j \in mine, i < j
       PROVE  Cardinality(After(j)) < Cardinality(After(i))
  <2>1. After(j) \in SUBSET After(i) /\ j \in After(i) /\ j \notin After(j)
    BY <1>3, <1>10
  <2>2. PICK A, B : A = After(j) /\ B = After(i)
    OBVIOUS
  <2>3. IsFiniteSet(B) /\ A \in SUBSET B /\ A # B
    BY <1>8, <2>1, <2>2
  <2>4. Cardinality(A) <= Cardinality(B) /\ Cardinality(A) # Cardinality(B)
    BY <2>3, FS_Subset
  <2>5. Cardinality(A) \in Nat /\ Cardinality(B) \in Nat
    BY <1>8, <2>2
  <2> QED
    BY <2>2, <2>4, <2>5
<1> HIDE DEF After
<1>11. PICK w \in Nat : w = Window
  BY MailSidecarAssumption DEF MailSidecarAssumption
<1>12. PICK f : f = [i \in S |-> Cardinality(After(i))]
  OBVIOUS
<1>13. f \in [S -> 0..w-1]
  <2>1. \A i \in S : Cardinality(After(i)) \in 0..w-1
    BY <1>5, <1>6, <1>8, <1>11
  <2> QED
    BY <1>12, <2>1
<1>14. \A i, j \in S : f[i] = f[j] => i = j
  <2> SUFFICES ASSUME NEW i \in S, NEW j \in S, f[i] = f[j]
               PROVE  i = j
    OBVIOUS
  <2>1. i \in mine /\ j \in mine /\ i \in Nat /\ j \in Nat
    BY <1>3, <1>6
  <2>2. f[i] = Cardinality(After(i)) /\ f[j] = Cardinality(After(j))
    BY <1>12
  <2>3. f[i] \in Nat /\ f[j] \in Nat
    BY <1>8, <2>1, <2>2
  <2>4. ~ (i < j) /\ ~ (j < i)
    <3>1. i < j => f[j] < f[i]
      BY <1>10, <2>1, <2>2
    <3>2. j < i => f[i] < f[j]
      BY <1>10, <2>1, <2>2
    <3> QED
      BY <2>3, <3>1, <3>2
  <2> QED
    BY <2>1, <2>4
<1>15. f \in Injection(S, 0..w-1)
  BY <1>13, <1>14 DEF Injection, IsInjective
<1>16. IsFiniteSet(0..w-1) /\ Cardinality(0..w-1) = w
  BY FS_Interval
<1>17. Cardinality(S) <= w
  BY <1>15, <1>16, FS_Injection
<1> QED
  BY <1>3, <1>4, <1>6, <1>7, <1>9, <1>11, <1>17

(* A selection, and one that is all of the player's items, in order.      *)
Fits(q) == /\ q \in Seq(Nat) /\ Len(q) \in 0..Window
           /\ \A n \in 1..Len(q) : q[n] \in Ids

InPlace(mine, q) ==
    Cardinality(mine) <= Window =>
        /\ Range(q) = mine
        /\ \A n \in 1..Len(q) : q[n] \in mine /\ Place(q[n], Range(q)) = n

(* What loading a mailbox returns. *)
LEMMA Loaded ==
    ASSUME CallsInv, NEW p
    PROVE  /\ Fits(Mailbox(p)) /\ InPlace(Owned(p), Mailbox(p))
           /\ Owned(p) \in SUBSET Nat /\ IsFiniteSet(Owned(p))
<1>1. PICK mine, S, q : mine = Owned(p) /\ S = NewestItems(p, Window) /\ q = Mailbox(p)
  OBVIOUS
<1>2. /\ IsFiniteSet(mine) /\ mine \subseteq Nat /\ Cardinality(mine) \in Nat
      /\ S \subseteq mine /\ IsFiniteSet(S) /\ Cardinality(S) <= Window
      /\ Cardinality(mine) <= Window => S = mine
  BY <1>1, Newest
<1>3. S \in SUBSET Nat /\ q = Ascending(S) /\ mine \subseteq Ids
  BY <1>1, <1>2 DEF Mailbox, Owned
<1>4. /\ q \in Seq(Nat) /\ Len(q) = Cardinality(S) /\ Cardinality(S) \in Nat
      /\ \A n \in 1..Len(q) : q[n] \in S /\ Place(q[n], S) = n
      /\ Range(q) = S
  BY <1>2, <1>3, AscendingPlaces
<1>5. Len(q) \in 0..Window
  BY <1>2, <1>4, MailSidecarAssumption DEF MailSidecarAssumption
<1>6. \A n \in 1..Len(q) : q[n] \in Ids
  BY <1>2, <1>3, <1>4
<1>7. Cardinality(mine) <= Window =>
          /\ Range(q) = mine
          /\ \A n \in 1..Len(q) : q[n] \in mine /\ Place(q[n], Range(q)) = n
  BY <1>2, <1>4
<1>8. Fits(q) /\ InPlace(mine, q)
  BY <1>4, <1>5, <1>6, <1>7 DEF Fits, InPlace
<1> QED
  BY <1>1, <1>2, <1>8
-----------------------------------------------------------------------------
(* The IMAP clients *)

LEMMA ImapTyped ==
    ASSUME ImapInv, NEW c \in Clients
    PROVE  /\ login \in [Clients -> Players \cup {None}]
           /\ selected \in [Clients -> Seq(Nat)]
           /\ known \in [Clients -> Nat] /\ told \in [Clients -> Nat]
           /\ fetched = [d \in Clients |-> fetched[d]]
           /\ idling \subseteq Clients /\ (c \in idling => login[c] # None)
           /\ login[c] \in Players \cup {None} /\ selected[c] \in Seq(Nat)
           /\ \A n \in 1..Len(selected[c]) : selected[c][n] \in Ids
           /\ Len(selected[c]) <= Window
           /\ known[c] \in 0..Window /\ told[c] \in 0..Window
           /\ shown \in [Clients -> Seq(Nat)] /\ shown[c] \in Seq(Nat)
           /\ Chosen(Owned(login[c]), selected[c], told[c], fetched[c], shown[c])
           /\ login[c] = None => told[c] = 0 /\ fetched[c] = Nothing
BY DEF ImapInv, SidecarTypeOK, Selected

(* A step of one client: its own row must be right. *)
LEMMA ClientStep ==
    ASSUME CallsInv, ImapInv, NEW c \in Clients,
           Len(inbox') = Len(inbox), \A i \in Ids : inbox'[i].to = inbox[i].to,
           NEW p \in Players \cup {None}, NEW q \in Seq(Nat), NEW k, NEW e, NEW x,
           NEW w \in Seq(Nat),
           login' = [login EXCEPT ![c] = p], selected' = [selected EXCEPT ![c] = q],
           known' = [known EXCEPT ![c] = k], told' = [told EXCEPT ![c] = e],
           fetched' = [fetched EXCEPT ![c] = x], shown' = [shown EXCEPT ![c] = w],
           idling' \subseteq idling \cup {c}, c \in idling' => p # None,
           k \in 0..Window, e \in 0..Window, Len(q) <= Window,
           \A n \in 1..Len(q) : q[n] \in Ids,
           Chosen(Owned(p), q, e, x, w), p = None => e = 0 /\ x = Nothing
    PROVE  ImapInv'
<1>1. /\ login \in [Clients -> Players \cup {None}] /\ selected \in [Clients -> Seq(Nat)]
      /\ known \in [Clients -> Nat] /\ told \in [Clients -> Nat]
      /\ fetched = [d \in Clients |-> fetched[d]] /\ shown \in [Clients -> Seq(Nat)] /\ idling \subseteq Clients
  BY ImapTyped
<1>2. k \in Nat /\ e \in Nat
  BY MailSidecarAssumption DEF MailSidecarAssumption
<1>3. /\ login' \in [Clients -> Players \cup {None}] /\ selected' \in [Clients -> Seq(Nat)]
      /\ known' \in [Clients -> Nat] /\ told' \in [Clients -> Nat]
      /\ fetched' = [d \in Clients |-> fetched'[d]] /\ shown' \in [Clients -> Seq(Nat)]
  BY <1>1, <1>2
<1>4. /\ login'[c] = p /\ selected'[c] = q /\ known'[c] = k /\ told'[c] = e /\ fetched'[c] = x
      /\ shown'[c] = w
      /\ \A d \in Clients \ {c} : /\ login'[d] = login[d] /\ selected'[d] = selected[d]
                                  /\ known'[d] = known[d] /\ told'[d] = told[d]
                                  /\ fetched'[d] = fetched[d] /\ shown'[d] = shown[d]
  BY <1>1
<1>5. Ids' = Ids
  BY DEF Ids
<1>6. \A y : Owned(y)' = Owned(y)
  BY <1>5 DEF Owned
<1>7. ASSUME NEW d \in Clients
      PROVE  /\ \A n \in 1..Len(selected'[d]) : selected'[d][n] \in Ids'
             /\ Len(selected'[d]) <= Window
             /\ known'[d] \in 0..Window /\ told'[d] \in 0..Window
             /\ d \in idling' => login'[d] # None
             /\ Chosen(Owned(login'[d]), selected'[d], told'[d], fetched'[d], shown'[d])
             /\ login'[d] = None => told'[d] = 0 /\ fetched'[d] = Nothing
  <2>1. CASE d = c
    BY <1>4, <1>5, <2>1
  <2>2. CASE d # c
    BY <1>4, <1>5, <2>2, ImapTyped
  <2> QED
    BY <2>1, <2>2
<1>8. SidecarTypeOK'
  BY <1>1, <1>3, <1>7 DEF SidecarTypeOK
<1>9. ASSUME NEW d \in Clients
      PROVE  Selected(d)'
  <2>1. PICK y : y = login'[d]
    OBVIOUS
  <2>2. Owned(y)' = Owned(y)
    BY <1>6
  <2>3. Owned(login[d])' = Owned(y)
    BY <2>1, <2>2 DEF Owned
  <2> QED
    BY <1>7, <2>1, <2>3 DEF Selected
<1> QED
  BY <1>3, <1>8, <1>9 DEF ImapInv
-----------------------------------------------------------------------------
LEMMA RowKept ==
    ASSUME ImapInv, NEW c \in Clients
    PROVE  /\ login = [login EXCEPT ![c] = login[c]]
           /\ selected = [selected EXCEPT ![c] = selected[c]]
           /\ known = [known EXCEPT ![c] = known[c]] /\ told = [told EXCEPT ![c] = told[c]]
           /\ fetched = [fetched EXCEPT ![c] = fetched[c]]
           /\ shown = [shown EXCEPT ![c] = shown[c]]
<1>1. /\ login \in [Clients -> Players \cup {None}] /\ selected \in [Clients -> Seq(Nat)]
      /\ known \in [Clients -> Nat] /\ told \in [Clients -> Nat]
      /\ fetched = [d \in Clients |-> fetched[d]] /\ shown \in [Clients -> Seq(Nat)]
  BY ImapTyped
<1> QED
  BY <1>1

LEMMA EnsuredFits ==
    ASSUME CallsInv, ImapInv, NEW c \in Clients
    PROVE  /\ Fits(Ensured(c))
           /\ Chosen(Owned(login[c]), Ensured(c), told[c], fetched[c], shown[c])
<1>1. CASE selected[c] = <<>>
  <2>1. Ensured(c) = Mailbox(login[c])
    BY <1>1 DEF Ensured
  <2>2. Fits(Mailbox(login[c])) /\ InPlace(Owned(login[c]), Mailbox(login[c]))
    BY Loaded
  <2>3. Chosen(Owned(login[c]), selected[c], told[c], fetched[c], shown[c])
    BY ImapTyped
  <2>4. ASSUME Cardinality(Owned(login[c])) <= Window, fetched[c] # Nothing
        PROVE  FALSE
    <3>1. PICK w, x : w = shown[c] /\ x = fetched[c]
      OBVIOUS
    <3>2. /\ x[1] \in 1..Len(w) /\ Range(w) \subseteq Range(selected[c]) /\ w \in Seq(Nat)
      BY <2>3, <2>4, <3>1, ImapTyped DEF Chosen
    <3>3. w[x[1]] \in Range(w)
      BY <3>2 DEF Range
    <3>4. PICK i \in DOMAIN selected[c] : TRUE
      BY <3>2, <3>3 DEF Range
    <3> QED
      BY <1>1, <3>4
  <2> QED
    BY <2>1, <2>2, <2>4 DEF Chosen, InPlace
<1>2. CASE selected[c] # <<>>
  <2>1. Ensured(c) = selected[c]
    BY <1>2 DEF Ensured
  <2> QED
    BY <2>1, ImapTyped DEF Fits
<1> QED
  BY <1>1, <1>2

LEMMA SameRow ==
    ASSUME UNCHANGED inbox
    PROVE  Len(inbox') = Len(inbox) /\ \A i \in Ids : inbox'[i].to = inbox[i].to
OBVIOUS

LEMMA Zero == 0 \in 0..Window /\ 0 \notin {n \in Nat : n > 0}
BY MailSidecarAssumption DEF MailSidecarAssumption

LEMMA NothingShown ==
    ASSUME NEW c, Forget(c)
    PROVE  /\ fetched' = [fetched EXCEPT ![c] = Nothing]
           /\ \E w \in Seq(Nat) : shown' = [shown EXCEPT ![c] = w]
<1>1. <<>> \in Seq(Nat)
  OBVIOUS
<1>2. PICK w \in Seq(Nat) : w = <<>>
  BY <1>1
<1>3. shown' = [shown EXCEPT ![c] = w]
  BY <1>2 DEF Forget
<1> QED
  BY <1>3 DEF Forget

LEMMA LoginKeeps ==
    ASSUME CallsInv, ImapInv, NEW c \in Clients, NEW p \in Players, Login(c, p),
           UNCHANGED inbox
    PROVE  ImapInv'
<1>0. PICK w \in Seq(Nat) : shown' = [shown EXCEPT ![c] = w]
  BY NothingShown DEF Login
<1>1. /\ login' = [login EXCEPT ![c] = p] /\ told' = [told EXCEPT ![c] = 0]
      /\ fetched' = [fetched EXCEPT ![c] = Nothing]
      /\ selected' = [selected EXCEPT ![c] = selected[c]]
      /\ known' = [known EXCEPT ![c] = known[c]]
      /\ idling' = idling /\ c \notin idling
  BY RowKept, NothingShown DEF Login
<1>2. Chosen(Owned(p), selected[c], 0, Nothing, w)
  BY DEF Chosen
<1>3. /\ p \in Players \cup {None} /\ selected[c] \in Seq(Nat)
      /\ \A n \in 1..Len(selected[c]) : selected[c][n] \in Ids
      /\ Len(selected[c]) <= Window /\ known[c] \in 0..Window
      /\ p # None
  BY ImapTyped, MailCallsAssumption DEF MailCallsAssumption
<1> QED
  BY <1>0, <1>1, <1>2, <1>3, Zero, SameRow, ClientStep

LEMMA SelectKeeps ==
    ASSUME CallsInv, ImapInv, NEW c \in Clients, Select(c), UNCHANGED inbox
    PROVE  ImapInv'
<1>0. PICK w \in Seq(Nat) : shown' = [shown EXCEPT ![c] = w]
  BY NothingShown DEF Select
<1>1. PICK q : q = Mailbox(login[c])
  OBVIOUS
<1>2. Fits(q) /\ InPlace(Owned(login[c]), q)
  BY <1>1, Loaded
<1>3. selected' = [selected EXCEPT ![c] = q]
  BY <1>1 DEF Select
<1>4. selected'[c] = q
  BY <1>3, ImapTyped
<1>5. /\ login' = [login EXCEPT ![c] = login[c]] /\ told' = [told EXCEPT ![c] = Len(q)]
      /\ fetched' = [fetched EXCEPT ![c] = Nothing]
      /\ known' = [known EXCEPT ![c] = known[c]]
      /\ idling' = idling /\ login[c] # None
  BY <1>4, RowKept, NothingShown DEF Select, Ready
<1>6. Chosen(Owned(login[c]), q, Len(q), Nothing, w)
  BY <1>2 DEF Chosen, InPlace
<1>7. q \in Seq(Nat) /\ Len(q) \in 0..Window /\ Len(q) <= Window /\ \A n \in 1..Len(q) : q[n] \in Ids
  BY <1>2 DEF Fits
<1>8. login[c] \in Players \cup {None} /\ known[c] \in 0..Window
  BY ImapTyped
<1> QED
  BY <1>0, <1>3, <1>5, <1>6, <1>7, <1>8, SameRow, ClientStep

LEMMA CloseMailboxKeeps ==
    ASSUME CallsInv, ImapInv, NEW c \in Clients, CloseMailbox(c), UNCHANGED inbox
    PROVE  ImapInv'
<1>0. <<>> \in Seq(Nat)
  OBVIOUS
<1>0a. PICK w \in Seq(Nat) : shown' = [shown EXCEPT ![c] = w]
  BY NothingShown DEF CloseMailbox
<1>1. PICK q : q = <<>> /\ q \in Seq(Nat)
  BY <1>0
<1>2. /\ login' = [login EXCEPT ![c] = login[c]] /\ told' = [told EXCEPT ![c] = 0]
      /\ fetched' = [fetched EXCEPT ![c] = Nothing]
      /\ selected' = [selected EXCEPT ![c] = q]
      /\ known' = [known EXCEPT ![c] = known[c]]
      /\ idling' = idling /\ login[c] # None
  BY <1>1, RowKept, NothingShown DEF CloseMailbox, Ready
<1>3. Chosen(Owned(login[c]), q, 0, Nothing, w)
  BY DEF Chosen
<1>4. q \in Seq(Nat) /\ Len(q) <= Window /\ \A n \in 1..Len(q) : q[n] \in Ids
  BY <1>1, MailSidecarAssumption DEF MailSidecarAssumption
<1>5. login[c] \in Players \cup {None} /\ known[c] \in 0..Window
  BY ImapTyped
<1> QED
  BY <1>0a, <1>2, <1>3, <1>4, <1>5, Zero, SameRow, ClientStep

LEMMA FetchKeeps ==
    ASSUME CallsInv, ImapInv, NEW c \in Clients, Fetch(c), UNCHANGED inbox
    PROVE  ImapInv'
<1>1. PICK q : q = Ensured(c)
  OBVIOUS
<1>2. Fits(q) /\ Chosen(Owned(login[c]), q, told[c], fetched[c], shown[c])
  BY <1>1, EnsuredFits
<1>3. selected' = [selected EXCEPT ![c] = q]
  BY <1>1 DEF Fetch
<1>4. selected'[c] = q
  BY <1>3, ImapTyped
<1>4a. shown' = [shown EXCEPT ![c] = q]
  BY <1>4 DEF Fetch
<1>5. PICK x : x = Answer(told[c], q)
  OBVIOUS
<1>6. /\ login' = [login EXCEPT ![c] = login[c]] /\ told' = [told EXCEPT ![c] = told[c]]
      /\ fetched' = [fetched EXCEPT ![c] = x]
      /\ known' = [known EXCEPT ![c] = known[c]]
      /\ idling' = idling /\ login[c] # None /\ told[c] > 0
  BY <1>4, <1>5, RowKept DEF Fetch, Ready
<1>7. q \in Seq(Nat) /\ Len(q) \in 0..Window /\ Len(q) <= Window /\ \A n \in 1..Len(q) : q[n] \in Ids
  BY <1>2 DEF Fits
<1>8. login[c] \in Players \cup {None} /\ known[c] \in 0..Window /\ told[c] \in 0..Window
  BY ImapTyped
<1>9. x # Nothing => x[1] \in 1..Len(q) /\ x[2] = q[x[1]]
  <2>1. CASE told[c] <= Len(q)
    <3>1. x = <<told[c], q[told[c]]>>
      BY <1>5, <2>1 DEF Answer
    <3>2. x[1] = told[c] /\ x[2] = q[told[c]]
      BY <3>1
    <3> QED
      BY <1>6, <1>7, <1>8, <2>1, <3>2
  <2>2. CASE ~ (told[c] <= Len(q))
    BY <1>5, <2>2 DEF Answer
  <2> QED
    BY <2>1, <2>2
<1>10. Chosen(Owned(login[c]), q, told[c], x, q)
  BY <1>2, <1>6, <1>9 DEF Chosen
<1> QED
  BY <1>3, <1>4a, <1>6, <1>7, <1>8, <1>10, SameRow, ClientStep

LEMMA StartIdleKeeps ==
    ASSUME CallsInv, ImapInv, NEW c \in Clients, StartIdle(c), UNCHANGED inbox
    PROVE  ImapInv'
<1>1. PICK q : q = Ensured(c)
  OBVIOUS
<1>2. Fits(q) /\ Chosen(Owned(login[c]), q, told[c], fetched[c], shown[c])
  BY <1>1, EnsuredFits
<1>3. selected' = [selected EXCEPT ![c] = q]
  BY <1>1 DEF StartIdle
<1>4. selected'[c] = q
  BY <1>3, ImapTyped
<1>5. /\ login' = [login EXCEPT ![c] = login[c]] /\ told' = [told EXCEPT ![c] = told[c]]
      /\ fetched' = [fetched EXCEPT ![c] = fetched[c]]
      /\ known' = [known EXCEPT ![c] = Len(q)] /\ shown' = [shown EXCEPT ![c] = shown[c]]
      /\ idling' = idling \cup {c} /\ login[c] # None
  BY <1>4, RowKept DEF StartIdle, Ready
<1>6. q \in Seq(Nat) /\ Len(q) \in 0..Window /\ Len(q) <= Window /\ \A n \in 1..Len(q) : q[n] \in Ids
  BY <1>2 DEF Fits
<1>7. login[c] \in Players \cup {None} /\ told[c] \in 0..Window
      /\ shown[c] \in Seq(Nat)
  BY ImapTyped
<1> QED
  BY <1>2, <1>3, <1>5, <1>6, <1>7, SameRow, ClientStep

LEMMA PollIdleKeeps ==
    ASSUME CallsInv, ImapInv, NEW c \in Clients, PollIdle(c), UNCHANGED inbox
    PROVE  ImapInv'
<1>1. PICK q, x, w : q = Mailbox(login[c]) /\ x = fetched[c] /\ w = shown[c]
  OBVIOUS
<1>2. Fits(q) /\ InPlace(Owned(login[c]), q)
  BY <1>1, Loaded
<1>3. selected' = [selected EXCEPT ![c] = q]
  BY <1>1 DEF PollIdle
<1>4. selected'[c] = q
  BY <1>3, ImapTyped
<1>5. PICK e : e = (IF Len(q) # known[c] THEN Len(q) ELSE told[c])
  OBVIOUS
<1>0. told' = [told EXCEPT ![c] = e]
  <2>2. told = [told EXCEPT ![c] = told[c]]
    BY RowKept
  <2>1. Len(selected'[c]) = Len(q)
    BY <1>4
  <2>3. CASE Len(q) # known[c]
    <3>1. told' = [told EXCEPT ![c] = Len(selected'[c])]
      BY <2>1, <2>3 DEF PollIdle
    <3> QED
      BY <1>5, <2>1, <2>3, <3>1
  <2>4. CASE Len(q) = known[c]
    <3>1. e = told[c] /\ told' = told
      BY <1>5, <2>1, <2>4 DEF PollIdle
    <3> QED
      BY <2>2, <3>1
  <2> QED
    BY <2>3, <2>4
<1>6. /\ login' = [login EXCEPT ![c] = login[c]] /\ told' = [told EXCEPT ![c] = e]
      /\ fetched' = [fetched EXCEPT ![c] = x]
      /\ known' = [known EXCEPT ![c] = Len(q)] /\ shown' = [shown EXCEPT ![c] = w]
      /\ idling' = idling /\ c \in idling
  BY <1>0, <1>1, <1>4, RowKept DEF PollIdle
<1>7. q \in Seq(Nat) /\ Len(q) \in 0..Window /\ Len(q) <= Window /\ \A n \in 1..Len(q) : q[n] \in Ids
  BY <1>2 DEF Fits
<1>8. /\ login[c] \in Players \cup {None} /\ login[c] # None /\ e \in 0..Window
      /\ w \in Seq(Nat)
  BY <1>1, <1>5, <1>6, <1>7, ImapTyped
<1>9. ASSUME Cardinality(Owned(login[c])) <= Window, x # Nothing
      PROVE  /\ \A n \in 1..Len(w) : Place(w[n], Range(w)) = n
             /\ Range(w) \subseteq Range(q)
             /\ x[1] \in 1..Len(w) /\ x[2] = w[x[1]]
  <2>1. PICK mine, S : mine = Owned(login[c]) /\ S = selected[c] /\ S \in Seq(Nat)
    BY ImapTyped
  <2>2. /\ \A n \in 1..Len(S) : S[n] \in mine
        /\ \A n \in 1..Len(w) : Place(w[n], Range(w)) = n
        /\ Range(w) \subseteq Range(S)
        /\ x[1] \in 1..Len(w) /\ x[2] = w[x[1]]
    BY <1>1, <1>9, <2>1, ImapTyped DEF Chosen
  <2>3. Range(S) \subseteq mine
    BY <2>1, <2>2 DEF Range
  <2>4. Range(q) = mine
    BY <1>2, <1>9, <2>1 DEF InPlace
  <2> QED
    BY <2>2, <2>3, <2>4
<1>10. Chosen(Owned(login[c]), q, e, x, w)
  BY <1>2, <1>9 DEF Chosen, InPlace
<1> QED
  BY <1>3, <1>6, <1>7, <1>8, <1>10, SameRow, ClientStep

LEMMA DoneKeeps ==
    ASSUME CallsInv, ImapInv, NEW c \in Clients, Done(c), UNCHANGED inbox
    PROVE  ImapInv'
<1>1. /\ login' = [login EXCEPT ![c] = login[c]] /\ told' = [told EXCEPT ![c] = told[c]]
      /\ fetched' = [fetched EXCEPT ![c] = fetched[c]]
      /\ selected' = [selected EXCEPT ![c] = selected[c]]
      /\ known' = [known EXCEPT ![c] = 0] /\ shown' = [shown EXCEPT ![c] = shown[c]]
      /\ idling' = idling \ {c}
  BY RowKept DEF Done
<1>2. /\ login[c] \in Players \cup {None} /\ selected[c] \in Seq(Nat)
      /\ \A n \in 1..Len(selected[c]) : selected[c][n] \in Ids
      /\ Len(selected[c]) <= Window /\ told[c] \in 0..Window
      /\ shown[c] \in Seq(Nat) /\ (login[c] = None => told[c] = 0 /\ fetched[c] = Nothing)
      /\ Chosen(Owned(login[c]), selected[c], told[c], fetched[c], shown[c])
  BY ImapTyped
<1> QED
  BY <1>1, <1>2, Zero, SameRow, ClientStep

LEMMA LogoutKeeps ==
    ASSUME CallsInv, ImapInv, NEW c \in Clients, Logout(c), UNCHANGED inbox
    PROVE  ImapInv'
<1>0. <<>> \in Seq(Nat)
  OBVIOUS
<1>0a. PICK w \in Seq(Nat) : shown' = [shown EXCEPT ![c] = w]
  BY NothingShown DEF Logout
<1>1. PICK q : q = <<>> /\ q \in Seq(Nat)
  BY <1>0
<1>2. /\ login' = [login EXCEPT ![c] = None] /\ told' = [told EXCEPT ![c] = 0]
      /\ fetched' = [fetched EXCEPT ![c] = Nothing]
      /\ selected' = [selected EXCEPT ![c] = q]
      /\ known' = [known EXCEPT ![c] = 0]
      /\ idling' = idling \ {c}
  BY <1>1, NothingShown DEF Logout
<1>3. Chosen(Owned(None), q, 0, Nothing, w)
  BY DEF Chosen
<1>4. q \in Seq(Nat) /\ Len(q) <= Window /\ \A n \in 1..Len(q) : q[n] \in Ids
  BY <1>1, MailSidecarAssumption DEF MailSidecarAssumption
<1>5. None \in Players \cup {None}
  OBVIOUS
<1> QED
  BY <1>0a, <1>2, <1>3, <1>4, <1>5, Zero, SameRow, ClientStep
-----------------------------------------------------------------------------
(* An item of a player stays one. *)
LEMMA ImapStays ==
    ASSUME CallsInv, Grows, Lengths, ImapInv, UNCHANGED imapVars
    PROVE  ImapInv'
<1>1. /\ login' = login /\ selected' = selected /\ idling' = idling /\ known' = known
      /\ told' = told /\ fetched' = fetched /\ shown' = shown
  BY DEF imapVars
<1>2. PICK k \in Nat : k = Len(inbox)
  BY DEF Lengths
<1>3. PICK m \in Nat : m = Len(inbox') /\ k <= m
  BY <1>2 DEF Lengths, Grows
<1>4. /\ Ids = 1..k /\ Ids' = 1..m
      /\ \A i \in 1..k : inbox[i].to # None => inbox'[i].to = inbox[i].to
  BY <1>2, <1>3 DEF Ids, Grows
<1>5. ASSUME NEW c \in Clients
      PROVE  Selected(c)'
  <2>0. CASE login[c] = None
    BY <1>1, <2>0, ImapTyped DEF Selected, Chosen
  <2>1. PICK p, items, e, x, w, mine, more :
            /\ p = login[c] /\ items = selected[c] /\ e = told[c] /\ x = fetched[c]
            /\ w = shown[c]
            /\ mine = Owned(p) /\ more = {i \in 1..m : inbox'[i].to = p}
    OBVIOUS
  <2>2. Chosen(mine, items, e, x, w)
    BY <2>1, ImapTyped
  <2>3. CASE p # None
    <3>1. mine \subseteq more
      BY <1>3, <1>4, <2>1, <2>3 DEF Owned
    <3>2. IsFiniteSet(more) /\ IsFiniteSet(mine)
      <4>1. IsFiniteSet(1..m)
        BY FS_Interval
      <4>2. more \in SUBSET (1..m)
        BY <2>1
      <4>3. IsFiniteSet(more)
        BY <4>1, <4>2, FS_Subset
      <4> QED
        BY <3>1, <4>3, FS_Subset
    <3>3. Cardinality(mine) <= Cardinality(more) /\ Cardinality(mine) \in Nat
          /\ Cardinality(more) \in Nat
      BY <3>1, <3>2, FS_Subset, FS_CardinalityType
    <3>4. Cardinality(more) <= Window => Cardinality(mine) <= Window
      BY <3>3, MailSidecarAssumption DEF MailSidecarAssumption
    <3>5. Chosen(more, items, e, x, w)
      BY <2>2, <3>1, <3>4 DEF Chosen
    <3>6. Owned(login[c])' = more
      BY <1>1, <1>4, <2>1 DEF Owned
    <3> QED
      BY <1>1, <2>1, <2>3, <3>5, <3>6 DEF Selected
  <2> QED
    BY <2>0, <2>1, <2>3
<1>6. \A c \in Clients : \A n \in 1..Len(selected[c]) : selected[c][n] \in Ids'
  <2> SUFFICES ASSUME NEW c \in Clients, NEW n \in 1..Len(selected[c])
               PROVE  selected[c][n] \in Ids'
    OBVIOUS
  <2>1. selected[c][n] \in Ids
    BY ImapTyped
  <2>2. \A i \in Ids : i \in Ids'
    BY <1>3, <1>4
  <2> QED
    BY <2>1, <2>2
<1>7. SidecarTypeOK'
  BY <1>1, <1>6 DEF ImapInv, SidecarTypeOK
<1> QED
  BY <1>1, <1>5, <1>7 DEF ImapInv

-----------------------------------------------------------------------------
(* Claims, acks and archived items *)

LEMMA StatusKeeps ==
    ASSUME CallsInv, NEW id \in Ids, inbox[id].to # None, NEW st \in Open \cup Finished,
           inbox[id].status \in Finished => st \in Finished,
           SetStatus(id, st), UNCHANGED <<notices, mails, roomEnabled, lists, callers>>
    PROVE  /\ CallsInv' /\ Grows
           /\ Len(inbox') = Len(inbox) /\ \A i \in Ids : inbox'[i].to = inbox[i].to
<1>1. inbox \in Seq(Item) /\ Len(inbox) \in Nat
  BY TablesNow
<1>2. PICK old, new : old = inbox[id] /\ new = [old EXCEPT !.status = st]
  OBVIOUS
<1>3. inbox' = [inbox EXCEPT ![id] = new]
  BY <1>2 DEF SetStatus
<1>4. old \in Item
  BY <1>1, <1>2 DEF Ids
<1>5. /\ new \in Item /\ new.to = old.to /\ new.letter = old.letter /\ new.kind = old.kind
      /\ new.source = old.source /\ new.status = st
  BY <1>2, <1>4 DEF Item
<1>6. /\ inbox' \in Seq(Item) /\ Len(inbox') = Len(inbox) /\ inbox'[id] = new
      /\ \A i \in Ids : i # id => inbox'[i] = inbox[i]
  BY <1>1, <1>3, <1>5 DEF Ids
<1>7. \A i \in Ids : /\ inbox'[i].to = inbox[i].to
                     /\ inbox[i].to = None => inbox'[i] = inbox[i]
                     /\ inbox'[i].letter = inbox[i].letter
                     /\ inbox'[i].kind = inbox[i].kind /\ inbox'[i].source = inbox[i].source
                     /\ inbox[i].status \in Finished => inbox'[i].status \in Finished
  BY <1>2, <1>5, <1>6
<1>8. UNCHANGED <<notices, roomEnabled, written, remembered, lists>> /\ answered' = answered
  BY DEF mails
<1>9. \A a \in answered' \ answered : Answers(a)
  BY <1>8
<1>10. Tables
  BY <1>6, <1>7, <1>8, <1>9, Touched
<1>11. CallsInv' /\ Grows
  BY <1>10, TableStepKeeps
<1> QED
  BY <1>6, <1>7, <1>11

LEMMA HandleKeeps ==
    ASSUME CallsInv, NEW p \in Players, NEW id \in Ids, Handle(p, id),
           UNCHANGED <<notices, mails, roomEnabled, lists, callers>>
    PROVE  /\ CallsInv' /\ Grows
           /\ Len(inbox') = Len(inbox) /\ \A i \in Ids : inbox'[i].to = inbox[i].to
<1>0. p # None
  BY MailCallsAssumption DEF MailCallsAssumption
<1>1. CASE ClaimInboxItem(p, id)
  <2>1. inbox[id].status \in Open /\ SetStatus(id, "claimed")
    BY <1>1 DEF ClaimInboxItem
  <2>2. "claimed" \in Open \cup Finished /\ inbox[id].status \notin Finished
        /\ inbox[id].to # None
    BY <1>0, <1>1, <2>1 DEF Open, Finished, ClaimInboxItem
  <2> QED
    BY <2>1, <2>2, StatusKeeps
<1>2. ASSUME NEW st \in Finished, FinishInboxItem(p, id, st)
      PROVE  /\ CallsInv' /\ Grows
             /\ Len(inbox') = Len(inbox) /\ \A i \in Ids : inbox'[i].to = inbox[i].to
  BY <1>0, <1>2, StatusKeeps DEF FinishInboxItem
<1> QED
  BY <1>1, <1>2 DEF Handle

LEMMA SameKeeps ==
    ASSUME CallsInv, UNCHANGED <<inbox, notices, mails, roomEnabled, lists, callers>>
    PROVE  CallsInv' /\ Grows
BY SameTables, TableStepKeeps

LEMMA StoreKeeps ==
    ASSUME CallsInv, ImapInv, NEW c \in Clients, Store(c),
           UNCHANGED <<notices, mails, roomEnabled, lists, callers>>
    PROVE  /\ CallsInv' /\ Grows /\ ImapInv'
           /\ Len(inbox') = Len(inbox) /\ \A i \in Ids : inbox'[i].to = inbox[i].to
<1>0. PICK w \in Seq(Nat) : shown' = [shown EXCEPT ![c] = w]
  BY NothingShown DEF Store
<1>1. PICK q, items, n, p : /\ q = Mailbox(p) /\ items = Ensured(c) /\ n = fetched[c][1]
                            /\ p = login[c]
  OBVIOUS
<1>2. Fits(items)
  BY <1>1, EnsuredFits
<1>3. Fits(q) /\ InPlace(Owned(p), q)
  BY <1>1, Loaded
<1>4. AckNumber(p, n, items)
  BY <1>1 DEF Store
<1>5. /\ CallsInv' /\ Grows
      /\ Len(inbox') = Len(inbox) /\ \A i \in Ids : inbox'[i].to = inbox[i].to
  <2>1. CASE UNCHANGED inbox
    BY <2>1, SameKeeps
  <2>2. CASE n <= Len(items) /\ FinishInboxItem(p, items[n], "acked")
    <3>1. "acked" \in Finished
      BY DEF Finished
    <3>2. SetStatus(items[n], "acked") /\ inbox[items[n]].to # None
      BY <1>1, <2>2 DEF FinishInboxItem, Store, Ready
    <3>3. CASE items[n] \in Ids
      BY <3>1, <3>2, <3>3, StatusKeeps
    <3>4. CASE items[n] \notin Ids
      <4>1. inbox \in Seq(Item)
        BY TablesNow
      <4>2. UNCHANGED inbox
        BY <3>2, <3>4, <4>1 DEF SetStatus, Ids
      <4> QED
        BY <2>1, <4>2
    <3> QED
      BY <3>3, <3>4
  <2> QED
    BY <1>4, <2>1, <2>2 DEF AckNumber
<1>6. selected' = [selected EXCEPT ![c] = q]
  <2>1. Mailbox(login[c]) = q
    BY <1>1
  <2> QED
    BY <2>1 DEF Store
<1>7. /\ login' = [login EXCEPT ![c] = p] /\ told' = [told EXCEPT ![c] = told[c]]
      /\ fetched' = [fetched EXCEPT ![c] = Nothing]
      /\ known' = [known EXCEPT ![c] = known[c]]
      /\ idling' = idling /\ p # None
  BY <1>1, RowKept, NothingShown DEF Store, Ready
<1>8. Chosen(Owned(p), q, told[c], Nothing, w)
  BY <1>3 DEF Chosen, InPlace
<1>9. q \in Seq(Nat) /\ Len(q) <= Window /\ \A i \in 1..Len(q) : q[i] \in Ids
  BY <1>3 DEF Fits
<1>10. p \in Players \cup {None} /\ known[c] \in 0..Window /\ told[c] \in 0..Window
  BY <1>1, ImapTyped
<1> QED
  BY <1>0, <1>5, <1>6, <1>7, <1>8, <1>9, <1>10, ClientStep
-----------------------------------------------------------------------------
(* Presence and the listener *)

LEMMA LiveStays ==
    ASSUME LiveInv, Grows, Lengths, UNCHANGED <<presenceVars, listenerVars>>
    PROVE  LiveInv'
<1>1. /\ record' = record /\ fresh' = fresh /\ channel' = channel /\ kicks' = kicks
      /\ listener' = listener /\ hearing' = hearing /\ live' = live
  BY DEF presenceVars, listenerVars
<1>2. \A i \in Ids : i \in Ids'
  BY DEF Ids, Grows, Lengths
<1> QED
  BY <1>1, <1>2 DEF LiveInv, LiveNoticesTypeOK, NothingLeftOfTheGone

LEMMA PresenceKeeps ==
    ASSUME LiveInv, NEW c \in Connections, PresenceStep(c),
           UNCHANGED <<inbox, listenerVars>>
    PROVE  LiveInv'
<1>0. /\ record \in [Connections -> {"new", "street", "room", "gone"}]
      /\ fresh \subseteq Connections /\ channel \subseteq Connections
      /\ \A d \in Connections : record[d] \in {"new", "gone"}
                                    => d \notin kicks /\ d \notin fresh /\ d \notin channel
      /\ listener \in {"receive", "item", "rooms", "tell", "ended"} /\ hearing \in Nat
      /\ live \subseteq (1..MaxItems) \X Connections \X {"mail", "room"}
      /\ listener \in {"rooms", "tell"} => hearing \in Ids
  BY DEF LiveInv, LiveNoticesTypeOK, NothingLeftOfTheGone
<1>1. /\ listener' = listener /\ hearing' = hearing /\ live' = live /\ Ids' = Ids
  BY DEF listenerVars, Ids
<1>2. /\ record' \in [Connections -> {"new", "street", "room", "gone"}]
      /\ fresh' \subseteq Connections /\ channel' \subseteq Connections
      /\ \A d \in Connections : record'[d] \in {"new", "gone"}
                                    => d \notin kicks' /\ d \notin fresh' /\ d \notin channel'
  <2>1. CASE MarkOnline(c)
    BY <1>0, <2>1 DEF MarkOnline
  <2>2. CASE AttachChannel(c)
    BY <1>0, <2>2 DEF AttachChannel, Present
  <2>3. CASE Touch(c)
    BY <1>0, <2>3 DEF Touch, Present
  <2>4. CASE LeaseEnds(c)
    BY <1>0, <2>4 DEF LeaseEnds
  <2>5. CASE RequestKick(c)
    BY <1>0, <2>5 DEF RequestKick, Present
  <2>6. CASE PollKick(c)
    BY <1>0, <2>6 DEF PollKick
  <2>7. CASE EndPresence(c)
    BY <1>0, <2>7 DEF EndPresence, Present
  <2> QED
    BY <2>1, <2>2, <2>3, <2>4, <2>5, <2>6, <2>7 DEF PresenceStep
<1> QED
  BY <1>0, <1>1, <1>2 DEF LiveInv, LiveNoticesTypeOK, NothingLeftOfTheGone

LEMMA ListenerKeeps ==
    ASSUME CallsInv, LiveInv, ListenerStep, UNCHANGED <<inbox, presenceVars>>
    PROVE  LiveInv' /\ notices' \in Seq(Nat)
<1>0. /\ listener \in {"receive", "item", "rooms", "tell", "ended"} /\ hearing \in Nat
      /\ live \subseteq (1..MaxItems) \X Connections \X {"mail", "room"}
      /\ listener \in {"rooms", "tell"} => hearing \in Ids
      /\ fresh \subseteq Connections /\ notices \in Seq(Nat)
      /\ Len(inbox) \in Nat /\ Len(inbox) <= MaxItems
  BY TablesNow DEF LiveInv, LiveNoticesTypeOK
<1>1. /\ record' = record /\ fresh' = fresh /\ channel' = channel /\ kicks' = kicks
      /\ Ids' = Ids
  BY DEF presenceVars, Ids
<1>2. /\ listener' \in {"receive", "item", "rooms", "tell", "ended"} /\ hearing' \in Nat
      /\ live' \subseteq (1..MaxItems) \X Connections \X {"mail", "room"}
      /\ listener' \in {"rooms", "tell"} => hearing' \in Ids
      /\ notices' \in Seq(Nat)
  <2>1. CASE Receive
    <3>1. Head(notices) \in Nat /\ Tail(notices) \in Seq(Nat)
      BY <1>0, <2>1 DEF Receive
    <3> QED
      BY <1>0, <2>1, <3>1 DEF Receive
  <2>2. CASE ReadItem
    BY <1>0, <2>2 DEF ReadItem
  <2>3. CASE ReadRooms
    BY <1>0, <2>3 DEF ReadRooms
  <2>4. CASE Tell
    <3>1. hearing \in 1..MaxItems
      BY <1>0, <2>4, MailCallsAssumption DEF Tell, Ids, MailCallsAssumption
    <3>2. \A r \in Recipients : r[1] \in Connections /\ r[2] \in {"mail", "room"}
      <4>1. \A p : DirectRecipients(p) \subseteq Connections
                   /\ DirectRecipientsInView(p) \subseteq Connections
        BY <1>0 DEF DirectRecipients, DirectRecipientsInView
      <4>2. PICK A, B : /\ A \subseteq Connections /\ B \subseteq Connections
                        /\ Recipients = (A \X {"mail"}) \cup (B \X {"room"})
        <5>1. PICK p : p = inbox[hearing].to
          OBVIOUS
        <5>2. PICK C : C = (IF senderRoom THEN DirectRecipientsInView(p) ELSE {})
          OBVIOUS
        <5>3. C \subseteq Connections
          BY <4>1, <5>2
        <5>4. Recipients = (DirectRecipients(p) \X {"mail"}) \cup (C \X {"room"})
          BY <5>1, <5>2 DEF Recipients
        <5> QED
          BY <4>1, <5>3, <5>4
      <4> QED
        BY <4>2
    <3>3. live' = live \cup {<<hearing, r[1], r[2]>> : r \in Recipients}
      BY <2>4 DEF Tell
    <3>4. {<<hearing, r[1], r[2]>> : r \in Recipients}
              \subseteq (1..MaxItems) \X Connections \X {"mail", "room"}
      BY <3>1, <3>2
    <3>5. live' \subseteq (1..MaxItems) \X Connections \X {"mail", "room"}
      BY <1>0, <3>3, <3>4
    <3> QED
      BY <1>0, <2>4, <3>5 DEF Tell
  <2>5. CASE LoseConnection
    <3>1. <<>> \in Seq(Nat)
      OBVIOUS
    <3> QED
      BY <1>0, <2>5, <3>1 DEF LoseConnection
  <2>6. CASE QueryFails
    BY <1>0, <2>6 DEF QueryFails
  <2> QED
    BY <2>1, <2>2, <2>3, <2>4, <2>5, <2>6 DEF ListenerStep, ListenerProgress
<1> QED
  BY <1>1, <1>2 DEF LiveInv, LiveNoticesTypeOK, NothingLeftOfTheGone

-----------------------------------------------------------------------------
(* The SMTP sessions *)

SmtpRow == [user : Players \cup {None}, sender : BOOLEAN, recipients : Seq(Players)]

LEMMA SmtpTyped ==
    ASSUME SmtpInv, NEW s \in Sessions
    PROVE  /\ smtp \in [Sessions -> SmtpRow] /\ smtp[s] \in SmtpRow
           /\ Cleared(s) \in SmtpRow /\ NewSmtp \in SmtpRow
           /\ \A row \in SmtpRow : SmtpSet(s, row) => SmtpInv'
<1>1. smtp \in [Sessions -> SmtpRow]
  BY DEF SmtpInv, SmtpRow
<1>2. <<>> \in Seq(Players)
  OBVIOUS
<1>3. PICK r : r = smtp[s] /\ r \in SmtpRow
  BY <1>1
<1>4. Cleared(s) = [r EXCEPT !.sender = FALSE, !.recipients = <<>>]
  BY <1>3 DEF Cleared
<1>5. Cleared(s) \in SmtpRow
  BY <1>2, <1>3, <1>4 DEF SmtpRow
<1>6. NewSmtp \in SmtpRow
  BY <1>2 DEF NewSmtp, SmtpRow
<1>7. ASSUME NEW row \in SmtpRow, SmtpSet(s, row)
      PROVE  SmtpInv'
  <2>1. smtp' \in [Sessions -> SmtpRow]
    BY <1>1, <1>7 DEF SmtpSet
  <2> QED
    BY <2>1 DEF SmtpInv, SmtpRow
<1> QED
  BY <1>1, <1>3, <1>5, <1>6, <1>7

LEMMA SmtpCommandKeeps ==
    ASSUME SmtpInv, NEW s \in Sessions, SmtpCommand(s)
    PROVE  SmtpInv'
<1>1. PICK r, z : r = smtp[s] /\ z = Cleared(s)
  OBVIOUS
<1>2. r \in SmtpRow /\ z \in SmtpRow
  BY <1>1, SmtpTyped
<1>3. ASSUME NEW p \in Players, SmtpAuth(s, p)
      PROVE  SmtpInv'
  <2>1. [r EXCEPT !.user = p] \in SmtpRow
    BY <1>2 DEF SmtpRow
  <2> QED
    BY <1>1, <1>3, <2>1, SmtpTyped DEF SmtpAuth
<1>4. ASSUME NEW p \in Players, SmtpRecipient(s, p)
      PROVE  SmtpInv'
  <2>1. PICK more : more = Append(r.recipients, p)
    OBVIOUS
  <2>2. more \in Seq(Players)
    BY <1>2, <2>1 DEF SmtpRow
  <2>3. [r EXCEPT !.recipients = more] \in SmtpRow
    BY <1>2, <2>2 DEF SmtpRow
  <2>4. SmtpSet(s, [r EXCEPT !.recipients = more])
    BY <1>1, <1>4, <2>1 DEF SmtpRecipient
  <2> QED
    BY <2>3, <2>4, SmtpTyped
<1>5. ASSUME SmtpMailFrom(s)
      PROVE  SmtpInv'
  <2>1. PICK named \in BOOLEAN : SmtpSet(s, [z EXCEPT !.sender = named])
    BY <1>1, <1>5 DEF SmtpMailFrom
  <2>2. [z EXCEPT !.sender = named] \in SmtpRow
    BY <1>2 DEF SmtpRow
  <2> QED
    BY <2>1, <2>2, SmtpTyped
<1>6. ASSUME SmtpReset(s) \/ SmtpEnd(s)
      PROVE  SmtpInv'
  BY <1>6, SmtpTyped DEF SmtpReset, SmtpEnd
<1> QED
  BY <1>3, <1>4, <1>5, <1>6 DEF SmtpCommand

LEMMA SmtpDataKeeps ==
    ASSUME CallsInv, DrawsInv, SmtpInv, NEW s \in Sessions, NEW letter \in Letters,
           SmtpData(s, letter)
    PROVE  CallsInv' /\ Grows /\ DrawsInv' /\ SmtpInv'
<1>1. PICK c : c = [op |-> "mail", by |-> smtp[s].user, to |-> smtp[s].recipients,
                    letter |-> letter]
  OBVIOUS
<1>2. smtp[s] \in SmtpRow /\ smtp[s].user # None /\ smtp[s].recipients # <<>>
  BY SmtpTyped DEF SmtpData
<1>3. smtp[s].user \in Players /\ smtp[s].recipients \in Seq(Players)
  BY <1>2 DEF SmtpRow
<1>4. c \in MailCall
  <2>1. letter # None
    BY MailCallsAssumption DEF MailCallsAssumption
  <2> QED
    BY <1>1, <1>2, <1>3, <2>1 DEF MailCall, LetterOps, ListOps
<1>5. BeginCall(s, c) /\ SmtpSet(s, Cleared(s))
  BY <1>1 DEF SmtpData
<1> QED
  BY <1>4, <1>5, BeginCallKeeps, BeginCallDraws, SmtpTyped
-----------------------------------------------------------------------------
(* The whole *)

LEMMA Sized ==
    ASSUME CallsInv, CallsInv'
    PROVE  Lengths
<1>1. inbox \in Seq(Item) /\ inbox' \in Seq(Item)
  BY DEF CallsInv, ItemsInv, ItemsTypeOK
<1>2. deliveries \in Seq(Links) /\ deliveries' \in Seq(Links)
  BY DEF CallsInv, LinksInv
<1> QED
  BY <1>1, <1>2 DEF Lengths

LEMMA OthersStay ==
    ASSUME IInv, CallsInv', Grows, UNCHANGED Others
    PROVE  LiveInv' /\ ImapInv'
BY Sized, LiveStays, ImapStays DEF IInv, Others

LEMMA InitCalls ==
    ASSUME MailCallsInit
    PROVE  CallsInv
<1>1. inbox = <<>> /\ notices = <<>> /\ deliveries = <<>>
  BY DEF MailCallsInit
<1>2. Len(inbox) = 0 /\ Len(deliveries) = 0 /\ Ids = {}
  BY <1>1 DEF Ids
<1>3. inbox \in Seq(Item) /\ notices \in Seq(Nat) /\ deliveries \in Seq(Links)
  BY <1>1
<1>4. ItemsInv
  <2>1. ItemsTypeOK
    BY <1>2, <1>3, MailCallsAssumption DEF ItemsTypeOK, MailCallsAssumption, MailCallsInit
  <2>2. AnsweredLettersArrived
    BY <1>2 DEF AnsweredLettersArrived, MailCallsInit
  <2>3. RequestsNumberThemselves
    BY <1>2 DEF RequestsNumberThemselves
  <2> QED
    BY <1>2, <2>1, <2>2, <2>3 DEF ItemsInv, MailCallsInit
<1>5. LinksInv
  <2>1. PostsArriveOnce
    BY <1>2 DEF PostsArriveOnce
  <2>2. SentPostsReachSubscribers
    BY <1>2 DEF SentPostsReachSubscribers
  <2>3. membership \in [Players -> {"none", "active", "unsubscribed"}]
        /\ list \in {"none", "open", "closed"} /\ sent = {}
    BY DEF MailCallsInit
  <2> QED
    BY <1>2, <1>3, <2>1, <2>2, <2>3 DEF LinksInv
<1>6. CallersTyped
  BY NothingTyped DEF CallersTyped, MailCallsInit
<1>7. \A s \in Sessions : SessionInv(s)
  BY DEF SessionInv, MailCallsInit
<1> QED
  BY <1>4, <1>5, <1>6, <1>7 DEF CallsInv

LEMMA InitImap ==
    ASSUME MailSidecarInit
    PROVE  ImapInv
<1>1. /\ login = [c \in Clients |-> None] /\ selected = [c \in Clients |-> <<>>]
      /\ idling = {} /\ known = [c \in Clients |-> 0] /\ told = [c \in Clients |-> 0]
      /\ fetched = [c \in Clients |-> Nothing] /\ shown = [c \in Clients |-> <<>>]
  BY DEF MailSidecarInit
<1>2. PICK e : e = <<>> /\ Len(e) = 0
  OBVIOUS
<1>3. e \in Seq(Nat)
  BY <1>2
<1>4. selected = [c \in Clients |-> e] /\ shown = [c \in Clients |-> e]
  BY <1>1, <1>2
<1>5. shown \in [Clients -> Seq(Nat)] /\ selected \in [Clients -> Seq(Nat)] /\ \A c \in Clients : selected[c] = e
  BY <1>3, <1>4
<1>6. ASSUME NEW c \in Clients
      PROVE  /\ \A n \in 1..Len(selected[c]) : selected[c][n] \in Ids
             /\ Len(selected[c]) <= Window
             /\ known[c] \in 0..Window /\ told[c] \in 0..Window
             /\ Selected(c)
  <2>1. Len(selected[c]) = 0
    BY <1>2, <1>5
  <2>2. known[c] = 0 /\ told[c] = 0 /\ fetched[c] = Nothing
    BY <1>1
  <2>3. Selected(c)
    BY <2>2 DEF Selected, Chosen
  <2> QED
    BY <2>1, <2>2, <2>3, MailSidecarAssumption DEF MailSidecarAssumption
<1>7. SidecarTypeOK
  BY <1>1, <1>6 DEF SidecarTypeOK
<1> QED
  BY <1>1, <1>5, <1>6, <1>7 DEF ImapInv

LEMMA InitKeeps == Init => IInv
<1> SUFFICES ASSUME Init
             PROVE  IInv
  OBVIOUS
<1>1. CallsInv
  BY InitCalls DEF Init
<1>1a. DrawsInv
  <2>1. \A s \in Sessions : ~ At(s, "item")
    BY DEF Init, MailCallsInit, At
  <2> QED
    BY <2>1 DEF DrawsInv
<1>2. SmtpInv
  <2>1. smtp = [s \in Sessions |-> NewSmtp]
    BY DEF Init, SmtpInit
  <2>2. <<>> \in Seq(Players)
    OBVIOUS
  <2>3. NewSmtp \in SmtpRow
    BY <2>2 DEF NewSmtp, SmtpRow
  <2> QED
    BY <2>1, <2>3 DEF SmtpInv, SmtpRow
<1>3. LiveInv
  BY DEF Init, LiveNoticesInit, LiveInv, LiveNoticesTypeOK, NothingLeftOfTheGone
<1>4. ImapInv
  BY InitImap DEF Init
<1> QED
  BY <1>1, <1>1a, <1>2, <1>3, <1>4 DEF Init, IInv

LEMMA CastTyped ==
    ASSUME IInv
    PROVE  /\ cast.sessions \subseteq Sessions /\ cast.menu \subseteq MailCall
           /\ cast.smtp \subseteq Sessions /\ cast.connections \subseteq Connections
           /\ cast.handlers \subseteq Players /\ cast.clients \subseteq Clients
<1>1. cast \in Cast
  BY CastsAssumption DEF IInv
<1> QED
  BY <1>1 DEF Cast

LEMMA CallsKeeps ==
    ASSUME IInv, Calls
    PROVE  CallsInv' /\ DrawsInv' /\ Grows /\ SmtpInv' /\ LiveInv' /\ ImapInv'
<1>0. CallsInv /\ DrawsInv /\ SmtpInv
  BY DEF IInv
<1>1. CallsInv' /\ Grows /\ DrawsInv'
  <2>1. CASE \E s \in cast.sessions : CallerStep(s, cast.menu)
    <3>1. PICK s \in Sessions : CallerStep(s, cast.menu)
      BY <2>1, CastTyped
    <3>2. ASSUME NEW c \in cast.menu, BeginCall(s, c)
          PROVE  CallsInv' /\ Grows /\ DrawsInv'
      <4>1. c \in MailCall
        BY CastTyped
      <4> QED
        BY <1>0, <3>2, <4>1, BeginCallKeeps, BeginCallDraws
    <3> QED
      BY <1>0, <3>1, <3>2, MailStatementKeeps, AbandonCallKeeps, AbandonCallDraws DEF CallerStep
  <2>2. CASE SetRoomEnabled
    <3>1. inbox' = inbox /\ UNCHANGED callers
      BY <2>2 DEF SetRoomEnabled
    <3> QED
      BY <1>0, <2>2, <3>1, SetRoomEnabledKeeps, CallersRest
  <2> QED
    BY <2>1, <2>2 DEF Calls
<1>2. smtp' = smtp /\ UNCHANGED Others
  BY DEF Calls
<1>3. SmtpInv'
  BY <1>0, <1>2 DEF SmtpInv
<1> QED
  BY <1>1, <1>2, <1>3, OthersStay

LEMMA SmtpKeeps ==
    ASSUME IInv, Smtp
    PROVE  CallsInv' /\ DrawsInv' /\ Grows /\ SmtpInv' /\ LiveInv' /\ ImapInv'
<1>0. CallsInv /\ DrawsInv /\ SmtpInv
  BY DEF IInv
<1>1. PICK s \in Sessions : \/ SmtpCommand(s) /\ UNCHANGED mailVars
                            \/ \E letter \in Letters : SmtpData(s, letter)
                            \/ MailStatement(s) /\ UNCHANGED smtp
                            \/ AbandonCall(s) /\ SmtpSet(s, NewSmtp)
  BY CastTyped DEF Smtp
<1>2. CallsInv' /\ Grows /\ DrawsInv' /\ SmtpInv'
  <2>1. CASE SmtpCommand(s) /\ UNCHANGED mailVars
    <3>1. UNCHANGED <<inbox, notices, mails, roomEnabled, lists, callers>>
      BY <2>1 DEF mailVars
    <3> QED
      BY <1>0, <2>1, <3>1, SameKeeps, SmtpCommandKeeps, CallersRest
  <2>2. CASE \E letter \in Letters : SmtpData(s, letter)
    BY <1>0, <2>2, SmtpDataKeeps
  <2>3. CASE MailStatement(s) /\ UNCHANGED smtp
    <3>1. SmtpInv'
      BY <1>0, <2>3 DEF SmtpInv
    <3> QED
      BY <1>0, <2>3, <3>1, MailStatementKeeps
  <2>4. CASE AbandonCall(s) /\ SmtpSet(s, NewSmtp)
    BY <1>0, <2>4, AbandonCallKeeps, AbandonCallDraws, SmtpTyped
  <2> QED
    BY <1>1, <2>1, <2>2, <2>3, <2>4
<1>3. UNCHANGED Others
  BY DEF Smtp
<1> QED
  BY <1>2, <1>3, OthersStay

LEMMA InboxesKeeps ==
    ASSUME IInv, Inboxes
    PROVE  CallsInv' /\ DrawsInv' /\ Grows /\ SmtpInv' /\ LiveInv' /\ ImapInv'
<1>0. CallsInv /\ DrawsInv /\ SmtpInv
  BY DEF IInv
<1>0a. PICK p \in Players : \E id \in Ids : Handle(p, id)
  BY CastTyped DEF Inboxes
<1>1. PICK id \in Ids : Handle(p, id)
  BY <1>0a
<1>2. UNCHANGED <<notices, mails, roomEnabled, lists, callers>> /\ smtp' = smtp
      /\ UNCHANGED Others
  BY DEF Inboxes
<1>3. CallsInv' /\ Grows /\ DrawsInv'
  BY <1>0, <1>1, <1>2, HandleKeeps, CallersRest
<1>4. SmtpInv'
  BY <1>0, <1>2 DEF SmtpInv
<1> QED
  BY <1>2, <1>3, <1>4, OthersStay

LEMMA PresenceAllKeeps ==
    ASSUME IInv, Presence
    PROVE  CallsInv' /\ DrawsInv' /\ Grows /\ SmtpInv' /\ LiveInv' /\ ImapInv'
<1>0. CallsInv /\ DrawsInv /\ SmtpInv /\ LiveInv /\ ImapInv
  BY DEF IInv
<1>1. PICK c \in Connections : PresenceStep(c)
  BY CastTyped DEF Presence
<1>2. UNCHANGED <<inbox, notices, mails, roomEnabled, lists, callers>> /\ smtp' = smtp
      /\ UNCHANGED listenerVars /\ UNCHANGED imapVars
  BY DEF Presence, mailVars
<1>3. CallsInv' /\ Grows /\ DrawsInv'
  BY <1>0, <1>2, SameKeeps, CallersRest
<1>4. SmtpInv'
  BY <1>0, <1>2 DEF SmtpInv
<1>5. LiveInv'
  BY <1>0, <1>1, <1>2, PresenceKeeps
<1>6. ImapInv'
  BY <1>0, <1>2, <1>3, Sized, ImapStays
<1> QED
  BY <1>3, <1>4, <1>5, <1>6

LEMMA ListenerAllKeeps ==
    ASSUME IInv, Listener
    PROVE  CallsInv' /\ DrawsInv' /\ Grows /\ SmtpInv' /\ LiveInv' /\ ImapInv'
<1>0. CallsInv /\ DrawsInv /\ SmtpInv /\ LiveInv /\ ImapInv
  BY DEF IInv
<1>1. /\ ListenerStep /\ inbox' = inbox /\ written' = written /\ remembered' = remembered
      /\ answered' = answered /\ roomEnabled' = roomEnabled /\ UNCHANGED lists
      /\ UNCHANGED callers /\ smtp' = smtp /\ UNCHANGED presenceVars /\ UNCHANGED imapVars
  BY DEF Listener, mails
<1>2. LiveInv' /\ notices' \in Seq(Nat)
  BY <1>0, <1>1, ListenerKeeps
<1>3. Tables
  BY <1>0, <1>1, <1>2, SameInbox, TablesNow
<1>4. CallsInv' /\ Grows /\ DrawsInv'
  BY <1>0, <1>1, <1>3, TableStepKeeps, CallersRest
<1>5. SmtpInv'
  BY <1>0, <1>1 DEF SmtpInv
<1>6. ImapInv'
  BY <1>0, <1>1, <1>4, Sized, ImapStays
<1> QED
  BY <1>2, <1>4, <1>5, <1>6

LEMMA ImapAllKeeps ==
    ASSUME IInv, Imap
    PROVE  CallsInv' /\ DrawsInv' /\ Grows /\ SmtpInv' /\ LiveInv' /\ ImapInv'
<1>0. CallsInv /\ DrawsInv /\ SmtpInv /\ LiveInv /\ ImapInv
  BY DEF IInv
<1>1. PICK c \in Clients : ImapStep(c)
  BY CastTyped DEF Imap
<1>2. UNCHANGED <<notices, mails, roomEnabled, lists, callers>> /\ smtp' = smtp
      /\ UNCHANGED presenceVars /\ UNCHANGED listenerVars
  BY DEF Imap
<1>3. CallsInv' /\ Grows /\ DrawsInv' /\ ImapInv'
  <2>1. CASE Store(c)
    BY <1>0, <1>2, <2>1, StoreKeeps, CallersRest
  <2>2. CASE ReadOnlyCommand(c)
    <3>1. UNCHANGED inbox
      BY <2>2 DEF ReadOnlyCommand
    <3>2. CallsInv' /\ Grows /\ DrawsInv'
      BY <1>0, <1>2, <3>1, SameKeeps, CallersRest
    <3>3. ImapInv'
      BY <1>0, <2>2, <3>1, LoginKeeps, SelectKeeps, CloseMailboxKeeps, FetchKeeps,
         StartIdleKeeps, PollIdleKeeps, DoneKeeps, LogoutKeeps DEF ReadOnlyCommand
    <3> QED
      BY <3>2, <3>3
  <2> QED
    BY <1>1, <2>1, <2>2 DEF ImapStep
<1>4. SmtpInv'
  BY <1>0, <1>2 DEF SmtpInv
<1>5. LiveInv'
  BY <1>0, <1>2, <1>3, Sized, LiveStays
<1> QED
  BY <1>3, <1>4, <1>5

LEMMA NextKeeps ==
    ASSUME IInv, [Next]_vars
    PROVE  IInv' /\ Grows
<1>1. CASE Next
  <2>1. cast' = cast
    BY <1>1 DEF Next
  <2>2. CallsInv' /\ DrawsInv' /\ Grows /\ SmtpInv' /\ LiveInv' /\ ImapInv'
    BY <1>1, CallsKeeps, SmtpKeeps, InboxesKeeps, PresenceAllKeeps, ListenerAllKeeps,
       ImapAllKeeps DEF Next
  <2> QED
    BY <2>1, <2>2 DEF IInv
<1>2. CASE UNCHANGED vars
  <2>1. UNCHANGED <<inbox, notices, mails, roomEnabled, lists, callers>> /\ smtp' = smtp
        /\ UNCHANGED Others /\ cast' = cast
    BY <1>2 DEF vars, mailVars, Others
  <2>2. CallsInv' /\ Grows /\ DrawsInv'
    BY <2>1, SameKeeps, CallersRest DEF IInv
  <2>3. SmtpInv'
    BY <2>1 DEF IInv, SmtpInv
  <2> QED
    BY <2>1, <2>2, <2>3, OthersStay DEF IInv
<1> QED
  BY <1>1, <1>2

-----------------------------------------------------------------------------
(* Every reachable state satisfies the invariant. *)
THEOREM MailInvariant == Spec => []IInv
<1>1. IInv /\ [Next]_vars => IInv'
  BY NextKeeps
<1> QED
  BY <1>1, InitKeeps, PTL DEF Spec

(* Every variable of the mail system has its type, whoever takes part. *)
THEOREM MailTypeCorrect == Spec => []TypeOK
<1>1. ASSUME IInv
      PROVE  TypeOK
  <2>1. CallsInv /\ SmtpInv /\ LiveInv /\ ImapInv
    BY <1>1 DEF IInv
  <2>2. MailCallsTypeOK
    <3>1. ItemsTypeOK /\ written \subseteq Letters /\ remembered \subseteq Letters
      BY <2>1 DEF CallsInv, ItemsInv
    <3>2. \A n \in 1..Len(deliveries) : \A p \in DOMAIN deliveries[n] :
              p \in Players /\ deliveries[n][p] \in 0..Len(inbox)
      <4> SUFFICES ASSUME NEW n \in 1..Len(deliveries), NEW p \in DOMAIN deliveries[n]
                   PROVE  p \in Players /\ deliveries[n][p] \in 0..Len(inbox)
        OBVIOUS
      <4>1. deliveries[n] \in Links /\ Len(inbox) \in Nat
        BY <2>1, TablesNow
      <4>2. p \in Players
        BY <4>1, LinkTyped
      <4>3. deliveries[n][p] # 0 => deliveries[n][p] \in 1..Len(inbox)
        BY <2>1 DEF CallsInv, LinksInv, Ids
      <4> QED
        BY <4>1, <4>2, <4>3
    <3>3. /\ list \in {"none", "open", "closed"}
          /\ membership \in [Players -> {"none", "active", "unsubscribed"}]
          /\ sent \subseteq 1..Len(deliveries)
      BY <2>1 DEF CallsInv, LinksInv
    <3>4. call \in [Sessions -> MailCall]
      BY <2>1 DEF CallsInv, CallersTyped
    <3> QED
      BY <3>1, <3>2, <3>3, <3>4 DEF MailCallsTypeOK
  <2>3. SmtpTypeOK
    BY <2>1 DEF SmtpInv, SmtpTypeOK
  <2> QED
    BY <2>1, <2>2, <2>3 DEF TypeOK, LiveInv, ImapInv
<1> QED
  BY <1>1, MailInvariant, PTL

(* save_mail_message_to_principal: whatever stops a call, a letter in an   *)
(* inbox has its row, and one whose caller was answered is with everybody  *)
(* it was for. *)
THEOREM LettersArrive == Spec => []AnsweredLettersArrived
<1>1. IInv => AnsweredLettersArrived
  BY DEF IInv, CallsInv, ItemsInv
<1> QED
  BY <1>1, MailInvariant, PTL

(* save_room_mailbox_input: a room's line is request #N of its own item.   *)
THEOREM RequestsNumbered == Spec => []RequestsNumberThemselves
<1>1. IInv => RequestsNumberThemselves
  BY DEF IInv, CallsInv, ItemsInv
<1> QED
  BY <1>1, MailInvariant, PTL

(* deliver_parcel_mailing_list_post is idempotent: a recipient has a post  *)
(* once, and every link is to the recipient's own item. *)
THEOREM PostsOnce == Spec => []PostsArriveOnce
<1>1. IInv => PostsArriveOnce
  BY DEF IInv, CallsInv, LinksInv
<1> QED
  BY <1>1, MailInvariant, PTL

(* send_parcel_mailing_list_post: a post that is sent has reached every    *)
(* subscriber it was for. *)
THEOREM PostsReach == Spec => []SentPostsReachSubscribers
<1>1. IInv => SentPostsReachSubscribers
  BY DEF IInv, CallsInv, LinksInv
<1> QED
  BY <1>1, MailInvariant, PTL

(* presence.remove: nothing is left of a connection that is gone. *)
THEOREM GoneAreGone == Spec => []NothingLeftOfTheGone
<1>1. IInv => NothingLeftOfTheGone
  BY DEF IInv, LiveInv
<1> QED
  BY <1>1, MailInvariant, PTL

(* handle_imap_store: while the player's items fit the window and none of *)
(* a lower id has come into sight since the client fetched, the number it  *)
(* stores is the item it fetched, whatever was loaded since. *)
THEOREM SeenIsFetched == Spec => []SeenIsWhatWasFetched
<1>1. ASSUME IInv
      PROVE  SeenIsWhatWasFetched
  <2> SUFFICES ASSUME NEW c \in Clients, fetched[c] # Nothing,
                      Cardinality(Owned(login[c])) <= Window,
                      Late(c, Owned(login[c])) = {}
               PROVE  /\ fetched[c][1] <= Len(Ensured(c))
                      /\ Ensured(c)[fetched[c][1]] = fetched[c][2]
    BY DEF SeenIsWhatWasFetched, Owned
  <2>1. CallsInv /\ ImapInv
    BY <1>1 DEF IInv
  <2>2. PICK q, w, n, id, mine : /\ q = Ensured(c) /\ w = shown[c] /\ n = fetched[c][1]
                                 /\ id = fetched[c][2] /\ mine = Owned(login[c])
    OBVIOUS
  <2>3. /\ q \in Seq(Nat)
        /\ \A m \in 1..Len(q) : q[m] \in mine /\ Place(q[m], Range(q)) = m
        /\ \A m \in 1..Len(w) : Place(w[m], Range(w)) = m
        /\ Range(w) \subseteq Range(q)
        /\ n \in 1..Len(w) /\ id = w[n] /\ w \in Seq(Nat)
    <3>1. /\ Fits(Ensured(c)) /\ shown[c] \in Seq(Nat)
          /\ Chosen(Owned(login[c]), Ensured(c), told[c], fetched[c], shown[c])
      BY <2>1, EnsuredFits, ImapTyped
    <3>2. PICK e, x : e = told[c] /\ x = fetched[c]
      OBVIOUS
    <3>3. Fits(q) /\ w \in Seq(Nat) /\ Chosen(mine, q, e, x, w)
      BY <2>2, <3>1, <3>2
    <3>4. x # Nothing /\ Cardinality(mine) <= Window /\ n = x[1] /\ id = x[2]
      BY <2>2, <3>2
    <3>5. q \in Seq(Nat)
      BY <3>3 DEF Fits
    <3>6. \A m \in 1..Len(q) : q[m] \in mine /\ Place(q[m], Range(q)) = m
      BY <3>3, <3>4 DEF Chosen
    <3>7. /\ \A m \in 1..Len(w) : Place(w[m], Range(w)) = m
          /\ Range(w) \subseteq Range(q)
      BY <3>3, <3>4 DEF Chosen
    <3>8. x[1] \in 1..Len(w) /\ x[2] = w[x[1]]
      BY <3>3, <3>4 DEF Chosen
    <3>9. n \in 1..Len(w) /\ id = w[n]
      BY <3>4, <3>8
    <3> QED
      BY <3>3, <3>5, <3>6, <3>7, <3>9
  <2>4. \A i \in Range(q) : /\ \E m \in 1..Len(q) : q[m] = i
                            /\ i \in mine /\ i \in Nat
    <3>1. q \in Seq(Nat) /\ DOMAIN q = 1..Len(q)
      BY <2>3
    <3>2. \A m \in 1..Len(q) : q[m] \in Nat /\ q[m] \in mine
      BY <2>3, <3>1
    <3>3. \A i \in Range(q) : \E m \in 1..Len(q) : q[m] = i
      BY <3>1 DEF Range
    <3> QED
      BY <3>2, <3>3
  <2>5. id \in Range(w) /\ id \in Nat
    BY <2>3 DEF Range
  <2>6. \A i \in mine : i < id => i \in Range(w)
    BY <2>2 DEF Late
  <2>7. {i \in Range(q) : i <= id} = {i \in Range(w) : i <= id}
    <3>1. ASSUME NEW i \in Range(q), i <= id
          PROVE  i \in Range(w)
      <4>1. i \in mine /\ i \in Nat
        BY <2>4
      <4>2. i < id \/ i = id
        BY <2>5, <3>1, <4>1
      <4> QED
        BY <2>5, <2>6, <4>1, <4>2
    <3> QED
      BY <2>3, <3>1
  <2>8. Place(id, Range(q)) = n
    <3>1. Place(w[n], Range(w)) = n
      BY <2>3
    <3>2. Place(id, Range(w)) = n
      BY <2>3, <3>1
    <3>3. Cardinality({i \in Range(w) : i <= id}) = n
      BY <3>2 DEF Place
    <3>4. Cardinality({i \in Range(q) : i <= id}) = n
      BY <2>7, <3>3
    <3> QED
      BY <3>4 DEF Place
  <2>9. PICK m \in 1..Len(q) : q[m] = id
    <3>1. id \in Range(q)
      BY <2>3, <2>5
    <3> QED
      BY <2>4, <3>1
  <2>10. m = n
    BY <2>3, <2>8, <2>9
  <2>11. n <= Len(q) /\ q[n] = id
    BY <2>3, <2>9, <2>10
  <2> QED
    BY <2>2, <2>11
<1> QED
  BY <1>1, MailInvariant, PTL

(* claim_inbox_item and finish_inbox_item: an item that is acked or        *)
(* archived stays so, in every step of the system. *)
THEOREM DoneStaysDone == Spec => DoneItemsStayDone
<1>1. IInv /\ [Next]_vars => [\A i \in Ids : inbox[i].status \in Finished
                                  => inbox'[i].status \in Finished]_<<inbox>>
  BY NextKeeps DEF Grows
<1> QED
  BY <1>1, MailInvariant, PTL DEF Spec, DoneItemsStayDone
=============================================================================
