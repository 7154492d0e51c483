----------------------- MODULE EndpointManagerProofs -----------------------
(* Proof that the todo list keeps exactly one token per busy endpoint, for *)
(* any number of targets, messages and threads.                            *)
EXTENDS EndpointManager, FiniteSetTheorems, TLAPS

LEMMA AppendTodo ==
  ASSUME NEW S, NEW s \in Seq(S), NEW x \in S
  PROVE  /\ Append(s, x) \in Seq(S)
         /\ \A i \in DOMAIN s : i \in DOMAIN Append(s, x) /\ Append(s, x)[i] = s[i]
         /\ \A i \in DOMAIN Append(s, x) : i \in DOMAIN s \/ (i = Len(s) + 1 /\ Append(s, x)[i] = x)
         /\ Len(s) + 1 \in DOMAIN Append(s, x) /\ Append(s, x)[Len(s) + 1] = x
         /\ Len(s) + 1 \notin DOMAIN s
OBVIOUS

LEMMA TailTodo ==
  ASSUME NEW S, NEW s \in Seq(S), s # <<>>
  PROVE  /\ Tail(s) \in Seq(S) /\ Head(s) \in S
         /\ \A i \in DOMAIN Tail(s) : i + 1 \in DOMAIN s /\ Tail(s)[i] = s[i + 1]
         /\ \A i \in DOMAIN s : i # 1 => i - 1 \in DOMAIN Tail(s) /\ Tail(s)[i - 1] = s[i]
         /\ 1 \in DOMAIN s /\ s[1] = Head(s)
         /\ DOMAIN s \subseteq Int /\ DOMAIN Tail(s) \subseteq Nat \ {0}
OBVIOUS

(* A step that takes the token of endpoint u from one place and puts it in *)
(* another is described by what it does to the three places.               *)
LEMMA TypeStep ==
  ASSUME TypeOK, [Next]_vars
  PROVE  TypeOK'
<1> USE ManagerAssumption
<1>1. ASSUME NEW m \in Msg, EnqueueMessage(m) PROVE TypeOK'
  <2>1. Dest[m] \in Target
    OBVIOUS
  <2>2. /\ Append(queue[Dest[m]], m) \in Seq(Msg)
        /\ Append(arrived[Dest[m]], m) \in Seq(Msg)
    BY <2>1, AppendTodo DEF TypeOK
  <2> QED
    BY <1>1, <2>1, <2>2, Zenon DEF TypeOK, EnqueueMessage, thread
<1>2. ASSUME NEW m \in Msg, AddTodoEntry(m) PROVE TypeOK'
  <2>1. Append(todo, Dest[m]) \in Seq(Target)
    BY AppendTodo DEF TypeOK
  <2> QED
    BY <1>2, <2>1, Zenon DEF TypeOK, AddTodoEntry, thread
<1>3. ASSUME NEW p \in Pusher, DoSomePolling(p) PROVE TypeOK'
  BY <1>3, SMTT(90) DEF TypeOK, DoSomePolling
<1>4. ASSUME NEW p \in Pusher, PopTodo(p) PROVE TypeOK'
  <2>1. Tail(todo) \in Seq(Target) /\ Head(todo) \in Target
    BY <1>4, TailTodo DEF TypeOK, PopTodo
  <2>2. settled' \subseteq Msg
    BY <1>4, Zenon DEF TypeOK, PopTodo
  <2> QED
    BY <1>4, <2>1, <2>2, Zenon DEF TypeOK, PopTodo
<1>5. ASSUME NEW p \in Pusher, ListEmpty(p) PROVE TypeOK'
  BY <1>5, SMTT(90) DEF TypeOK, ListEmpty
<1>5a. ASSUME NEW p \in Pusher, LockBusy(p) PROVE TypeOK'
  BY <1>5a, SMTT(90) DEF TypeOK, LockBusy
<1>5b. ASSUME NEW p \in Pusher, CheckShutdown(p) PROVE TypeOK'
  BY <1>5b, SMTT(90) DEF TypeOK, CheckShutdown
<1>6. ASSUME NEW p \in Pusher, PushBreak(p) PROVE TypeOK'
  BY <1>6, SMTT(90) DEF TypeOK, PushBreak
<1>7. ASSUME NEW p \in Pusher, PushPop(p) PROVE TypeOK'
  <2>1. target[p] \in Target /\ queue[target[p]] \in Seq(Msg)
    BY DEF TypeOK
  <2>2. Tail(queue[target[p]]) \in Seq(Msg) /\ Head(queue[target[p]]) \in Msg
    BY <1>7, <2>1, TailTodo DEF PushPop
  <2> QED
    BY <1>7, <2>1, <2>2, Zenon DEF TypeOK, PushPop
<1>8. ASSUME NEW p \in Pusher, Send(p) PROVE TypeOK'
  <2>1. target[p] \in Target /\ sent[target[p]] \in Seq(Msg) /\ hdr[p] \in Msg
    BY DEF TypeOK
  <2>2. Append(sent[target[p]], hdr[p]) \in Seq(Msg)
    BY <2>1, AppendTodo
  <2>3. sent' \in [Target -> Seq(Msg)]
    BY <1>8, <2>1, <2>2 DEF TypeOK, Send
  <2>4. count' \in [Pusher -> Nat]
    <3>1. count' = [count EXCEPT ![p] = @ + 1] /\ count \in [Pusher -> Nat]
      BY <1>8 DEF TypeOK, Send
    <3> QED
      BY <3>1
  <2>5. pc' \in [Pusher -> {"out", "top", "pushing", "sending", "readd", "looked", "exited"}]
    <3>1. PICK c \in {"top", "pushing", "readd"} : pc' = [pc EXCEPT ![p] = c]
      BY <1>8, Zenon DEF Send
    <3> QED
      BY <3>1, SMTT(30) DEF TypeOK
  <2> QED
    BY <1>8, <2>3, <2>4, <2>5, Zenon DEF TypeOK, Send
<1>9. ASSUME NEW p \in Pusher, PutBack(p) PROVE TypeOK'
  <2>1. Append(todo, target[p]) \in Seq(Target)
    BY AppendTodo DEF TypeOK
  <2> QED
    BY <1>9, <2>1, Zenon DEF TypeOK, PutBack
<1>10. CASE StopThreads
  BY <1>10, SMTT(30) DEF TypeOK, StopThreads, thread
<1>11. CASE UNCHANGED vars
  BY <1>11, SMTT(30) DEF TypeOK, vars, thread
<1> QED
  BY <1>1, <1>2, <1>3, <1>4, <1>5, <1>5a, <1>5b, <1>6, <1>7, <1>8, <1>9, <1>10, <1>11
     DEF Next, PusherStep

(* The token of an endpoint t, as OneToken states it.  *)
Token(t) ==
  /\ queue[t] # <<>> <=> Held(t) \/ Listed(t) \/ Owed(t)
  /\ ~(Held(t) /\ Listed(t)) /\ ~(Held(t) /\ Owed(t)) /\ ~(Listed(t) /\ Owed(t))
  /\ HeldOnce(t) /\ ListedOnce(t) /\ OwedOnce(t)

LEMMA SameHolders ==
  ASSUME NEW t \in Target, \A p \in Pusher : Holds(p, t)' <=> Holds(p, t)
  PROVE  (Held(t)' <=> Held(t)) /\ (HeldOnce(t)' <=> HeldOnce(t))
BY DEF Held, HeldOnce

LEMMA SameList ==
  ASSUME NEW t \in Target, todo' = todo
  PROVE  (Listed(t)' <=> Listed(t)) /\ (ListedOnce(t)' <=> ListedOnce(t))
BY DEF Listed, ListedOnce

LEMMA SameOwed ==
  ASSUME NEW t \in Target, \A m : Dest[m] = t => (m \in owed' <=> m \in owed)
  PROVE  (Owed(t)' <=> Owed(t)) /\ (OwedOnce(t)' <=> OwedOnce(t))
BY DEF Owed, OwedOnce

(* add_todo_entry(u).  *)
LEMMA AddedToList ==
  ASSUME NEW t \in Target, NEW u \in Target, todo \in Seq(Target),
         todo' = Append(todo, u)
  PROVE  /\ t # u => (Listed(t)' <=> Listed(t)) /\ (ListedOnce(t) => ListedOnce(t)')
         /\ t = u => Listed(t)' /\ (~Listed(t) => ListedOnce(t)')
<1>1. /\ \A i \in DOMAIN todo : i \in DOMAIN todo' /\ todo'[i] = todo[i]
      /\ \A i \in DOMAIN todo' :
           i \in DOMAIN todo \/ (i = Len(todo) + 1 /\ todo'[i] = u)
      /\ Len(todo) + 1 \in DOMAIN todo' /\ todo'[Len(todo) + 1] = u
  BY AppendTodo
<1>2. Listed(t)' <=> Listed(t) \/ t = u
  BY <1>1 DEF Listed
<1>3. ASSUME t # u, ListedOnce(t) PROVE ListedOnce(t)'
  BY <1>1, <1>3 DEF ListedOnce
<1>4. ASSUME t = u, ~Listed(t) PROVE ListedOnce(t)'
  BY <1>1, <1>4 DEF ListedOnce, Listed
<1> QED
  BY <1>2, <1>3, <1>4

(* Popping the list's oldest entry.  *)
LEMMA TakenFromList ==
  ASSUME NEW t \in Target, todo \in Seq(Target), todo # <<>>, todo' = Tail(todo)
  PROVE  /\ Listed(Head(todo))
         /\ t # Head(todo) => (Listed(t)' <=> Listed(t))
         /\ t = Head(todo) /\ ListedOnce(t) => ~Listed(t)'
         /\ ListedOnce(t) => ListedOnce(t)'
<1>1. /\ \A i \in DOMAIN todo' : i + 1 \in DOMAIN todo /\ todo'[i] = todo[i + 1]
      /\ \A i \in DOMAIN todo : i # 1 => i - 1 \in DOMAIN todo' /\ todo'[i - 1] = todo[i]
      /\ 1 \in DOMAIN todo /\ todo[1] = Head(todo)
      /\ DOMAIN todo \subseteq Int /\ DOMAIN todo' \subseteq Nat \ {0}
  BY TailTodo
<1>2. Listed(Head(todo))
  BY <1>1 DEF Listed
<1>3. ASSUME t # Head(todo) PROVE Listed(t)' <=> Listed(t)
  <2>1. ASSUME Listed(t) PROVE Listed(t)'
    <3>1. PICK i \in DOMAIN todo : todo[i] = t
      BY <2>1 DEF Listed
    <3>2. i - 1 \in DOMAIN todo' /\ todo'[i - 1] = t
      BY <1>1, <1>3, <3>1
    <3> QED
      BY <3>2 DEF Listed
  <2>2. ASSUME Listed(t)' PROVE Listed(t)
    BY <1>1, <2>2 DEF Listed
  <2> QED
    BY <2>1, <2>2
<1>4. ASSUME t = Head(todo), ListedOnce(t) PROVE ~Listed(t)'
  BY <1>1, <1>4 DEF Listed, ListedOnce
<1>5. ASSUME ListedOnce(t) PROVE ListedOnce(t)'
  <2> SUFFICES ASSUME NEW i \in DOMAIN todo', NEW j \in DOMAIN todo',
                      todo'[i] = t, todo'[j] = t
               PROVE  i = j
    BY DEF ListedOnce
  <2>1. i + 1 = j + 1
    BY <1>1, <1>5, SMTT(30) DEF ListedOnce
  <2> QED
    BY <1>1, <2>1
<1> QED
  BY <1>2, <1>3, <1>4, <1>5

LEMMA EnqueueToken ==
  ASSUME TokenInv, NEW m \in Msg, EnqueueMessage(m), NEW t \in Target
  PROVE  Token(t)'
<1>0. /\ Dest[m] \in Target /\ owed \subseteq Msg /\ queue \in [Target -> Seq(Msg)]
      /\ queue' = [queue EXCEPT ![Dest[m]] = Append(@, m)]
      /\ owed' = IF queue[Dest[m]] = <<>> THEN owed \cup {m} ELSE owed
      /\ todo' = todo
      /\ \A p \in Pusher : Holds(p, t)' <=> Holds(p, t)
  BY ManagerAssumption, Zenon DEF TokenInv, TypeOK, EnqueueMessage, thread, Holds
<1>1. Token(t)
  BY DEF TokenInv, OneToken, Token
<1>2. /\ (Held(t)' <=> Held(t)) /\ (HeldOnce(t)' <=> HeldOnce(t))
      /\ (Listed(t)' <=> Listed(t)) /\ (ListedOnce(t)' <=> ListedOnce(t))
  BY <1>0, SameHolders, SameList
<1>3. ASSUME NEW s \in Seq(Msg) PROVE Append(s, m) # <<>>
  <2>1. Len(Append(s, m)) = Len(s) + 1 /\ Len(s) \in Nat /\ Len(<<>>) = 0
    OBVIOUS
  <2> QED
    BY <2>1
<1>4. CASE t # Dest[m] \/ queue[t] # <<>>
  <2>1. queue'[t] # <<>> <=> queue[t] # <<>>
    BY <1>0, <1>3, <1>4
  <2>2. \A n : Dest[n] = t => (n \in owed' <=> n \in owed)
    BY <1>0, <1>4
  <2> QED
    BY <1>1, <1>2, <2>1, <2>2, SameOwed DEF Token
<1>5. CASE t = Dest[m] /\ queue[t] = <<>>
  <2>1. queue'[t] # <<>>
    BY <1>0, <1>3, <1>5
  <2>2. ~Held(t) /\ ~Listed(t) /\ ~Owed(t)
    BY <1>1, <1>5 DEF Token
  <2>3. Owed(t)' /\ OwedOnce(t)'
    BY <1>0, <1>5, <2>2 DEF Owed, OwedOnce
  <2> QED
    BY <1>1, <1>2, <2>1, <2>2, <2>3 DEF Token
<1> QED
  BY <1>4, <1>5

LEMMA AddTodoToken ==
  ASSUME TokenInv, NEW m \in Msg, AddTodoEntry(m), NEW t \in Target
  PROVE  Token(t)'
<1>0. /\ Dest[m] \in Target /\ todo \in Seq(Target) /\ queue' = queue
      /\ m \in owed /\ owed' = owed \ {m} /\ todo' = Append(todo, Dest[m])
      /\ \A p \in Pusher : Holds(p, t)' <=> Holds(p, t)
  BY ManagerAssumption DEF TokenInv, TypeOK, AddTodoEntry, thread, Holds
<1>1. Token(t)
  BY DEF TokenInv, OneToken, Token
<1>2. (Held(t)' <=> Held(t)) /\ (HeldOnce(t)' <=> HeldOnce(t))
  BY <1>0, SameHolders
<1>3. CASE t # Dest[m]
  <2>1. \A n : Dest[n] = t => (n \in owed' <=> n \in owed)
    BY <1>0, <1>3
  <2>2. (Listed(t)' <=> Listed(t)) /\ (ListedOnce(t) => ListedOnce(t)')
    BY <1>0, <1>3, AddedToList
  <2> QED
    BY <1>0, <1>1, <1>2, <2>1, <2>2, SameOwed, Zenon DEF Token
<1>4. CASE t = Dest[m]
  <2>1. Owed(t)
    BY <1>0, <1>4 DEF Owed
  <2>2. ~Held(t) /\ ~Listed(t) /\ queue[t] # <<>> /\ OwedOnce(t)
    BY <1>1, <2>1 DEF Token
  <2>3. ~Owed(t)' /\ OwedOnce(t)'
    BY <1>0, <1>4, <2>2 DEF Owed, OwedOnce
  <2>4. Listed(t)' /\ ListedOnce(t)'
    BY <1>0, <1>4, <2>2, AddedToList
  <2> QED
    BY <1>0, <1>1, <1>2, <2>2, <2>3, <2>4, Zenon DEF Token
<1> QED
  BY <1>3, <1>4

(* A pusher p moves; no other thread's token is touched.  *)
LEMMA OtherHolders ==
  ASSUME TypeOK, NEW p \in Pusher, NEW t,
         \A q \in Pusher \ {p} : /\ pc'[q] = pc[q] /\ target'[q] = target[q]
                                 /\ still_more'[q] = still_more[q]
  PROVE  \A q \in Pusher \ {p} : Holds(q, t)' <=> Holds(q, t)
BY DEF Holds

LEMMA PopTodoToken ==
  ASSUME TokenInv, NEW p \in Pusher, PopTodo(p), NEW t \in Target
  PROVE  Token(t)'
<1>0. /\ TypeOK /\ todo \in Seq(Target) /\ todo # <<>> /\ todo' = Tail(todo)
      /\ queue' = queue /\ owed' = owed
      /\ ~Holds(p, t) /\ (Holds(p, t)' <=> t = Head(todo))
      /\ \A q \in Pusher \ {p} : /\ pc'[q] = pc[q] /\ target'[q] = target[q]
                                 /\ still_more'[q] = still_more[q]
  BY Zenon DEF TokenInv, TypeOK, PopTodo, Holds
<1>1. Token(t)
  BY DEF TokenInv, OneToken, Token
<1>2. \A q \in Pusher \ {p} : Holds(q, t)' <=> Holds(q, t)
  BY <1>0, OtherHolders
<1>3. (Owed(t)' <=> Owed(t)) /\ (OwedOnce(t)' <=> OwedOnce(t))
  BY <1>0, SameOwed
<1>4. /\ Listed(Head(todo))
      /\ t # Head(todo) => (Listed(t)' <=> Listed(t))
      /\ t = Head(todo) /\ ListedOnce(t) => ~Listed(t)'
      /\ ListedOnce(t) => ListedOnce(t)'
  BY <1>0, TakenFromList
<1>5. CASE t # Head(todo)
  BY <1>0, <1>1, <1>2, <1>3, <1>4, <1>5, SameHolders, Zenon DEF Token
<1>6. CASE t = Head(todo)
  <2>1. Listed(t) /\ ~Held(t) /\ ~Owed(t) /\ queue[t] # <<>>
    BY <1>1, <1>4, <1>6, Zenon DEF Token
  <2>2. Held(t)' /\ HeldOnce(t)'
    BY <1>0, <1>2, <1>6, <2>1 DEF Held, HeldOnce
  <2> QED
    BY <1>0, <1>1, <1>3, <1>4, <1>6, <2>1, <2>2, Zenon DEF Token
<1> QED
  BY <1>5, <1>6

LEMMA PushPopToken ==
  ASSUME TokenInv, NEW p \in Pusher, PushPop(p), NEW t \in Target
  PROVE  Token(t)'
<1>0. /\ TypeOK /\ todo' = todo /\ owed' = owed
      /\ target[p] \in Target
      /\ t # target[p] => queue'[t] = queue[t]
      /\ t = target[p] => queue'[t] = Tail(queue[t]) /\ queue[t] # <<>>
      /\ Holds(p, t) <=> t = target[p]
      /\ Holds(p, t)' <=> t = target[p] /\ Tail(queue[t]) # <<>>
      /\ \A q \in Pusher \ {p} : /\ pc'[q] = pc[q] /\ target'[q] = target[q]
                                 /\ still_more'[q] = still_more[q]
  BY Zenon DEF TokenInv, TypeOK, PushPop, Holds
<1>1. Token(t)
  BY DEF TokenInv, OneToken, Token
<1>2. \A q \in Pusher \ {p} : Holds(q, t)' <=> Holds(q, t)
  BY <1>0, OtherHolders
<1>3. /\ (Owed(t)' <=> Owed(t)) /\ (OwedOnce(t)' <=> OwedOnce(t))
      /\ (Listed(t)' <=> Listed(t)) /\ (ListedOnce(t)' <=> ListedOnce(t))
  BY <1>0, SameOwed, SameList, Zenon
<1>4. CASE t # target[p]
  BY <1>0, <1>1, <1>2, <1>3, <1>4, SameHolders, Zenon DEF Token
<1>5. CASE t = target[p]
  <2>1. Held(t) /\ HeldOnce(t) /\ ~Listed(t) /\ ~Owed(t)
    BY <1>0, <1>1, <1>5, Zenon DEF Token, Held
  <2>2. (Held(t)' <=> queue'[t] # <<>>) /\ HeldOnce(t)'
    BY <1>0, <1>2, <1>5, <2>1, Zenon DEF Held, HeldOnce
  <2> QED
    BY <1>1, <1>3, <2>1, <2>2, Zenon DEF Token
<1> QED
  BY <1>4, <1>5

LEMMA PutBackToken ==
  ASSUME TokenInv, NEW p \in Pusher, PutBack(p), NEW t \in Target
  PROVE  Token(t)'
<1>0. /\ TypeOK /\ todo \in Seq(Target) /\ target[p] \in Target
      /\ todo' = Append(todo, target[p]) /\ owed' = owed /\ queue' = queue
      /\ (Holds(p, t) <=> t = target[p]) /\ ~Holds(p, t)'
      /\ \A q \in Pusher \ {p} : /\ pc'[q] = pc[q] /\ target'[q] = target[q]
                                 /\ still_more'[q] = still_more[q]
  BY SMTT(30) DEF TokenInv, TypeOK, PutBack, Holds
<1>1. Token(t)
  BY DEF TokenInv, OneToken, Token
<1>2. \A q \in Pusher \ {p} : Holds(q, t)' <=> Holds(q, t)
  BY <1>0, OtherHolders
<1>3. (Owed(t)' <=> Owed(t)) /\ (OwedOnce(t)' <=> OwedOnce(t))
  BY <1>0, SameOwed
<1>4. CASE t # target[p]
  <2>1. (Listed(t)' <=> Listed(t)) /\ (ListedOnce(t) => ListedOnce(t)')
    BY <1>0, <1>4, AddedToList, Zenon
  <2> QED
    BY <1>0, <1>1, <1>2, <1>3, <1>4, <2>1, SameHolders, Zenon DEF Token
<1>5. CASE t = target[p]
  <2>1. Held(t) /\ HeldOnce(t) /\ ~Listed(t) /\ ~Owed(t) /\ queue[t] # <<>>
    BY <1>0, <1>1, <1>5, Zenon DEF Token, Held
  <2>2. ~Held(t)' /\ HeldOnce(t)'
    BY <1>0, <1>2, <1>5, <2>1, Zenon DEF Held, HeldOnce
  <2>3. Listed(t)' /\ ListedOnce(t)'
    BY <1>0, <1>5, <2>1, AddedToList, Zenon
  <2> QED
    BY <1>0, <1>1, <1>3, <2>1, <2>2, <2>3, Zenon DEF Token
<1> QED
  BY <1>4, <1>5

(* The steps that move no token: looking at the list, breaking out of a    *)
(* push, sending, setting the flag.                                        *)
LEMMA OtherToken ==
  ASSUME TokenInv, NEW t \in Target,
         queue' = queue, todo' = todo, owed' = owed,
         \A p \in Pusher : Holds(p, t)' <=> Holds(p, t)
  PROVE  Token(t)'
<1>1. Token(t)
  BY Zenon DEF TokenInv, OneToken, Token
<1> QED
  BY <1>1, SameHolders, SameList, SameOwed, Zenon DEF Token

LEMMA InitToken == Init => TokenInv
<1> SUFFICES ASSUME Init PROVE TokenInv
  OBVIOUS
<1>1. TypeOK
  <2>1. (CHOOSE t \in Target : TRUE) \in Target /\ (CHOOSE m \in Msg : TRUE) \in Msg
    BY ManagerAssumption
  <2>2. <<>> \in Seq(Msg) /\ <<>> \in Seq(Target)
    OBVIOUS
  <2> QED
    BY <2>1, <2>2, Zenon DEF Init, TypeOK
<1>2. OneToken
  BY DEF Init, OneToken, Held, Listed, Owed, HeldOnce, ListedOnce, OwedOnce, Holds
<1> QED
  BY <1>1, <1>2 DEF TokenInv

LEMMA TokenStep == TokenInv /\ [Next]_vars => TokenInv'
<1> SUFFICES ASSUME TokenInv, [Next]_vars PROVE TokenInv'
  OBVIOUS
<1>1. TypeOK'
  BY TypeStep DEF TokenInv
<1>2. ASSUME NEW t \in Target PROVE Token(t)'
  <2>1. ASSUME NEW m \in Msg, EnqueueMessage(m) PROVE Token(t)'
    BY <2>1, EnqueueToken, Zenon
  <2>2. ASSUME NEW m \in Msg, AddTodoEntry(m) PROVE Token(t)'
    BY <2>2, AddTodoToken
  <2>3. ASSUME NEW p \in Pusher, DoSomePolling(p) PROVE Token(t)'
    BY <2>3, OtherToken, Zenon DEF DoSomePolling, TokenInv, TypeOK, Holds
  <2>4. ASSUME NEW p \in Pusher, PopTodo(p) PROVE Token(t)'
    BY <2>4, PopTodoToken
  <2>5. ASSUME NEW p \in Pusher, ListEmpty(p) PROVE Token(t)'
    BY <2>5, OtherToken, Zenon DEF ListEmpty, TokenInv, TypeOK, Holds
  <2>5a. ASSUME NEW p \in Pusher, LockBusy(p) PROVE Token(t)'
    BY <2>5a, OtherToken, Zenon DEF LockBusy, TokenInv, TypeOK, Holds
  <2>5b. ASSUME NEW p \in Pusher, CheckShutdown(p) PROVE Token(t)'
    BY <2>5b, OtherToken, Zenon DEF CheckShutdown, TokenInv, TypeOK, Holds
  <2>6. ASSUME NEW p \in Pusher, PushBreak(p) PROVE Token(t)'
    BY <2>6, OtherToken, Zenon DEF PushBreak, TokenInv, TypeOK, Holds
  <2>7. ASSUME NEW p \in Pusher, PushPop(p) PROVE Token(t)'
    BY <2>7, PushPopToken
  <2>8. ASSUME NEW p \in Pusher, Send(p) PROVE Token(t)'
    BY <2>8, OtherToken, Zenon DEF Send, TokenInv, TypeOK, Holds
  <2>9. ASSUME NEW p \in Pusher, PutBack(p) PROVE Token(t)'
    BY <2>9, PutBackToken
  <2>10. CASE StopThreads
    BY <2>10, OtherToken, Zenon DEF StopThreads, thread, Holds
  <2>11. CASE UNCHANGED vars
    BY <2>11, OtherToken DEF vars, thread, Holds
  <2> QED
    BY <2>1, <2>2, <2>3, <2>4, <2>5, <2>5a, <2>5b, <2>6, <2>7, <2>8, <2>9, <2>10, <2>11
       DEF Next, PusherStep
<1> QED
  BY <1>1, <1>2, Zenon DEF TokenInv, OneToken, Token

(***************************************************************************)
(* add_todo_entry, push_messages and enqueue_message keep exactly one      *)
(* token per endpoint with queued messages, for every number of threads.   *)
(***************************************************************************)
THEOREM TodoTokens == Spec => []TokenInv
BY InitToken, TokenStep, PTL DEF Spec

(* An injective list of targets is no longer than the set of targets.      *)
LEMMA TokensFit == TokenInv => NeverWraps
<1> SUFFICES ASSUME TokenInv, ~NeverWraps PROVE FALSE
  OBVIOUS
<1>1. /\ todo \in Seq(Target) /\ Len(todo) \in Nat /\ DOMAIN todo = 1 .. Len(todo)
      /\ todo \in [1 .. Len(todo) -> Target]
  BY DEF TokenInv, TypeOK
<1>2. IsFiniteSet(1 .. Len(todo)) /\ Cardinality(1 .. Len(todo)) = Len(todo)
  BY <1>1, FS_Interval, SMTT(90)
<1>3. Cardinality(Target) \in Nat
  BY FiniteTarget, FS_CardinalityType
<1>4. \E i, j \in 1 .. Len(todo) : i # j /\ todo[i] = todo[j]
  BY <1>1, <1>2, <1>3, FiniteTarget, FS_PigeonHole DEF NeverWraps
<1> QED
  BY <1>1, <1>4 DEF TokenInv, OneToken, ListedOnce

(* The assertion in add_todo_entry never fails.                            *)
THEOREM TodoNeverWraps == Spec => []NeverWraps
BY TodoTokens, TokensFit, PTL
-----------------------------------------------------------------------------
(* Where a message is.                                                     *)
In(m, s) == \E i \in DOMAIN s : s[i] = m

LEMMA AppendIn ==
  ASSUME NEW S, NEW s \in Seq(S), NEW x \in S, NEW m
  PROVE  In(m, Append(s, x)) <=> In(m, s) \/ m = x
BY AppendTodo DEF In

LEMMA TailIn ==
  ASSUME NEW S, NEW s \in Seq(S), s # <<>>, NEW m
  PROVE  In(m, s) <=> In(m, Tail(s)) \/ m = Head(s)
<1>1. ASSUME In(m, Tail(s)) PROVE In(m, s)
  BY <1>1, TailTodo DEF In
<1>2. In(Head(s), s)
  BY TailTodo DEF In
<1>3. ASSUME In(m, s), m # Head(s) PROVE In(m, Tail(s))
  <2>1. PICK i \in DOMAIN s : s[i] = m
    BY <1>3 DEF In
  <2>2. i - 1 \in DOMAIN Tail(s) /\ Tail(s)[i - 1] = m
    BY <1>3, <2>1, TailTodo
  <2> QED
    BY <2>2 DEF In
<1> QED
  BY <1>1, <1>2, <1>3

LEMMA InNonEmpty ==
  ASSUME NEW m, NEW s, In(m, s)
  PROVE  s # <<>>
BY DEF In

(* The parts of the invariant, with the sequences out of sight.            *)
RightQueue == \A t \in Target, m \in Msg : In(m, queue[t]) => Dest[m] = t
RightTarget == \A p \in Pusher : pc[p] = "sending" => Dest[hdr[p]] = target[p]
Somewhere(m) == Arrived(m) => InQueue(m) \/ Sending(m) \/ WasSent(m)
PollersStay == \A p \in Poller : pc[p] # "out" /\ (pc[p] = "exited" => shutdown_flag)
Tended(t) == \/ \E p \in Poller : Holds(p, t)
             \/ Listed(t) /\ \E p \in Poller : WillLook(p)
Unhelped(t) == \A h \in Helper : ~WorksOn(h, t)
Left(m) == Arrived(m) /\ Unhelped(Dest[m]) /\ (InQueue(m) => Tended(Dest[m]))

LEMMA Places ==
  ASSUME NEW m
  PROVE  /\ Arrived(m) <=> In(m, arrived[Dest[m]])
         /\ InQueue(m) <=> In(m, queue[Dest[m]])
         /\ WasSent(m) <=> In(m, sent[Dest[m]])
         /\ Arrived(m)' <=> In(m, arrived'[Dest[m]])
         /\ InQueue(m)' <=> In(m, queue'[Dest[m]])
         /\ WasSent(m)' <=> In(m, sent'[Dest[m]])
BY DEF Arrived, InQueue, WasSent, In

LEMMA Parts ==
  TypeOK =>
    /\ NothingLost <=> RightQueue /\ RightTarget /\ \A m \in Msg : Somewhere(m)
    /\ ExitInv <=> /\ PollersStay
                   /\ ~shutdown_flag => settled = {}
                   /\ \A m \in settled : Left(m)
<1> SUFFICES ASSUME TypeOK
             PROVE  /\ NothingLost <=> RightQueue /\ RightTarget /\ \A m \in Msg : Somewhere(m)
                    /\ ExitInv <=> /\ PollersStay
                                   /\ ~shutdown_flag => settled = {}
                                   /\ \A m \in settled : Left(m)
  OBVIOUS
<1>1. (\A t \in Target : \A i \in DOMAIN queue[t] : Dest[queue[t][i]] = t) <=> RightQueue
  <2>1. ASSUME NEW t \in Target, NEW i \in DOMAIN queue[t] PROVE queue[t][i] \in Msg
    BY DEF TypeOK
  <2> QED
    BY <2>1 DEF RightQueue, In
<1> QED
  BY <1>1, Zenon DEF NothingLost, ExitInv, RightTarget, Somewhere, PollersStay,
     Left, Tended, Unhelped

LEMMA PartsNext ==
  TypeOK' =>
    /\ NothingLost' <=> RightQueue' /\ RightTarget' /\ (\A m \in Msg : Somewhere(m))'
    /\ ExitInv' <=> /\ PollersStay'
                    /\ (~shutdown_flag)' => (settled = {})'
                    /\ (\A m \in settled : Left(m))'
BY Parts, PTL

(* Messages move only forward: from a queue to a pusher to GASNet.         *)
Keeps(m) ==
  /\ Arrived(m) => Arrived(m)'
  /\ Arrived(m)' => Arrived(m) \/ InQueue(m)'
  /\ InQueue(m) => InQueue(m)' \/ Sending(m)'
  /\ Sending(m) => Sending(m)' \/ WasSent(m)'
  /\ WasSent(m) => WasSent(m)'
  /\ Arrived(m) /\ InQueue(m)' => InQueue(m)

LEMMA EnqueueKeeps ==
  ASSUME TypeOK, RightQueue, RightTarget, NEW k \in Msg, EnqueueMessage(k)
  PROVE  (\A m \in Msg : Keeps(m)) /\ RightQueue' /\ RightTarget'
<1>0. /\ ~Arrived(k) /\ Dest[k] \in Target
      /\ arrived' = [arrived EXCEPT ![Dest[k]] = Append(@, k)]
      /\ queue' = [queue EXCEPT ![Dest[k]] = Append(@, k)]
      /\ sent' = sent /\ pc' = pc /\ hdr' = hdr /\ target' = target
      /\ arrived \in [Target -> Seq(Msg)] /\ queue \in [Target -> Seq(Msg)]
  BY ManagerAssumption, Zenon DEF EnqueueMessage, thread, TypeOK
<1>1. ASSUME NEW t \in Target, NEW m \in Msg
      PROVE  /\ In(m, arrived'[t]) <=> In(m, arrived[t]) \/ (m = k /\ t = Dest[k])
             /\ In(m, queue'[t]) <=> In(m, queue[t]) \/ (m = k /\ t = Dest[k])
  <2>1. CASE t = Dest[k]
    <3>1. arrived'[t] = Append(arrived[t], k) /\ queue'[t] = Append(queue[t], k)
      BY <1>0, <2>1, Zenon
    <3>2. arrived[t] \in Seq(Msg) /\ queue[t] \in Seq(Msg)
      BY <1>0, Zenon
    <3> QED
      BY <2>1, <3>1, <3>2, AppendIn
  <2>2. CASE t # Dest[k]
    <3>1. arrived'[t] = arrived[t] /\ queue'[t] = queue[t]
      BY <1>0, <2>2, Zenon
    <3> QED
      BY <2>2, <3>1
  <2> QED
    BY <2>1, <2>2, Zenon
<1>2. RightQueue'
  BY <1>1 DEF RightQueue
<1>3. RightTarget'
  BY <1>0, Zenon DEF RightTarget
<1>4. ASSUME NEW m \in Msg PROVE Keeps(m)
  <2>1. Sending(m)' <=> Sending(m)
    BY <1>0, Zenon DEF Sending
  <2>2. Dest[m] \in Target
    BY ManagerAssumption
  <2>3. Arrived(m)' <=> Arrived(m) \/ m = k
    BY <1>1, <2>2, Places, Zenon
  <2>4. InQueue(m)' <=> InQueue(m) \/ m = k
    BY <1>1, <2>2, Places, Zenon
  <2>5. WasSent(m)' <=> WasSent(m)
    BY <1>0, Places, Zenon
  <2> QED
    BY <1>0, <2>1, <2>3, <2>4, <2>5, SMTT(30) DEF Keeps
<1> QED
  BY <1>2, <1>3, <1>4

LEMMA PushPopKeeps ==
  ASSUME TypeOK, RightQueue, RightTarget, NEW p \in Pusher, PushPop(p)
  PROVE  (\A m \in Msg : Keeps(m)) /\ RightQueue' /\ RightTarget'
<1> DEFINE k == Head(queue[target[p]])
<1>0. /\ pc[p] = "pushing" /\ target[p] \in Target /\ queue[target[p]] # <<>>
      /\ queue[target[p]] \in Seq(Msg)
      /\ queue' = [queue EXCEPT ![target[p]] = Tail(@)]
      /\ arrived' = arrived /\ sent' = sent /\ target' = target
      /\ queue \in [Target -> Seq(Msg)]
  BY Zenon DEF PushPop, TypeOK
<1>1. /\ pc'[p] = "sending" /\ hdr'[p] = k
      /\ \A q \in Pusher \ {p} : pc'[q] = pc[q] /\ hdr'[q] = hdr[q]
  BY Zenon DEF PushPop, TypeOK
<1>2. k \in Msg
  BY <1>0, TailTodo, Zenon
<1> HIDE DEF k
<1>3. ASSUME NEW t \in Target, NEW m \in Msg
      PROVE  /\ In(m, queue'[t]) => In(m, queue[t])
             /\ In(m, queue[t]) => In(m, queue'[t]) \/ m = k
             /\ In(k, queue[target[p]])
  <2>1. In(m, queue[target[p]]) <=> In(m, Tail(queue[target[p]])) \/ m = k
    BY <1>0, TailIn, Zenon DEF k
  <2>2. In(k, queue[target[p]])
    BY <1>0, TailIn, Zenon DEF k
  <2>3. queue'[t] = IF t = target[p] THEN Tail(queue[target[p]]) ELSE queue[t]
    BY <1>0
  <2> QED
    BY <2>1, <2>2, <2>3, Zenon
<1>4. RightQueue'
  BY <1>3 DEF RightQueue
<1>5. RightTarget'
  <2>1. Dest[k] = target[p]
    BY <1>0, <1>2, <1>3, Zenon DEF RightQueue
  <2> QED
    BY <1>0, <1>1, <2>1, Zenon DEF RightTarget
<1>6. ASSUME NEW m \in Msg PROVE Keeps(m)
  <2>1. Sending(m) => Sending(m)'
    BY <1>0, <1>1, Zenon DEF Sending
  <2>2. m = k => Sending(m)'
    BY <1>1, Zenon DEF Sending
  <2>3. Dest[m] \in Target
    BY ManagerAssumption
  <2>4. (InQueue(m)' => InQueue(m)) /\ (InQueue(m) => InQueue(m)' \/ m = k)
    BY <1>3, <2>3, Places, Zenon
  <2>5. (Arrived(m)' <=> Arrived(m)) /\ (WasSent(m)' <=> WasSent(m))
    BY <1>0, Places, Zenon
  <2> QED
    BY <2>1, <2>2, <2>4, <2>5, Zenon DEF Keeps
<1> QED
  BY <1>4, <1>5, <1>6, SMTT(30)

LEMMA SendKeeps ==
  ASSUME TypeOK, RightQueue, RightTarget, NEW p \in Pusher, Send(p)
  PROVE  (\A m \in Msg : Keeps(m)) /\ RightQueue' /\ RightTarget'
<1>0. /\ pc[p] = "sending" /\ target[p] \in Target /\ hdr[p] \in Msg
      /\ sent' = [sent EXCEPT ![target[p]] = Append(@, hdr[p])]
      /\ arrived' = arrived /\ queue' = queue /\ target' = target /\ hdr' = hdr
      /\ sent \in [Target -> Seq(Msg)]
  BY DEF Send, TypeOK
<1>1. pc'[p] # "sending" /\ \A q \in Pusher \ {p} : pc'[q] = pc[q]
  BY Zenon DEF Send, TypeOK
<1>2. Dest[hdr[p]] = target[p]
  BY <1>0 DEF RightTarget
<1>3. RightQueue' /\ RightTarget'
  BY <1>0, <1>1, Zenon DEF RightQueue, RightTarget
<1>4. ASSUME NEW m \in Msg PROVE Keeps(m)
  <2>1. Sending(m) => Sending(m)' \/ m = hdr[p]
    BY <1>0, <1>1, Zenon DEF Sending
  <2>2. Dest[m] \in Target
    BY ManagerAssumption
  <2>3. WasSent(m) \/ m = hdr[p] => WasSent(m)'
    <3>1. CASE Dest[m] = target[p]
      <4>1. sent'[Dest[m]] = Append(sent[Dest[m]], hdr[p]) /\ sent[Dest[m]] \in Seq(Msg)
        BY <1>0, <2>2, <3>1, Zenon
      <4>2. In(m, sent'[Dest[m]]) <=> In(m, sent[Dest[m]]) \/ m = hdr[p]
        BY <1>0, <4>1, AppendIn, SMTT(30)
      <4> QED
        BY <4>2, Places, Zenon
    <3>2. CASE Dest[m] # target[p]
      <4>1. sent'[Dest[m]] = sent[Dest[m]]
        BY <1>0, <2>2, <3>2, Zenon
      <4> QED
        BY <1>2, <3>2, <4>1, Places, Zenon
    <3> QED
      BY <3>1, <3>2
  <2>4. (InQueue(m)' <=> InQueue(m)) /\ (Arrived(m)' <=> Arrived(m))
    BY <1>0, Places, Zenon
  <2> QED
    BY <2>1, <2>3, <2>4 DEF Keeps
<1> QED
  BY <1>3, <1>4

(* Every other step leaves the messages where they are.                    *)
LEMMA OtherKeeps ==
  ASSUME RightQueue, RightTarget,
         arrived' = arrived, queue' = queue, sent' = sent, hdr' = hdr,
         \A p \in Pusher : /\ pc'[p] = "sending" <=> pc[p] = "sending"
                           /\ pc[p] = "sending" => target'[p] = target[p]
  PROVE  (\A m \in Msg : Keeps(m)) /\ RightQueue' /\ RightTarget'
<1>1. RightQueue' /\ RightTarget'
  BY Zenon DEF RightQueue, RightTarget
<1>2. ASSUME NEW m \in Msg PROVE Keeps(m)
  <2>1. Sending(m)' <=> Sending(m)
    BY Zenon DEF Sending
  <2> QED
    BY <2>1, Places, Zenon DEF Keeps
<1> QED
  BY <1>1, <1>2, Zenon

LEMMA KeepsStep ==
  ASSUME TypeOK, RightQueue, RightTarget, [Next]_vars
  PROVE  (\A m \in Msg : Keeps(m)) /\ RightQueue' /\ RightTarget'
<1> DEFINE Kept == (\A m \in Msg : Keeps(m)) /\ RightQueue' /\ RightTarget'
<1> SUFFICES Kept
  BY Zenon
<1>1. ASSUME NEW m \in Msg, EnqueueMessage(m) PROVE Kept
  BY <1>1, EnqueueKeeps
<1>2. ASSUME NEW m \in Msg, AddTodoEntry(m) PROVE Kept
  BY <1>2, OtherKeeps, Zenon DEF AddTodoEntry, thread
<1>3. ASSUME NEW p \in Pusher, DoSomePolling(p) PROVE Kept
  BY <1>3, OtherKeeps, Zenon DEF DoSomePolling, TypeOK
<1>4. ASSUME NEW p \in Pusher, PopTodo(p) PROVE Kept
  BY <1>4, OtherKeeps, Zenon DEF PopTodo, TypeOK
<1>5. ASSUME NEW p \in Pusher, ListEmpty(p) PROVE Kept
  BY <1>5, OtherKeeps, Zenon DEF ListEmpty, TypeOK
<1>5a. ASSUME NEW p \in Pusher, LockBusy(p) PROVE Kept
  BY <1>5a, OtherKeeps, Zenon DEF LockBusy, TypeOK
<1>5b. ASSUME NEW p \in Pusher, CheckShutdown(p) PROVE Kept
  BY <1>5b, OtherKeeps, Zenon DEF CheckShutdown, TypeOK
<1>6. ASSUME NEW p \in Pusher, PushBreak(p) PROVE Kept
  BY <1>6, OtherKeeps, Zenon DEF PushBreak, TypeOK
<1>7. ASSUME NEW p \in Pusher, PushPop(p) PROVE Kept
  BY <1>7, PushPopKeeps
<1>8. ASSUME NEW p \in Pusher, Send(p) PROVE Kept
  BY <1>8, SendKeeps
<1>9. ASSUME NEW p \in Pusher, PutBack(p) PROVE Kept
  BY <1>9, OtherKeeps, Zenon DEF PutBack, TypeOK
<1>10. CASE StopThreads
  BY <1>10, OtherKeeps, Zenon DEF StopThreads, thread
<1>11. CASE UNCHANGED vars
  BY <1>11, OtherKeeps DEF vars, thread
<1> QED
  BY <1>1, <1>2, <1>3, <1>4, <1>5, <1>5a, <1>5b, <1>6, <1>7, <1>8, <1>9, <1>10, <1>11, SMTT(30)
     DEF Next, PusherStep

LEMMA LostStep ==
  ASSUME TypeOK, TypeOK', NothingLost, [Next]_vars
  PROVE  NothingLost' /\ \A m \in Msg : Keeps(m)
<1>1. RightQueue /\ RightTarget /\ \A m \in Msg : Somewhere(m)
  BY Parts
<1>2. (\A m \in Msg : Keeps(m)) /\ RightQueue' /\ RightTarget'
  BY <1>1, KeepsStep
<1>3. \A m \in Msg : Somewhere(m)'
  BY <1>1, <1>2 DEF Keeps, Somewhere
<1> QED
  BY <1>2, <1>3, PartsNext

(* A polling thread leaves its loop only after stop_threads.               *)
LEMMA PollersStep ==
  ASSUME TypeOK, PollersStay, [Next]_vars
  PROVE  PollersStay'
<1>1. ASSUME NEW m \in Msg, EnqueueMessage(m) PROVE PollersStay'
  BY <1>1, Zenon DEF PollersStay, EnqueueMessage, thread
<1>2. ASSUME NEW m \in Msg, AddTodoEntry(m) PROVE PollersStay'
  BY <1>2 DEF PollersStay, AddTodoEntry, thread
<1>3. ASSUME NEW p \in Pusher, PusherStep(p) PROVE PollersStay'
  <2>1. /\ shutdown_flag' = shutdown_flag
        /\ \A q \in Pusher \ {p} : pc'[q] = pc[q]
        /\ p \in Poller => pc'[p] # "out"
        /\ p \in Poller /\ pc'[p] = "exited" => shutdown_flag
    BY <1>3, ManagerAssumption, Zenon DEF PusherStep, DoSomePolling, PopTodo, LockBusy,
       ListEmpty, CheckShutdown, PushBreak, PushPop, Send, PutBack, TypeOK
  <2> QED
    BY <2>1, Zenon DEF PollersStay, Pusher
<1>4. CASE StopThreads
  BY <1>4, Zenon DEF PollersStay, StopThreads, thread
<1>5. CASE UNCHANGED vars
  BY <1>5 DEF PollersStay, vars, thread
<1> QED
  BY <1>1, <1>2, <1>3, <1>4, <1>5, SMTT(30) DEF Next

(* A queued message that no enqueuer owes has its token on the list or     *)
(* with a pusher.                                                          *)
LEMMA QueuedToken ==
  ASSUME TokenInv, NEW m \in Msg, InQueue(m), ~Owed(Dest[m])
  PROVE  queue[Dest[m]] # <<>> /\ (Held(Dest[m]) \/ Listed(Dest[m]))
<1>1. queue[Dest[m]] # <<>>
  BY Places, InNonEmpty, Zenon
<1>2. Dest[m] \in Target
  BY ManagerAssumption, Zenon
<1> QED
  BY <1>1, <1>2, Zenon DEF TokenInv, OneToken

(* A thread moves which keeps the token it holds, or stays to look at the  *)
(* list again, and leaves the list's entry for t alone.                    *)
LEMMA StillTended ==
  ASSUME TypeOK, NEW t, Tended(t), NEW p \in Pusher,
         \A q \in Pusher \ {p} : /\ pc'[q] = pc[q] /\ target'[q] = target[q]
                                 /\ still_more'[q] = still_more[q],
         Listed(t) => Listed(t)',
         Holds(p, t) => Holds(p, t)', WillLook(p) => WillLook(p)'
  PROVE  Tended(t)'
<1>1. \A q \in Poller : (Holds(q, t) => Holds(q, t)') /\ (WillLook(q) => WillLook(q)')
  <2>1. \A q \in Pusher \ {p} : (Holds(q, t)' <=> Holds(q, t)) /\ (WillLook(q)' <=> WillLook(q))
    BY OtherHolders, Zenon DEF WillLook
  <2> QED
    BY <2>1, Zenon DEF Pusher
<1> QED
  BY <1>1, Zenon DEF Tended

(* The steps of the threads, for an endpoint with queued messages that no  *)
(* helper pops.                                                            *)
LEMMA PusherTends ==
  ASSUME TokenInv, NEW p \in Pusher, PusherStep(p), NEW t \in Target, Tended(t),
         queue'[t] # <<>>, p \in Helper /\ PopTodo(p) => Head(todo) # t
  PROVE  Tended(t)'
<1>0. TypeOK /\ todo \in Seq(Target) /\ target[p] \in Target
  BY Zenon DEF TokenInv, TypeOK
<1>1. \A q \in Pusher \ {p} : /\ pc'[q] = pc[q] /\ target'[q] = target[q]
                              /\ still_more'[q] = still_more[q]
  BY <1>0, Zenon DEF PusherStep, DoSomePolling, PopTodo, LockBusy, ListEmpty,
     CheckShutdown, PushBreak, PushPop, Send, PutBack, TypeOK
<1>2. CASE DoSomePolling(p) \/ LockBusy(p) \/ CheckShutdown(p)
  <2>1. todo' = todo /\ pc[p] \in {"out", "top", "looked"}
    BY <1>2, Zenon DEF DoSomePolling, LockBusy, CheckShutdown
  <2>2. ~Holds(p, t)
    BY <2>1 DEF Holds
  <2>3. p \in Poller => (WillLook(p) => WillLook(p)')
    BY <1>0, <1>2, ManagerAssumption, Zenon DEF WillLook, DoSomePolling, LockBusy,
       CheckShutdown, TypeOK
  <2>4. p \notin Poller => Tended(t)'
    <3>1. \A q \in Poller : p \notin Poller => q \in Pusher \ {p}
      BY Zenon DEF Pusher
    <3> QED
      BY <1>1, <2>1, <3>1, SameList, Zenon DEF Tended, Holds, WillLook
  <2> QED
    BY <1>0, <1>1, <2>1, <2>2, <2>3, <2>4, SameList, StillTended, Zenon
<1>3. CASE ListEmpty(p)
  <2>1. pc[p] = "top" /\ todo = <<>>
    BY <1>3, Zenon DEF ListEmpty
  <2>2. ~Listed(t) /\ ~Holds(p, t)
    BY <2>1 DEF Listed, Holds
  <2>3. PICK q \in Poller : Holds(q, t)
    BY <2>2, Zenon DEF Tended
  <2>4. q \in Pusher \ {p}
    BY <2>2, <2>3, Zenon DEF Pusher
  <2>5. Holds(q, t)'
    BY <1>0, <1>1, <2>3, <2>4, OtherHolders, Zenon
  <2> QED
    BY <2>5, Zenon DEF Tended
<1>4. CASE PopTodo(p)
  <2>1. /\ pc[p] = "top" /\ pc'[p] = "pushing" /\ target'[p] = Head(todo)
        /\ todo # <<>> /\ todo' = Tail(todo)
    BY <1>0, <1>4, Zenon DEF PopTodo, TypeOK
  <2>2. ~Holds(p, t) /\ WillLook(p)'
    BY <2>1 DEF Holds, WillLook
  <2>3. CASE Head(todo) = t
    BY <1>4, <2>1, <2>3, Zenon DEF Tended, Holds, Pusher
  <2>4. CASE Head(todo) # t
    <3>1. Listed(t) => Listed(t)'
      BY <1>0, <2>1, <2>4, TakenFromList
    <3> QED
      BY <1>0, <1>1, <2>2, <3>1, StillTended, Zenon
  <2> QED
    BY <2>3, <2>4
<1>5. CASE PushBreak(p) \/ PushPop(p) \/ Send(p)
  <2>1. todo' = todo /\ pc'[p] \in {"readd", "sending", "top", "pushing"}
    BY <1>0, <1>5, Zenon DEF PushBreak, PushPop, Send, TypeOK
  <2>2. Holds(p, t) => Holds(p, t)'
    BY <1>0, <1>5, Zenon DEF PushBreak, PushPop, Send, TypeOK, Holds
  <2>3. WillLook(p)'
    BY <2>1 DEF WillLook
  <2> QED
    BY <1>0, <1>1, <2>1, <2>2, <2>3, SameList, StillTended, Zenon
<1>6. CASE PutBack(p)
  <2>1. todo' = Append(todo, target[p]) /\ pc'[p] = "top" /\ pc[p] = "readd"
    BY <1>0, <1>6, Zenon DEF PutBack, TypeOK
  <2>2. WillLook(p)'
    BY <2>1 DEF WillLook
  <2>3. (Listed(t) => Listed(t)') /\ (t = target[p] => Listed(t)')
    BY <1>0, <2>1, AddedToList
  <2>4. CASE t = target[p]
    <3>1. PICK q \in Poller : Holds(q, t) \/ WillLook(q)
      BY Zenon DEF Tended
    <3>2. WillLook(q)
      BY <3>1 DEF Holds, WillLook
    <3>3. WillLook(q)'
      BY <1>1, <2>2, <3>2, Zenon DEF WillLook, Pusher
    <3> QED
      BY <2>3, <2>4, <3>3, Zenon DEF Tended
  <2>5. CASE t # target[p]
    <3>1. ~Holds(p, t)
      BY <2>5 DEF Holds
    <3> QED
      BY <1>0, <1>1, <2>2, <2>3, <3>1, StillTended, Zenon
  <2> QED
    BY <2>4, <2>5
<1> QED
  BY <1>2, <1>3, <1>4, <1>5, <1>6, Zenon DEF PusherStep

(* A helper comes to work on an endpoint only by popping it.               *)
LEMMA PusherUnhelped ==
  ASSUME TypeOK, NEW p \in Pusher, PusherStep(p), NEW t \in Target, Unhelped(t),
         p \in Helper /\ PopTodo(p) => Head(todo) # t
  PROVE  Unhelped(t)'
<1>1. \A q \in Pusher \ {p} : WorksOn(q, t)' <=> WorksOn(q, t)
  BY Zenon DEF PusherStep, DoSomePolling, PopTodo, LockBusy, ListEmpty,
     CheckShutdown, PushBreak, PushPop, Send, PutBack, TypeOK, WorksOn
<1>2. ASSUME ~PopTodo(p) PROVE WorksOn(p, t)' => WorksOn(p, t)
  BY <1>2, Zenon DEF PusherStep, DoSomePolling, LockBusy, ListEmpty,
     CheckShutdown, PushBreak, PushPop, Send, PutBack, TypeOK, WorksOn
<1>3. PopTodo(p) => (WorksOn(p, t)' => Head(todo) = t)
  BY Zenon DEF PopTodo, TypeOK, WorksOn
<1> QED
  BY <1>1, <1>2, <1>3, Zenon DEF Unhelped, Pusher

LEMMA SettledStep ==
  ASSUME TokenInv, [Next]_vars, \A k \in Msg : Keeps(k), NEW m \in Msg, Left(m),
         \A h \in Helper : PopTodo(h) => Head(todo) # Dest[m]
  PROVE  Left(m)'
<1>0. TypeOK /\ Dest[m] \in Target
  BY ManagerAssumption, Zenon DEF TokenInv
<1>1. Keeps(m) /\ Arrived(m) /\ Unhelped(Dest[m]) /\ (InQueue(m) => Tended(Dest[m]))
  BY Zenon DEF Left
<1>2. Arrived(m)' /\ (InQueue(m)' => Tended(Dest[m]))
  BY <1>1, Zenon DEF Keeps
<1>3. InQueue(m)' => queue'[Dest[m]] # <<>>
  BY Places, InNonEmpty, Zenon
<1>4. CASE UNCHANGED <<thread, todo>>
  <2>1. pc' = pc /\ target' = target /\ still_more' = still_more /\ todo' = todo
    BY <1>4 DEF thread
  <2>2. (Tended(Dest[m]) => Tended(Dest[m])') /\ Unhelped(Dest[m])'
    BY <1>1, <2>1, Zenon DEF Tended, Unhelped, Holds, Listed, WillLook, WorksOn
  <2> QED
    BY <1>2, <2>2, Zenon DEF Left
<1>5. ASSUME NEW k \in Msg, AddTodoEntry(k) PROVE Left(m)'
  <2>1. /\ pc' = pc /\ target' = target /\ still_more' = still_more
        /\ todo' = Append(todo, Dest[k]) /\ todo \in Seq(Target) /\ Dest[k] \in Target
    BY <1>0, <1>5, ManagerAssumption, Zenon DEF AddTodoEntry, thread, TypeOK
  <2>2. Listed(Dest[m]) => Listed(Dest[m])'
    BY <1>0, <2>1, AddedToList
  <2>3. (Tended(Dest[m]) => Tended(Dest[m])') /\ Unhelped(Dest[m])'
    BY <1>1, <2>1, <2>2, Zenon DEF Tended, Unhelped, Holds, WillLook, WorksOn
  <2> QED
    BY <1>2, <2>3, Zenon DEF Left
<1>6. ASSUME NEW p \in Pusher, PusherStep(p) PROVE Left(m)'
  BY <1>0, <1>1, <1>2, <1>3, <1>6, PusherTends, PusherUnhelped, Zenon DEF Left
<1> QED
  BY <1>4, <1>5, <1>6, Zenon DEF Next, EnqueueMessage, StopThreads, vars

(* What stop_threads leaves to the polling threads it finds.               *)
LEMMA StopLeaves ==
  ASSUME TokenInv, StopThreads, NEW m \in settled'
  PROVE  Left(m)'
<1>1. /\ m \in Msg /\ Arrived(m) /\ ~Owed(Dest[m]) /\ Unhelped(Dest[m])
      /\ \E p \in Poller : WillLook(p)
  BY Zenon DEF StopThreads, Owed, Unhelped
<1>2. /\ pc' = pc /\ target' = target /\ still_more' = still_more
      /\ todo' = todo /\ queue' = queue /\ arrived' = arrived
  BY DEF StopThreads, thread
<1>3. ASSUME InQueue(m) PROVE Tended(Dest[m])
  <2>1. Held(Dest[m]) \/ Listed(Dest[m])
    BY <1>1, <1>3, QueuedToken, Zenon
  <2>2. \A p \in Pusher : Holds(p, Dest[m]) => WorksOn(p, Dest[m])
    BY DEF Holds, WorksOn
  <2> QED
    BY <1>1, <2>1, <2>2, Zenon DEF Held, Tended, Unhelped, Pusher
<1>4. Left(m)
  BY <1>1, <1>3, Zenon DEF Left
<1> QED
  BY <1>2, <1>4, Zenon DEF Left, Arrived, InQueue, Tended, Unhelped, Holds, Listed,
     WillLook, WorksOn

LEMMA ExitStep ==
  ASSUME TokenInv, TypeOK', ExitInv, [Next]_vars, \A k \in Msg : Keeps(k)
  PROVE  ExitInv'
<1>0. TypeOK /\ settled \subseteq Msg /\ shutdown_flag \in BOOLEAN
  BY Zenon DEF TokenInv, TypeOK
<1>1. /\ PollersStay
      /\ ~shutdown_flag => settled = {}
      /\ \A m \in settled : Left(m)
  BY <1>0, Parts, Zenon
<1>2. PollersStay'
  BY <1>0, <1>1, PollersStep, Zenon
<1>3. CASE StopThreads
  <2>1. \A m \in settled' : Left(m)'
    BY <1>3, StopLeaves, Zenon
  <2>2. shutdown_flag'
    BY <1>3 DEF StopThreads
  <2> QED
    BY <1>2, <2>1, <2>2, PartsNext, Zenon
<1>4. CASE ~StopThreads
  <2>1. shutdown_flag' = shutdown_flag
    BY <1>4, Zenon DEF Next, PusherStep, EnqueueMessage, AddTodoEntry, DoSomePolling,
       PopTodo, LockBusy, ListEmpty, CheckShutdown, PushBreak, PushPop, Send, PutBack, vars
  <2>2. settled' \subseteq settled
    BY <1>4, Zenon DEF Next, PusherStep, EnqueueMessage, AddTodoEntry, DoSomePolling,
       PopTodo, LockBusy, ListEmpty, CheckShutdown, PushBreak, PushPop, Send, PutBack, vars
  <2>3. ASSUME NEW m \in settled' PROVE Left(m)'
    <3>1. m \in Msg /\ m \in settled /\ Left(m)
      BY <1>0, <1>1, <2>2, <2>3, Zenon
    <3>2. \A h \in Helper : PopTodo(h) => Head(todo) # Dest[m]
      BY <2>3, Zenon DEF PopTodo
    <3> QED
      BY <3>1, <3>2, SettledStep, Zenon
  <2> QED
    BY <1>1, <1>2, <2>1, <2>2, <2>3, PartsNext, SMTT(30)
<1> QED
  BY <1>3, <1>4

LEMMA ManagerStep == ManagerInv /\ [Next]_vars => ManagerInv'
<1> SUFFICES ASSUME ManagerInv, [Next]_vars PROVE ManagerInv'
  OBVIOUS
<1>1. TokenInv /\ TypeOK /\ NothingLost /\ ExitInv
  BY Zenon DEF ManagerInv, TokenInv
<1>2. TokenInv'
  BY <1>1, TokenStep
<1>3. TypeOK'
  BY <1>2 DEF TokenInv
<1>4. NothingLost' /\ \A m \in Msg : Keeps(m)
  BY <1>1, <1>3, LostStep
<1>5. ExitInv'
  BY <1>1, <1>3, <1>4, ExitStep
<1> QED
  BY <1>2, <1>4, <1>5, Zenon DEF ManagerInv

LEMMA InitManager == Init => ManagerInv
<1> SUFFICES ASSUME Init PROVE ManagerInv
  OBVIOUS
<1>1. TokenInv
  BY InitToken
<1>2. NothingLost
  <2>1. \A p \in Pusher : pc[p] # "sending"
    BY Zenon DEF Init
  <2> QED
    BY <2>1, ManagerAssumption DEF Init, NothingLost, Arrived
<1>3. ExitInv
  <2>1. \A p \in Poller : pc[p] = "top"
    BY Zenon DEF Init, Pusher
  <2> QED
    BY <2>1 DEF Init, ExitInv
<1> QED
  BY <1>1, <1>2, <1>3, Zenon DEF ManagerInv

(***************************************************************************)
(* Besides the tokens: enqueue_message and push_messages lose no message,  *)
(* and the polling threads leave no settled message behind them.           *)
(***************************************************************************)
THEOREM ManagerInvariant == Spec => []ManagerInv
BY InitManager, ManagerStep, PTL DEF Spec

LEMMA JoinedSent == ManagerInv => NothingStranded
<1> SUFFICES ASSUME ManagerInv, Joined, NEW m \in settled PROVE WasSent(m)
  BY Zenon DEF NothingStranded
<1>1. \A p \in Poller : pc[p] = "exited"
  BY Zenon DEF Joined
<1>2. \A p \in Poller : ~WillLook(p) /\ \A t \in Target : ~Holds(p, t)
  BY <1>1 DEF WillLook, Holds
<1>3. m \in Msg /\ Dest[m] \in Target
  BY ManagerAssumption, Zenon DEF ManagerInv, TokenInv, TypeOK
<1>4. Arrived(m) /\ ~InQueue(m) /\ \A h \in Helper : ~WorksOn(h, Dest[m])
  BY <1>2, <1>3, Zenon DEF ManagerInv, ExitInv
<1>5. ~Sending(m)
  <2> SUFFICES ASSUME NEW p \in Pusher, pc[p] = "sending", hdr[p] = m PROVE FALSE
    BY Zenon DEF Sending
  <2>1. p \in Helper
    BY <1>1 DEF Pusher
  <2>2. target[p] = Dest[m]
    BY Zenon DEF ManagerInv, NothingLost
  <2>3. WorksOn(p, Dest[m])
    BY <2>2 DEF WorksOn
  <2> QED
    BY <1>4, <2>1, <2>3, Zenon
<1> QED
  BY <1>3, <1>4, <1>5, Zenon DEF ManagerInv, NothingLost

(***************************************************************************)
(* What is queued and listed when stop_threads sets the flag is sent when  *)
(* it has joined the polling threads, unless all of them had already made  *)
(* their last look at the list, or a helper took the endpoint.             *)
(***************************************************************************)
THEOREM StopSendsSettled == Spec => []NothingStranded
BY ManagerInvariant, JoinedSent, PTL
=============================================================================
