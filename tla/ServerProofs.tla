----------------------------- MODULE ServerProofs -----------------------------
(***************************************************************************)
(* Server for every set of users, addresses, locations and requests, and   *)
(* any number of lives of the process: both threads keep what one of them  *)
(* was proved to keep alone, sessions and records stay consistent, and     *)
(* messages are addressed to the user they are for unless a removal        *)
(* overlapped the lookup.                                                  *)
(***************************************************************************)
EXTENDS Server, AdminServerProofs, ClientServerProofs

-----------------------------------------------------------------------------
(* The inductive invariant.  Besides what the admin thread keeps alone (Inv *)
(* of AdminServerProofs) it says what the client thread may rely on between *)
(* two steps: pointers lead to records or are Garbage, what a lookup may    *)
(* return, or has returned, has the name that was sought unless it was      *)
(* raced, and what is remembered of the logins agrees with the sessions.    *)

Lookups == raced \in BOOLEAN /\ Pointers /\ (~raced => NamesSought)

CopyMade == copy # NULL => heap[copy] # NULL

HistoryTyped ==
  /\ latest \in [Address -> Location \cup {NULL}]
  /\ account \in [Location -> (Username \X Password) \cup {NULL, Garbage}]

(* The part of SessionsSound that is about sessions *)
AccountsSound ==
  \A l \in Location : sessions[l] # NULL /\ sessions[l].logged_in =>
    /\ account[l] # NULL
    /\ account[l] # Garbage =>
         LET client == sessions[l].client IN
         /\ client \in Address /\ heap[client] # NULL /\ heap[client].ip = l[1]
         /\ account[l] = <<heap[client].username, heap[client].password>>

History == HistoryTyped /\ AccountsSound /\ LoginsReachable

SInv ==
  /\ Inv /\ CopyMade /\ ClientTypeOK /\ Lookups /\ Sending /\ AnswerShape
  /\ Leads /\ History /\ GroupsSound /\ AddressedUnlessRaced

LEMMA HistoryReaches == LoginsReachable => Reaches
  BY DEF LoginsReachable, Reaches

LEMMA HistorySound == ClientTypeOK /\ Lookups /\ AccountsSound => SessionsSound
  BY DEF Lookups, Pointers, NamesSought, AccountsSound, SessionsSound

-----------------------------------------------------------------------------
(* What the steps do to the records *)

LEMMA StoreKeepsRecords ==
  ASSUME TreeTypeOK, NEW a \in Address, NEW c, StoreRecord(a, c)
  PROVE  RecordsStay
  BY DEF StoreRecord, TreeTypeOK, RecordsStay

(* The admin thread only adds records. *)
LEMMA AdminKeepsRecords ==
  ASSUME Inv, AdminStep
  PROVE  RecordsStay
  <1>1. TreeTypeOK
    BY DEF Inv, AdminTypeOK
  <1>2. CASE LoadRecord
    BY <1>1, <1>2, StoreKeepsRecords DEF LoadRecord, InsertAt, treeVars, RecordsStay
  <1>3. CASE AddCopy
    BY <1>1, <1>3, StoreKeepsRecords DEF AddCopy
  <1>4. CASE Boot \/ StartThreads \/ Accept \/ Disconnect
    BY <1>4 DEF Boot, StartThreads, Accept, Disconnect, treeVars, RecordsStay
  <1>5. CASE AdminCommand
    BY <1>5 DEF AdminCommand, cmd_list, cmd_quit, InvalidUsage, UnknownCommand, AddDuplicate,
                AddWrite, DelNotFound, DelFound, Answer, treeVars, RecordsStay
  <1>6. CASE DelUnlink \/ DelTruncate \/ RewriteRecord \/ DelAnswer
    BY <1>6 DEF DelUnlink, private_avl_remove, DelTruncate, RewriteRecord, DelAnswer,
                treeVars, RecordsStay
  <1>7. CASE AddInsert
    BY <1>7 DEF AddInsert, RecordsStay
  <1> QED
    BY <1>2, <1>3, <1>4, <1>5, <1>6, <1>7 DEF AdminStep, MainStep, AdminProgress

LEMMA AdminKeepsCopy ==
  ASSUME Inv, CopyMade, AdminStep
  PROVE  CopyMade'
  <1>1. CASE AddCopy
    <2>1. PICK a \in Address : StoreRecord(a, pending) /\ copy' = a
      BY <1>1 DEF AddCopy
    <2>2. heap'[a] = pending /\ pending # NULL
      BY <1>1, <2>1 DEF AddCopy, StoreRecord, TreeTypeOK, Inv, AdminTypeOK, Control
    <2> QED
      BY <2>1, <2>2 DEF CopyMade
  <1>2. CASE AddInsert
    BY <1>2 DEF AddInsert, CopyMade
  <1>3. ~AddCopy /\ ~AddInsert => UNCHANGED copy
    BY DEF AdminStep, MainStep, AdminProgress, LoadRecord, Boot, StartThreads, Accept, Disconnect,
           AdminCommand, cmd_list, cmd_quit, InvalidUsage, UnknownCommand, AddDuplicate, AddWrite,
           DelNotFound, DelFound, Answer, DelUnlink, DelTruncate, RewriteRecord, DelAnswer
  <1>4. UNCHANGED copy => CopyMade'
    BY AdminKeepsRecords DEF RecordsStay, CopyMade, Inv, AdminTypeOK
  <1> QED
    BY <1>1, <1>2, <1>3, <1>4

-----------------------------------------------------------------------------
(* What a lookup may return *)

LEMMA LookupSound ==
  ASSUME Inv', CopyMade', Lookups, Overlap, NamesStay,
         seen \subseteq Address \cup {NULL, Garbage},
         cpc' = "lookup", Sought' \in Username, cpc = "lookup" => Sought' = Sought
  PROVE  /\ seen' \subseteq Address \cup {NULL, Garbage}
         /\ \A a \in seen' \cap Address : heap'[a] # NULL
         /\ ~raced' => NamesSought'
         /\ raced' \in BOOLEAN
  <1>1. /\ TreeTypeOK' /\ (UnlinkUnderWay' => deleting' \in Username)
    BY DEF Inv, AdminTypeOK, Control, UnlinkUnderWay
  <1>2. /\ raced' = (raced \/ UnlinkUnderWay')
        /\ seen' = seen \cup {avl_get(Sought)'} \cup Strays'
                        \cup (IF raced' THEN {Garbage, copy'} ELSE {})
    BY DEF Overlap
  <1>3. \A u \in Username : /\ data'[u] \in Address \cup {NULL}
                            /\ data'[u] # NULL => heap'[data'[u]] # NULL
                                                  /\ heap'[data'[u]].username = u
    BY <1>1 DEF TreeTypeOK
  <1>4. avl_get(Sought)' = data'[Sought']
    BY DEF avl_get
  <1>5. \A a \in Strays' : raced' /\ (a # NULL => a \in Address /\ heap'[a] # NULL)
    <2>1. UnlinkUnderWay' => OnlyChild(deleting)' \in Username \cup {NULL}
      BY <1>1 DEF OnlyChild, TreeTypeOK
    <2> QED
      BY <1>2, <1>3, <2>1 DEF Strays
  <1>6. copy' # NULL => copy' \in Address /\ heap'[copy'] # NULL
    BY DEF CopyMade, Inv, AdminTypeOK
  <1>7. \A a \in seen \ {NULL} :
          /\ a \in Address \cup {Garbage}
          /\ a \in Address => heap'[a] # NULL
          /\ ~raced => a \in Address /\ heap'[a].username = Sought'
    BY DEF Lookups, Pointers, NamesSought, NamesStay
  <1>8. raced' \in BOOLEAN
    BY <1>2 DEF Lookups, UnlinkUnderWay
  <1>9. ASSUME NEW a \in seen', a # NULL
        PROVE  /\ a \in Address \cup {Garbage}
               /\ a \in Address => heap'[a] # NULL
               /\ ~raced' => a \in Address /\ heap'[a].username = Sought'
    <2>1. CASE a \in seen
      BY <1>2, <1>7, <1>9, <2>1
    <2>2. CASE a = data'[Sought']
      BY <1>3, <1>9, <2>2
    <2>3. CASE a \in Strays'
      BY <1>5, <1>9, <2>3
    <2>4. CASE raced' /\ a \in {Garbage, copy'}
      BY <1>6, <1>9, <2>4, GarbageAssumption
    <2> QED
      BY <1>2, <1>4, <1>9, <2>1, <2>2, <2>3, <2>4
  <1>10. \A a \in seen' \cap Address : heap'[a] # NULL
    BY <1>9, AddressAssumption
  <1>11. seen' \subseteq Address \cup {NULL, Garbage}
    BY <1>9
  <1>12. ~raced' => NamesSought'
    BY <1>9 DEF NamesSought
  <1> QED
    BY <1>8, <1>10, <1>11, <1>12

(* The client thread: pointers and the sought name, from dispatch to answer *)
LEMMA ClientKeepsLookups ==
  ASSUME Inv', CopyMade', ClientTypeOK, Lookups, ClientStep, Overlap, NamesStay
  PROVE  Lookups' /\ seen' \subseteq Address \cup {NULL, Garbage}
  <1>1. ASSUME cpc' # "lookup"
        PROVE  seen' = {} /\ raced' = (cpc' # "dispatch" /\ raced) /\ raced' \in BOOLEAN
    BY <1>1 DEF Overlap, Lookups
  <1>2. CASE cpc' # "lookup"
    <2>1. Pointers'
      BY <1>1, <1>2, ClientKeepsPointers DEF Lookups
    <2>2. ~raced' => NamesSought'
      <3>1. CASE cpc' = "dispatch"
        BY <3>1 DEF NamesSought
      <3>2. CASE cpc' # "dispatch"
        BY <1>1, <1>2, <3>2, ClientKeepsNames DEF Lookups
      <3> QED
        BY <3>1, <3>2
    <2> QED
      BY <1>1, <1>2, <2>1, <2>2 DEF Lookups
  <1>3. CASE cpc' = "lookup"
    <2>1. lookup
      BY <1>3, ClientCases DEF NewRequest, recvfrom, lookup_returns, LoginSucceeds, cmd_msg, cmd_p2p,
                               CreatesGroup, TellsGroup, Declines, Answers, Send
    <2>2. /\ cpc = "dispatch" /\ UNCHANGED request
          /\ request.op \in {"LOGIN", "MSG", "P2P"} /\ request.args # BadArgs
      BY <2>1 DEF lookup, MayLogin, Serving
    <2>3. Sought' = Sought /\ Sought \in Username
      BY <2>2, RequestTyped DEF Sought
    <2>4. /\ seen' \subseteq Address \cup {NULL, Garbage} /\ raced' \in BOOLEAN
          /\ \A a \in seen' \cap Address : heap'[a] # NULL
          /\ ~raced' => NamesSought'
      BY <1>3, <2>2, <2>3, LookupSound DEF ClientTypeOK
    <2>5. Pointers'
      BY <1>3, <2>4, ClientKeepsPointers DEF Lookups
    <2> QED
      BY <2>4, <2>5 DEF Lookups
  <1> QED
    BY <1>2, <1>3

(* The admin thread: it may change what a lookup in progress may return. *)
LEMMA AdminKeepsLookups ==
  ASSUME Inv', CopyMade', ClientTypeOK, Lookups, UNCHANGED clientVars, Overlap, RecordsStay
  PROVE  Lookups' /\ seen' \subseteq Address \cup {NULL, Garbage}
  <1>1. /\ UNCHANGED <<sessions, cpc, request, found>>
        /\ Sought' = Sought /\ Session' = Session
    BY DEF clientVars, Sought, Session
  <1>2. NamesStay
    BY DEF NamesStay, RecordsStay
  <1>3. found \in Address => heap'[found] # NULL /\ heap'[found] = heap[found]
    BY DEF Lookups, Pointers, RecordsStay
  <1>4. CASE cpc = "lookup"
    <2>1. Sought \in Username
      BY <1>4, RequestTyped DEF Lookups, Pointers
    <2>2. /\ seen' \subseteq Address \cup {NULL, Garbage} /\ raced' \in BOOLEAN
          /\ \A a \in seen' \cap Address : heap'[a] # NULL
          /\ ~raced' => NamesSought'
      BY <1>1, <1>2, <1>4, <2>1, LookupSound DEF ClientTypeOK
    <2> QED
      BY <1>1, <1>3, <1>4, <2>2 DEF Lookups, Pointers
  <1>5. CASE cpc # "lookup"
    <2>1. seen' = {} /\ raced' = (cpc # "dispatch" /\ raced) /\ raced' \in BOOLEAN
      BY <1>1, <1>5 DEF Overlap, Lookups
    <2>2. ~raced' => NamesSought'
      BY <1>1, <1>3, <1>5, <2>1 DEF Lookups, NamesSought
    <2> QED
      BY <1>1, <1>3, <1>5, <2>1, <2>2 DEF Lookups, Pointers
  <1> QED
    BY <1>4, <1>5

-----------------------------------------------------------------------------
(* What is sent, and to whom *)

SendingSound == Sending /\ AddressedUnlessRaced

LEMMA ClientSendingSound ==
  ASSUME SendingSound, ClientTypeOK, Lookups, LoginsSound, ClientStep, Overlap
  PROVE  SendingSound'
  <1>1. Sending'
    BY ClientKeepsSending DEF SendingSound, Lookups
  <1>2. CASE ~raced
    BY <1>1, <1>2, ClientAddresses DEF SendingSound, Lookups, AddressedUnlessRaced
  <1>3. CASE raced /\ cpc' # "recvfrom"
    <2>1. out' = <<>>
      BY <1>1, <1>3 DEF Sending
    <2> QED
      BY <1>1, <2>1 DEF SendingSound, AddressedUnlessRaced, AddressedToUser
  <1>4. CASE raced /\ cpc' = "recvfrom"
    <2>1. raced'
      BY <1>4 DEF Overlap
    <2> QED
      BY <1>1, <2>1 DEF SendingSound, AddressedUnlessRaced
  <1> QED
    BY <1>2, <1>3, <1>4 DEF Lookups

LEMMA AdminSendingSound ==
  ASSUME SendingSound, ClientTypeOK, Lookups, UNCHANGED clientVars, Overlap, RecordsStay
  PROVE  SendingSound'
  <1>1. UNCHANGED <<sessions, cpc, request, found, out>>
    BY DEF clientVars
  <1>2. CASE cpc # "recvfrom"
    BY <1>1, <1>2 DEF SendingSound, Sending, AddressedUnlessRaced, AddressedToUser
  <1>3. CASE cpc = "recvfrom"
    <2>1. raced' = raced
      BY <1>1, <1>3 DEF Overlap, Lookups
    <2>2. found \in Address => heap'[found] = heap[found]
      BY DEF Lookups, Pointers, RecordsStay
    <2>3. Sending'
      BY <1>1 DEF SendingSound, Sending
    <2>4. AddressedUnlessRaced'
      <3>1. ASSUME NEW i \in DOMAIN out, ~raced, Addressed(out[i]), found # Garbage
            PROVE  LET to == IF out[i].text = "location" THEN out[i].about ELSE out[i].to IN
                   /\ heap'[found].username = request.args
                   /\ to[1] = heap'[found].ip
                   /\ (\E l \in Location : LoggedIn(l, found)) => LoggedIn(to, found)
        <4>1. found \in Address
          BY <3>1 DEF SendingSound, Sending, ClientTypeOK
        <4> QED
          BY <2>2, <3>1, <4>1 DEF SendingSound, AddressedUnlessRaced, AddressedToUser, Addressed
      <3> QED
        BY <1>1, <2>1, <3>1 DEF AddressedUnlessRaced, AddressedToUser, Addressed, LoggedIn
    <2> QED
      BY <2>3, <2>4 DEF SendingSound
  <1> QED
    BY <1>2, <1>3

-----------------------------------------------------------------------------
(* The two threads together *)

(* Records stay and keep their accounts: all that a login does to them. *)
AccountsStay ==
  /\ heap' \in [Address -> client_t \cup {NULL}]
  /\ \A a \in Address : heap[a] # NULL =>
       heap'[a] # NULL /\ Account(heap'[a]) = Account(heap[a])

LEMMA AccountsStayNamesStay ==
  ASSUME TreeTypeOK, AccountsStay
  PROVE  NamesStay
  <1> SUFFICES ASSUME NEW a \in Address, heap[a] # NULL
               PROVE  heap'[a] # NULL /\ heap'[a].username = heap[a].username
    BY DEF NamesStay
  <1>1. heap[a] \in client_t /\ heap'[a] \in client_t /\ heap'[a] # NULL
    BY DEF TreeTypeOK, AccountsStay
  <1>2. Account(heap'[a]) = Account(heap[a])
    BY DEF AccountsStay
  <1> QED
    BY <1>1, <1>2, AccountName

LEMMA LoginKeepsAccounts ==
  ASSUME HeapTyped, ClientTypeOK, Pointers, LoginSucceeds, found # Garbage
  PROVE  AccountsStay
  <1>1. /\ heap[found] \in client_t /\ heap'[found] # NULL
        /\ heap'[found] = [heap[found] EXCEPT !.port = request.from[2]]
        /\ \A a \in Address \ {found} : heap'[a] = heap[a]
        /\ HeapTyped'
    BY LoginWrites
  <1>2. Account(heap'[found]) = Account(heap[found])
    BY <1>1 DEF client_t, Account
  <1> QED
    BY <1>1, <1>2 DEF AccountsStay, HeapTyped

LEMMA ClientKeepsAccounts ==
  ASSUME TreeTypeOK, ClientTypeOK, Lookups, ClientStep
  PROVE  AccountsStay /\ UNCHANGED <<data, root, left, right>>
  <1>1. HeapTyped /\ Pointers
    BY DEF TreeTypeOK, HeapTyped, Lookups
  <1>2. CASE LoginSucceeds /\ found # Garbage
    BY <1>1, <1>2, LoginKeepsAccounts DEF LoginSucceeds
  <1>3. CASE UNCHANGED treeVars
    BY <1>1, <1>3 DEF AccountsStay, HeapTyped, treeVars
  <1>4. CASE LoginSucceeds /\ found = Garbage
    BY <1>3, <1>4 DEF LoginSucceeds, RecordPort, treeVars
  <1> QED
    BY <1>2, <1>3, <1>4, ClientCases DEF NewRequest, recvfrom, lookup, lookup_returns, cmd_msg,
                                         cmd_p2p, CreatesGroup, TellsGroup, Declines, Answers

(* All that a login does to the admin thread: a port in the record it adds. *)
AdminStays ==
  /\ UNCHANGED <<phase, next, file, conn, exit, apc, copy, deleting, unwritten, answer>>
  /\ \/ UNCHANGED pending
     \/ pending \in client_t /\ pending' \in client_t /\ Account(pending') = Account(pending)

LEMMA LoginBeforeCopyStays ==
  ASSUME Inv, ClientTypeOK, Pointers, LoginBeforeCopy
  PROVE  ClientStep /\ LoginSucceeds /\ AdminStays
  <1>1. ClientStep
    BY DEF LoginBeforeCopy, ClientStep, ClientProgress
  <1>2. LoginSucceeds
    BY DEF LoginBeforeCopy, cmd_login, LoginSucceeds, Refuse
  <1>3. pending \in client_t
    BY DEF LoginBeforeCopy, Inv, Control, AdminTypeOK
  <1>4. pending' \in client_t /\ Account(pending') = Account(pending)
    BY <1>2, <1>3, LoginSession DEF LoginBeforeCopy, client_t, Account
  <1> QED
    BY <1>1, <1>2, <1>3, <1>4 DEF LoginBeforeCopy, AdminStays

(* What the admin thread keeps alone it keeps when clients log in. *)
LEMMA ClientKeepsInv ==
  ASSUME Inv, CopyMade, AccountsStay, UNCHANGED <<data, root, left, right>>, AdminStays
  PROVE  Inv' /\ CopyMade'
  <1>1. TreeTypeOK /\ NamesStay
    BY AccountsStayNamesStay DEF Inv, AdminTypeOK
  <1>2. \A u \in Users : /\ data[u] \in Address /\ heap[data[u]] # NULL
                         /\ heap'[data[u]] # NULL /\ heap'[data[u]].username = u
                         /\ Account(heap'[data[u]]) = Account(heap[data[u]])
    BY <1>1 DEF TreeTypeOK, Users, NamesStay, AccountsStay
  <1>3. /\ Users' = Users /\ Stored' = Stored /\ FileNames' = FileNames /\ data' = data
        /\ UNCHANGED <<phase, next, file, conn, exit, apc, copy, deleting, unwritten, answer>>
    BY DEF Users, Stored, FileNames, AdminStays
  <1>4. Known' = Known
    BY <1>2, <1>3 DEF Known
  <1>5. TreeTypeOK'
    BY <1>1, <1>2, <1>3 DEF TreeTypeOK, AccountsStay, Users
  <1>10. /\ pending' \in client_t \cup {NULL}
         /\ pending # NULL => /\ pending' # NULL /\ pending'.username = pending.username
                              /\ Account(pending') = Account(pending)
    <2>1. CASE UNCHANGED pending
      BY <2>1 DEF Inv, AdminTypeOK
    <2>2. CASE /\ pending \in client_t /\ pending' \in client_t
               /\ Account(pending') = Account(pending)
      BY <2>2, AccountName, NullAssumption
    <2> QED
      BY <2>1, <2>2 DEF AdminStays
  <1>11. /\ copy \in Address \cup {NULL}
         /\ copy # NULL => /\ heap[copy] # NULL /\ heap'[copy] # NULL
                           /\ heap'[copy].username = heap[copy].username
                           /\ Account(heap'[copy]) = Account(heap[copy])
    BY <1>1 DEF Inv, AdminTypeOK, CopyMade, NamesStay, AccountsStay
  <1>6. AdminTypeOK'
    BY <1>3, <1>5, <1>10 DEF Inv, AdminTypeOK
  <1>7. Control' /\ CopyMade'
    BY <1>3, <1>10, <1>11 DEF Inv, Control, CopyMade
  <1>8. FileMatchesMemory'
    <2>1. unwritten \subseteq Users
      BY DEF Inv, AdminTypeOK
    <2>2. {Account(heap[data[u]]) : u \in unwritten}' = {Account(heap[data[u]]) : u \in unwritten}
      BY <1>2, <1>3, <2>1
    <2>3. /\ {Account(file[i]) : i \in 1 .. next - 1}' = {Account(file[i]) : i \in 1 .. next - 1}
          /\ apc = "insert" => Account(pending)' = Account(pending)
          /\ apc = "link" => Account(heap[copy])' = Account(heap[copy])
      <3>1. {Account(file[i]) : i \in 1 .. next - 1}' = {Account(file[i]) : i \in 1 .. next - 1}
        BY <1>3 DEF Account
      <3>2. /\ apc = "insert" => Account(pending)' = Account(pending)
            /\ apc = "link" => Account(heap[copy])' = Account(heap[copy])
        BY <1>3, <1>10, <1>11 DEF Account, Inv, Control
      <3> QED
        BY <3>1, <3>2
    <2>4. CASE phase = "running" /\ apc = "insert"
      BY <1>3, <1>4, <2>3, <2>4 DEF Inv, FileMatchesMemory
    <2>5. CASE phase = "running" /\ apc = "link"
      BY <1>3, <1>4, <2>3, <2>5 DEF Inv, FileMatchesMemory
    <2>6. CASE phase # "running"
      BY <1>3, <1>4, <2>3, <2>6 DEF Inv, AdminTypeOK, FileMatchesMemory
    <2>7. CASE phase = "running" /\ apc = "rewrite"
      BY <1>3, <1>4, <2>2, <2>7 DEF Inv, FileMatchesMemory
    <2>8. CASE phase = "running" /\ apc \notin {"insert", "link", "rewrite"}
      BY <1>3, <1>4, <2>8 DEF Inv, AdminTypeOK, FileMatchesMemory
    <2> QED
      BY <2>4, <2>5, <2>6, <2>7, <2>8
  <1>9. OneRecordPerUser'
    BY <1>3 DEF Inv, OneRecordPerUser
  <1> QED
    BY <1>6, <1>7, <1>8, <1>9 DEF Inv

-----------------------------------------------------------------------------
(* What is remembered of the logins *)

LEMMA AccountFields ==
  ASSUME NEW c \in client_t, NEW d \in client_t, Account(c) = Account(d)
  PROVE  c.username = d.username /\ c.password = d.password /\ c.ip = d.ip
  <1>1. \A e \in client_t : /\ Account(e).username = e.username
                            /\ Account(e).password = e.password /\ Account(e).ip = e.ip
    BY DEF Account, client_t
  <1> QED
    BY <1>1

LEMMA LoginIsRemembered ==
  ASSUME ClientStep
  PROVE  LoginAnswered <=> LoginSucceeds
  <1>1. LoginSucceeds => LoginAnswered
    BY LoginAnswers DEF LoginSucceeds, Send, LoginAnswered, Reply
  <1>2. CASE cpc' = "recvfrom" /\ ~LoginSucceeds
    <2>1. \/ \E to : out' = <<Forward(to, request.args), Reply("sent", NULL)>>
          \/ \E text, about : text # "login" /\ out' = <<Reply(text, about)>>
      BY <1>2, WhatIsSent DEF Telling
    <2>2. out'[1].text # "login"
      BY <2>1 DEF Forward, Reply
    <2> QED
      BY <1>2, <2>2 DEF LoginAnswered
  <1> QED
    BY <1>1, <1>2 DEF LoginAnswered

(* What a step leaves that makes no login *)
LEMMA HistoryStays ==
  ASSUME History, Leads, HeapTyped, AccountsStay, RecordsStay, LoginsStay,
         UNCHANGED <<latest, account>>
  PROVE  History'
  <1>1. HistoryTyped'
    BY DEF History, HistoryTyped
  <1>2. \A l \in Location : sessions'[l] # NULL /\ sessions'[l].logged_in =>
          sessions'[l] = sessions[l] /\ sessions[l] # NULL /\ sessions[l].logged_in
    BY DEF LoginsStay
  <1>3. AccountsSound'
    <2> SUFFICES ASSUME NEW l \in Location, sessions'[l] # NULL, sessions'[l].logged_in
                 PROVE  /\ account'[l] # NULL
                        /\ account'[l] # Garbage =>
                             LET client == sessions'[l].client IN
                             /\ client \in Address /\ heap'[client] # NULL
                             /\ heap'[client].ip = l[1]
                             /\ account'[l] = <<heap'[client].username, heap'[client].password>>
      BY DEF AccountsSound
    <2> QED
      BY <1>2 DEF History, AccountsSound, RecordsStay
  <1>4. \A l \in Location : \A a : LoggedIn(l, a)' <=> LoggedIn(l, a)
    BY DEF LoginsStay, LoggedIn
  <1>5. \A a \in Address : (\E l \in Location : LoggedIn(l, a)) => heap'[a] = heap[a]
    BY DEF Leads, LoggedIn, RecordsStay
  <1>6. LoginsReachable'
    <2> SUFFICES ASSUME NEW a \in Address
                 PROVE  IF latest'[a] = NULL
                        THEN ~ \E l \in Location : LoggedIn(l, a)'
                        ELSE /\ LoggedIn(latest[a], a)'
                             /\ latest'[a] = <<heap'[a].ip, heap'[a].port>>
      BY DEF LoginsReachable, LoggedIn
    <2>1. CASE latest[a] = NULL
      BY <1>4, <2>1 DEF History, LoginsReachable
    <2>2. CASE latest[a] # NULL
      <3>1. latest[a] \in Location /\ LoggedIn(latest[a], a)
            /\ latest[a] = <<heap[a].ip, heap[a].port>>
        BY <2>2 DEF History, LoginsReachable, LoggedIn
      <3>2. LoggedIn(latest[a], a)'
        BY <3>1 DEF LoginsStay, LoggedIn
      <3> QED
        BY <1>5, <2>2, <3>1, <3>2 DEF LoggedIn
    <2> QED
      BY <2>1, <2>2
  <1> QED
    BY <1>1, <1>3, <1>6 DEF History

(* What a login adds *)
LEMMA HistoryGrows ==
  ASSUME History, Leads, HeapTyped, ClientTypeOK, Lookups, AccountsStay, ClientStep,
         LoginSucceeds, Remember
  PROVE  History'
  <1>1. /\ request.from \in Location /\ found \in Address \cup {Garbage}
        /\ sessions[request.from] # NULL /\ ~sessions[request.from].logged_in
        /\ sessions'[request.from] = [client |-> found, logged_in |-> TRUE]
        /\ sessions'[request.from] # NULL
        /\ \A l \in Location \ {request.from} : sessions'[l] = sessions[l]
        /\ UNCHANGED request
    BY LoginSession DEF Lookups
  <1>2. /\ latest' = IF found = Garbage THEN latest ELSE [latest EXCEPT ![found] = request.from]
        /\ account' = [account EXCEPT ![request.from] = IF raced THEN Garbage ELSE request.args]
    BY LoginIsRemembered DEF Remember
  <1>3. request.args \in Username \X Password
    BY RequestTyped DEF LoginSucceeds, Lookups, Pointers
  <1>4. /\ account'[request.from] = IF raced THEN Garbage ELSE request.args
        /\ \A l \in Location \ {request.from} : account'[l] = account[l]
        /\ account' \in [Location -> (Username \X Password) \cup {NULL, Garbage}]
    BY <1>1, <1>2, <1>3 DEF History, HistoryTyped
  <1>5. /\ found # Garbage => latest'[found] = request.from
        /\ \A a \in Address \ {found} : latest'[a] = latest[a]
        /\ latest' \in [Address -> Location \cup {NULL}]
    BY <1>1, <1>2 DEF History, HistoryTyped
  <1>6. AccountsSound'
    <2> SUFFICES ASSUME NEW l \in Location, sessions'[l] # NULL, sessions'[l].logged_in
                 PROVE  /\ account'[l] # NULL
                        /\ account'[l] # Garbage =>
                             LET client == sessions'[l].client IN
                             /\ client \in Address /\ heap'[client] # NULL
                             /\ heap'[client].ip = l[1]
                             /\ account'[l] = <<heap'[client].username, heap'[client].password>>
      BY DEF AccountsSound
    <2>1. \A a \in Address : heap[a] # NULL =>
            /\ heap'[a] # NULL /\ heap'[a].username = heap[a].username
            /\ heap'[a].password = heap[a].password /\ heap'[a].ip = heap[a].ip
      <3> SUFFICES ASSUME NEW a \in Address, heap[a] # NULL
                   PROVE  /\ heap'[a] # NULL /\ heap'[a].username = heap[a].username
                          /\ heap'[a].password = heap[a].password /\ heap'[a].ip = heap[a].ip
        OBVIOUS
      <3>1. heap[a] \in client_t /\ heap'[a] \in client_t /\ heap'[a] # NULL
        BY DEF HeapTyped, AccountsStay
      <3>2. Account(heap'[a]) = Account(heap[a])
        BY DEF AccountsStay
      <3> QED
        BY <3>1, <3>2, AccountFields
    <2>2. CASE l = request.from
      <3>1. CASE raced
        BY <1>4, <2>2, <3>1, GarbageAssumption
      <3>2. CASE ~raced
        <4>1. account'[l] = request.args /\ sessions'[l].client = found
          BY <1>1, <1>4, <2>2, <3>2
        <4>2. found \in Address /\ heap[found].username = request.args[1]
          BY <3>2 DEF Lookups, NamesSought, Sought, LoginSucceeds
        <4>3. /\ heap[found] # NULL /\ heap[found].ip = l[1]
              /\ heap[found].password = request.args[2]
          BY <2>2, <4>2, LoginWrites, GarbageAssumption, NullAssumption DEF Lookups
        <4>4. request.args = <<request.args[1], request.args[2]>> /\ request.args # NULL
          BY <1>3, HistoryAssumption
        <4> QED
          BY <2>1, <4>1, <4>2, <4>3, <4>4
      <3> QED
        BY <3>1, <3>2 DEF Lookups
    <2>3. CASE l # request.from
      <3>1. /\ sessions'[l] = sessions[l] /\ account'[l] = account[l]
            /\ account[l] # NULL
            /\ account[l] # Garbage =>
                 /\ sessions[l].client \in Address /\ heap[sessions[l].client] # NULL
                 /\ heap[sessions[l].client].ip = l[1]
                 /\ account[l] = <<heap[sessions[l].client].username,
                                   heap[sessions[l].client].password>>
        BY <1>1, <1>4, <2>3 DEF History, AccountsSound
      <3> QED
        BY <2>1, <3>1
    <2> QED
      BY <2>2, <2>3
  <1>7. LoginsReachable'
    <2> SUFFICES ASSUME NEW a \in Address
                 PROVE  IF latest'[a] = NULL
                        THEN ~ \E l \in Location : LoggedIn(l, a)'
                        ELSE /\ LoggedIn(latest[a], a)'
                             /\ latest'[a] = <<heap'[a].ip, heap'[a].port>>
      BY DEF LoginsReachable, LoggedIn
    <2>1. CASE a = found
      <3>1. <<heap'[a].ip, heap'[a].port>> = request.from
        BY <2>1, LoginWrites, GarbageAssumption DEF Lookups
      <3>2. latest'[a] = request.from /\ request.from # NULL
        BY <1>1, <1>5, <2>1, GarbageAssumption, HistoryAssumption
      <3>3. LoggedIn(request.from, a)'
        BY <1>1, <2>1, LoginSession DEF LoggedIn, Lookups
      <3> QED
        BY <1>1, <3>1, <3>2, <3>3 DEF LoggedIn
    <2>2. CASE a # found
      <3>1. \A l \in Location : LoggedIn(l, a)' <=> l # request.from /\ LoggedIn(l, a)
        BY <1>1, <2>2 DEF LoggedIn
      <3>2. latest'[a] = latest[a] /\ heap'[a] = heap[a]
        <4>1. heap'[a] = heap[a]
          <5>1. CASE found = Garbage
            BY <5>1 DEF LoginSucceeds, RecordPort
          <5>2. CASE found # Garbage
            BY <2>2, <5>2, LoginWrites DEF Lookups
          <5> QED
            BY <5>1, <5>2
        <4> QED
          BY <1>5, <2>2, <4>1
      <3>3. CASE latest[a] = NULL
        BY <3>1, <3>2, <3>3 DEF History, LoginsReachable
      <3>4. CASE latest[a] # NULL
        <4>1. latest[a] \in Location /\ LoggedIn(latest[a], a)
              /\ latest[a] = <<heap[a].ip, heap[a].port>>
          BY <3>4 DEF History, LoginsReachable, LoggedIn
        <4>2. latest[a] # request.from
          BY <1>1, <4>1 DEF LoggedIn
        <4>3. sessions'[latest[a]] = sessions[latest[a]]
          BY <1>1, <4>1, <4>2
        <4> QED
          BY <3>2, <3>4, <4>1, <4>3 DEF LoggedIn
      <3> QED
        BY <3>3, <3>4
    <2> QED
      BY <2>1, <2>2
  <1> QED
    BY <1>4, <1>5, <1>6, <1>7 DEF History, HistoryTyped

(* The client thread makes logins; no other step of it changes a session's. *)
LEMMA ClientKeepsHistory ==
  ASSUME History, Leads, HeapTyped, ClientTypeOK, Lookups, AccountsStay, ClientStep, Remember,
         seen' \subseteq Address \cup {NULL, Garbage}
  PROVE  History'
  <1>1. CASE LoginSucceeds
    BY <1>1, HistoryGrows
  <1>2. ~LoginSucceeds => UNCHANGED <<latest, account>>
    BY LoginIsRemembered DEF Remember
  <1>3. CASE ~LoginSucceeds /\ NewRequest
    <2>1. PICK from \in Location, operation \in Operation : recvfrom(from, operation)
      BY <1>3 DEF NewRequest
    <2>2. [op |-> operation.op, args |-> operation.args] = operation
      BY OperationAssumption
    <2>3. /\ \A l \in Location \ {from} : sessions'[l] = sessions[l]
          /\ sessions[from] # NULL => sessions' = sessions
          /\ sessions[from] = NULL => ~sessions'[from].logged_in
      BY <2>1, <2>2, ReceiveKeepsTypes
    <2>4. LoginsStay
      BY <2>3 DEF LoginsStay
    <2>5. RecordsStay
      BY <2>1 DEF RecordsStay, recvfrom, treeVars
    <2> QED
      BY <1>2, <1>3, <2>4, <2>5, HistoryStays
  <1>4. CASE ~LoginSucceeds /\ ~NewRequest
    <2>1. UNCHANGED <<heap, sessions>>
      BY <1>4, ClientCases DEF lookup, lookup_returns, cmd_msg, cmd_p2p, CreatesGroup, TellsGroup,
                               Declines, Answers, treeVars
    <2> QED
      BY <1>2, <1>4, <2>1, HistoryStays DEF RecordsStay, LoginsStay
  <1> QED
    BY <1>1, <1>3, <1>4

LEMMA ClientKeepsSInv ==
  ASSUME SInv, ClientStep, AdminStays, Remember, Overlap
  PROVE  SInv'
  <1>1. TreeTypeOK /\ HeapTyped /\ Pointers /\ LoginsSound /\ SendingSound
    BY HistoryReaches DEF SInv, Inv, AdminTypeOK, TreeTypeOK, HeapTyped, Lookups, LoginsSound,
                          SendingSound, History
  <1>2. AccountsStay /\ UNCHANGED <<data, root, left, right>>
    BY <1>1, ClientKeepsAccounts DEF SInv
  <1>3. Inv' /\ CopyMade' /\ NamesStay
    BY <1>1, <1>2, ClientKeepsInv, AccountsStayNamesStay DEF SInv
  <1>4. Lookups' /\ seen' \subseteq Address \cup {NULL, Garbage}
    BY <1>3, ClientKeepsLookups DEF SInv
  <1>5. ClientTypeOK'
    BY <1>4, ClientKeepsTypes DEF SInv
  <1>6. Leads' /\ History'
    BY <1>1, <1>2, <1>4, ClientLoginsSound, ClientKeepsHistory DEF SInv, LoginsSound
  <1>7. SendingSound'
    BY <1>1, ClientSendingSound DEF SInv
  <1>8. GroupsSound' /\ AnswerShape'
    BY <1>1, ClientGroupsSound, ClientAnswersShaped DEF SInv
  <1> QED
    BY <1>3, <1>4, <1>5, <1>6, <1>7, <1>8 DEF SInv, SendingSound

LEMMA AdminKeepsSInv ==
  ASSUME SInv, AdminStep, UNCHANGED <<clientVars, latest, account>>, Overlap
  PROVE  SInv'
  <1>1. Inv' /\ RecordsStay /\ CopyMade'
    BY InvInductive, AdminKeepsRecords, AdminKeepsCopy DEF SInv, AdminNext
  <1>2. TreeTypeOK /\ HeapTyped /\ LoginsSound /\ SendingSound
    BY HistoryReaches DEF SInv, Inv, AdminTypeOK, TreeTypeOK, HeapTyped, LoginsSound, SendingSound,
                          History
  <1>3. Lookups' /\ seen' \subseteq Address \cup {NULL, Garbage}
    BY <1>1, AdminKeepsLookups DEF SInv
  <1>4. UNCHANGED <<sessions, group_list, current_group, cpc, request, found, out>>
    BY DEF clientVars
  <1>5. ClientTypeOK'
    BY <1>3, <1>4 DEF SInv, ClientTypeOK
  <1>6. Leads' /\ History'
    <2>1. LoginsStay /\ AccountsStay
      BY <1>1, <1>4 DEF LoginsStay, AccountsStay, RecordsStay, Inv, AdminTypeOK, TreeTypeOK
    <2> QED
      BY <1>1, <1>2, <2>1, StayingLoginsSound, HistoryStays DEF SInv, LoginsSound
  <1>7. SendingSound'
    BY <1>1, <1>2, AdminSendingSound DEF SInv
  <1>8. GroupsSound' /\ AnswerShape'
    BY <1>4 DEF SInv, GroupsSound, AnswerShape, Session
  <1> QED
    BY <1>1, <1>3, <1>5, <1>6, <1>7, <1>8 DEF SInv, SendingSound

(* A process that has served nothing *)
Fresh ==
  /\ sessions = [l \in Location |-> NULL]
  /\ group_list = [g \in Group |-> NULL]
  /\ current_group = 0
  /\ cpc = "recvfrom" /\ request = NULL /\ found = NULL /\ out = <<>>
  /\ seen = {} /\ raced \in BOOLEAN /\ copy = NULL
  /\ latest = [a \in Address |-> NULL] /\ account = [l \in Location |-> NULL]

LEMMA FreshSound == Inv /\ Fresh => SInv
  <1> SUFFICES ASSUME Inv, Fresh PROVE SInv
    OBVIOUS
  <1>1. DOMAIN out = {}
    BY DEF Fresh
  <1>2. ClientTypeOK
    BY MaxGroupsAssumption DEF Fresh, ClientTypeOK
  <1>3. Lookups /\ Sending /\ Leads /\ CopyMade
    BY <1>1, AddressAssumption DEF Fresh, Lookups, Pointers, NamesSought, Sending, Leads, CopyMade
  <1>6. History
    BY DEF Fresh, History, HistoryTyped, AccountsSound, LoginsReachable, LoggedIn
  <1>4. AddressedUnlessRaced /\ AnswerShape
    BY <1>1 DEF Fresh, AddressedUnlessRaced, AddressedToUser, AnswerShape
  <1>5. GroupsSound
    BY DEF Fresh, GroupsSound
  <1> QED
    BY <1>2, <1>3, <1>4, <1>5, <1>6 DEF SInv

LEMMA SInvInductive ==
  /\ ServerInit => SInv
  /\ SInv /\ [ServerNext]_serverVars => SInv'
  <1>1. ServerInit => SInv
    <2>1. ASSUME ServerInit PROVE Inv /\ Fresh
      BY <2>1, InvInductive DEF ServerInit, ClientInit, AdminInit, Fresh
    <2> QED
      BY <2>1, FreshSound
  <1>2. ASSUME SInv, ServerCrash, Overlap PROVE SInv'
    <2>1. Inv'
      BY <1>2, InvInductive DEF SInv, ServerCrash, AdminNext
    <2>2. raced' \in BOOLEAN /\ seen' = {} /\ cpc' = "recvfrom"
      BY <1>2 DEF ServerCrash, Overlap, SInv, Lookups
    <2>3. Fresh'
      BY <1>2, <2>2 DEF ServerCrash, Crash, Fresh
    <2>4. (Inv /\ Fresh => SInv)'
      BY FreshSound, PTL
    <2> QED
      BY <2>1, <2>3, <2>4
  <1>3. ASSUME SInv, UNCHANGED serverVars PROVE SInv'
    <2>1. Inv'
      BY <1>3, InvInductive DEF SInv, serverVars, vars, adminVars
    <2>2. UNCHANGED <<heap, sessions, group_list, current_group, cpc, request, seen, found, out, raced,
                      copy, latest, account>>
      BY <1>3 DEF serverVars, treeVars, adminVars, clientVars
    <2>3. ClientTypeOK' /\ GroupsSound' /\ Sending' /\ AnswerShape'
      <3>1. ClientTypeOK' /\ GroupsSound'
        BY <1>3, <2>2 DEF SInv, ClientTypeOK, GroupsSound
      <3>2. Sending' /\ AnswerShape'
        BY <1>3, <2>2 DEF SInv, Sending, AnswerShape, Session
      <3> QED
        BY <3>1, <3>2
    <2>4. Sought' = Sought /\ Session' = Session
      BY <2>2 DEF Sought, Session
    <2>5. Lookups'
      BY <1>3, <2>2, <2>4 DEF SInv, Lookups, Pointers, NamesSought
    <2>6. Leads' /\ History' /\ CopyMade'
      BY <1>3, <2>2 DEF SInv, Leads, History, HistoryTyped, AccountsSound, LoginsReachable, LoggedIn,
                        CopyMade
    <2>7. AddressedUnlessRaced'
      BY <1>3, <2>2 DEF SInv, AddressedUnlessRaced, AddressedToUser, LoggedIn
    <2> QED
      BY <2>1, <2>3, <2>5, <2>6, <2>7 DEF SInv
  <1>4. ASSUME SInv, ClientStep, UNCHANGED adminVars, Remember, Overlap PROVE SInv'
    BY <1>4, ClientKeepsSInv DEF adminVars, AdminStays
  <1>5. ASSUME SInv, LoginBeforeCopy, Remember, Overlap PROVE SInv'
    BY <1>5, ClientKeepsSInv, LoginBeforeCopyStays DEF SInv, Lookups
  <1> QED
    BY <1>1, <1>2, <1>3, <1>4, <1>5, AdminKeepsSInv DEF ServerNext

-----------------------------------------------------------------------------
(* The theorems *)

(***************************************************************************)
(* With both threads running, logins in between and over any number of     *)
(* lives of the process, all state stays in its type.  Of the pointers in  *)
(* sessions and lookups this says only that they are malloc's results,     *)
(* Garbage or NULL; SessionsAreSound says which of them lead to records.   *)
(***************************************************************************)
THEOREM ServerTypeCorrect == ServerSpec => []ServerTypeOK
  <1>1. SInv => ServerTypeOK
    BY DEF SInv, Inv, ServerTypeOK
  <1> QED
    BY <1>1, SInvInductive, PTL DEF ServerSpec

(***************************************************************************)
(* The variables of the client thread alone: sessions, groups, the request *)
(* being served and what was sent for it stay in their types whatever the  *)
(* admin thread does between its steps, and over restarts.                 *)
(***************************************************************************)
THEOREM ClientTypeCorrect == ServerSpec => []ClientTypeOK
  <1>1. SInv => ClientTypeOK
    BY DEF SInv
  <1> QED
    BY <1>1, SInvInductive, PTL DEF ServerSpec

(***************************************************************************)
(* Logins do not come between the file and user_list, wherever in an ADD   *)
(* or a DEL they fall.                                                     *)
(***************************************************************************)
THEOREM ServerFileAndMemoryAgree == ServerSpec => []FileMatchesMemory
  <1>1. SInv => FileMatchesMemory
    BY DEF SInv, Inv
  <1> QED
    BY <1>1, SInvInductive, PTL DEF ServerSpec

(***************************************************************************)
(* Unless a removal overlapped the lookup it rests on, a session points to *)
(* the record of the account that logged in, and a command has found the   *)
(* record of the name it sought, whatever the admin deletes or adds since. *)
(***************************************************************************)
THEOREM SessionsAreSound == ServerSpec => []SessionsSound
  <1>1. SInv => SessionsSound
    BY HistorySound DEF SInv, History
  <1> QED
    BY <1>1, SInvInductive, PTL DEF ServerSpec

(***************************************************************************)
(* The location in a record is where its latest login came from, and the   *)
(* session there is still logged in with that record: several logins of a  *)
(* user, or of several users from one host, do not cut each other off.     *)
(***************************************************************************)
THEOREM LatestLoginReachable == ServerSpec => []LoginsReachable
  <1>1. SInv => LoginsReachable
    BY DEF SInv, History
  <1> QED
    BY <1>1, SInvInductive, PTL DEF ServerSpec

(***************************************************************************)
(* A message or location never concerns anybody but the user asked for,    *)
(* unless a removal overlapped the lookup.                                 *)
(***************************************************************************)
THEOREM AddressedWell == ServerSpec => []AddressedUnlessRaced
  <1>1. SInv => AddressedUnlessRaced
    BY DEF SInv
  <1> QED
    BY <1>1, SInvInductive, PTL DEF ServerSpec

(***************************************************************************)
(* Whatever the admin does meanwhile, a request is answered to its sender, *)
(* with the one datagram, or the three in order, that the client reads.    *)
(***************************************************************************)
THEOREM RequestsAreAnsweredOnce == ServerSpec => []AnswerShape
  <1>1. SInv => AnswerShape
    BY DEF SInv
  <1> QED
    BY <1>1, SInvInductive, PTL DEF ServerSpec

(***************************************************************************)
(* Two groups never share an address, and the addresses are used in order. *)
(***************************************************************************)
THEOREM GroupsAreSound == ServerSpec => []GroupsSound
  <1>1. SInv => GroupsSound
    BY DEF SInv
  <1> QED
    BY <1>1, SInvInductive, PTL DEF ServerSpec

(***************************************************************************)
(* Until the process ends, a session that is logged in stays so, as the    *)
(* same account.                                                           *)
(***************************************************************************)
THEOREM IdentityIsKept == ServerSpec => IdentityKept
  <1> DEFINE Kept ==
        \A l \in Location :
          phase' = "running" /\ sessions[l] # NULL /\ sessions[l].logged_in =>
            /\ sessions'[l] = sessions[l]
            /\ sessions[l].client \in Address =>
                 Account(heap'[sessions[l].client]) = Account(heap[sessions[l].client])
  <1>1. SInv /\ [ServerNext]_serverVars => [Kept]_serverVars
    <2> SUFFICES ASSUME SInv, ServerNext, NEW l \in Location, phase' = "running",
                        sessions[l] # NULL, sessions[l].logged_in
                 PROVE  /\ sessions'[l] = sessions[l]
                        /\ sessions[l].client \in Address =>
                             Account(heap'[sessions[l].client]) = Account(heap[sessions[l].client])
      OBVIOUS
    <2>1. TreeTypeOK /\ (sessions[l].client \in Address => heap[sessions[l].client] # NULL)
      BY DEF SInv, Inv, AdminTypeOK, Leads
    <2>2. CASE AdminStep /\ UNCHANGED clientVars
      BY <2>1, <2>2, AdminKeepsRecords DEF SInv, RecordsStay, clientVars
    <2>3. CASE ClientStep
      <3>1. sessions[l].client \in Address =>
              Account(heap'[sessions[l].client]) = Account(heap[sessions[l].client])
        BY <2>1, <2>3, ClientKeepsAccounts DEF SInv, AccountsStay
      <3>2. sessions'[l] = sessions[l]
        <4>1. CASE LoginSucceeds
          BY <4>1, LoginSession DEF SInv, Lookups
        <4>2. CASE NewRequest
          <5>1. PICK from \in Location, operation \in Operation : recvfrom(from, operation)
            BY <4>2 DEF NewRequest
          <5> QED
            BY <5>1 DEF recvfrom, init_client_session, SInv, ClientTypeOK
        <4>3. CASE lookup \/ lookup_returns \/ cmd_msg \/ cmd_p2p \/ CreatesGroup \/ TellsGroup
                   \/ Declines
          BY <4>3 DEF lookup, lookup_returns, cmd_msg, cmd_p2p, CreatesGroup, TellsGroup, Declines,
                      Answers
        <4> QED
          BY <2>3, <4>1, <4>2, <4>3, ClientCases
      <3> QED
        BY <3>1, <3>2
    <2>4. CASE ServerCrash
      BY <2>4 DEF ServerCrash, Crash
    <2>5. CASE LoginBeforeCopy
      BY <2>3, <2>5, LoginBeforeCopyStays DEF SInv, Lookups
    <2> QED
      BY <2>2, <2>3, <2>4, <2>5 DEF ServerNext
  <1> QED
    BY <1>1, SInvInductive, PTL DEF ServerSpec, IdentityKept

(***************************************************************************)
(* A record that new_avl_node has made is changed by the login that found  *)
(* it and by nothing else, and in nothing but its port: the ip that a      *)
(* login writes as well is the one it has just found there.                *)
(***************************************************************************)
THEOREM OneWriterOnly == ServerSpec => OneWriter
  <1> DEFINE Written ==
        \A a \in Address :
          heap[a] # NULL /\ heap'[a] # heap[a] /\ phase' = "running" =>
            /\ cpc = "found" /\ found = a
            /\ Account(heap'[a]) = Account(heap[a])
  <1>1. SInv /\ [ServerNext]_serverVars => [Written]_serverVars
    <2> SUFFICES ASSUME SInv, ServerNext, NEW a \in Address,
                        heap[a] # NULL, heap'[a] # heap[a], phase' = "running"
                 PROVE  cpc = "found" /\ found = a /\ Account(heap'[a]) = Account(heap[a])
      OBVIOUS
    <2>1. TreeTypeOK
      BY DEF SInv, Inv, AdminTypeOK
    <2>2. ~AdminStep /\ ~ServerCrash
      BY AdminKeepsRecords DEF SInv, RecordsStay, ServerCrash, Crash
    <2>3. ClientStep
      BY <2>2, LoginBeforeCopyStays DEF ServerNext, SInv, Lookups
    <2>4. LoginSucceeds
      BY <2>3, ClientCases DEF NewRequest, recvfrom, lookup, lookup_returns, cmd_msg, cmd_p2p,
                               CreatesGroup, TellsGroup, Declines, Answers, treeVars
    <2>5. HeapTyped /\ Pointers /\ ClientTypeOK
      BY <2>1 DEF SInv, Lookups, TreeTypeOK, HeapTyped
    <2>6. found # Garbage
      BY <2>4 DEF LoginSucceeds, RecordPort
    <2> QED
      BY <2>4, <2>5, <2>6, LoginWrites, LoginKeepsAccounts DEF LoginSucceeds, AccountsStay
  <1> QED
    BY <1>1, SInvInductive, PTL DEF ServerSpec, OneWriter

=============================================================================
