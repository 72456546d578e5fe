------------------------------- MODULE WebPush -------------------------------
(***************************************************************************)
(* The database of the WebPush adapter (src/adapters/webpush/mod.rs and    *)
(* db.rs): the resources that each user watches, and the subscriptions to  *)
(* which the messages on a resource are posted.                            *)
(*                                                                         *)
(* Every call opens a connection of its own and commits each statement by  *)
(* itself; callers are threads of the HTTP server and of rules.  A call    *)
(* whose statement fails panics, and is over.  The box may restart between *)
(* any two statements.                                                     *)
(*                                                                         *)
(* `escape` doubles the quotes of a name, although it is bound to the      *)
(* statement as a parameter: a name is a word and the number of its quotes.*)
(* Encryption and the posts themselves change no state, nor does a call    *)
(* that is refused for its value or its user, or cannot open the file.     *)
(***************************************************************************)
EXTENDS Naturals, Sequences, SequencesExt, HashMap

CONSTANTS
  WebUser, Caller,
  PushUri,         \* without quotes
  Resource,        \* the names of resources, [word, quotes]
  ResourceLists    \* user -> the lists of resources it sets

ASSUME WebPushAssumption ==
  /\ \A r \in Resource : r = [word |-> r.word, quotes |-> r.quotes] /\ r.quotes \in Nat
  /\ \A u \in WebUser : \A list \in ResourceLists[u] : list \in Seq(Resource)

VARIABLES
  resources,      \* the rows of the table: user -> the names it watches
  subscriptions,  \* the rows of the table: push_uri -> user
  calling,        \* the call each caller is in
  (* History, read by no action:                                           *)
  wish            \* user -> the last list it set, what was there before, and how it went

webPushVars == <<resources, subscriptions, calling, wish>>

Escape(name) == [name EXCEPT !.quotes = 2 * @]
EscapeAll(list) == [i \in DOMAIN list |-> Escape(list[i])]

Free == [op |-> "none"]
InCall(op, u, todo) == [op |-> op, user |-> u, todo |-> todo, pc |-> "start"]

WebPushInit ==
  /\ resources = [u \in WebUser |-> <<>>]
  /\ subscriptions = EmptyMap
  /\ calling = [c \in Caller |-> Free]
  /\ wish = [u \in WebUser |-> [list |-> <<>>, before |-> <<>>, went |-> "well"]]

End(c) == calling' = [calling EXCEPT ![c] = Free]

(* A statement fails: the call panics, whatever is left to do.              *)
StatementFails(c) ==
  /\ calling[c] # Free
  /\ End(c)
  /\ UNCHANGED <<resources, subscriptions, wish>>

-----------------------------------------------------------------------------
(* `set_resources`.                                                        *)

SetsResourcesOf(c, u) == calling[c].op = "resources" /\ calling[c].user = u
SetBySome(u) == \E c \in Caller : SetsResourcesOf(c, u)

CallSetResources(c, u, list) ==
  /\ calling[c] = Free
  /\ calling' = [calling EXCEPT ![c] = InCall("resources", u, list)]
  /\ wish' = [wish EXCEPT ![u] =
                IF SetBySome(u) THEN [list |-> <<>>, before |-> <<>>, went |-> "overlapped"]
                ELSE [list |-> list, before |-> resources[u], went |-> "begun"]]
  /\ UNCHANGED <<resources, subscriptions>>

(* Mutant: the new resources are added to the old ones.                     *)
DeleteNoResources(c) ==
  /\ calling[c].op = "resources" /\ calling[c].pc = "start"
  /\ calling' = [calling EXCEPT ![c].pc = "insert"]
  /\ UNCHANGED <<resources, subscriptions, wish>>

DeleteResources(c) ==
  /\ calling[c].op = "resources" /\ calling[c].pc = "start"
  /\ resources' = [resources EXCEPT ![calling[c].user] = <<>>]
  /\ calling' = [calling EXCEPT ![c].pc = "insert"]
  /\ wish' = [wish EXCEPT ![calling[c].user].before = <<>>]
  /\ UNCHANGED subscriptions

InsertResource(c) ==
  /\ calling[c].op = "resources" /\ calling[c].pc = "insert" /\ calling[c].todo # <<>>
  /\ resources' = [resources EXCEPT ![calling[c].user] = Append(@, Escape(Head(calling[c].todo)))]
  /\ calling' = [calling EXCEPT ![c].todo = Tail(@)]
  /\ UNCHANGED <<subscriptions, wish>>

ResourcesSet(c) ==
  /\ calling[c].op = "resources" /\ calling[c].pc = "insert" /\ calling[c].todo = <<>>
  /\ End(c)
  /\ wish' = [wish EXCEPT ![calling[c].user] =
                IF @.went = "begun" THEN [@ EXCEPT !.went = "well"] ELSE @]
  /\ UNCHANGED <<resources, subscriptions>>

-----------------------------------------------------------------------------
(* `set_subscribe` and `set_unsubscribe`: one statement for each item.     *)

CallSubscribe(c, u, uris) ==
  /\ calling[c] = Free
  /\ calling' = [calling EXCEPT ![c] = InCall("subscribe", u, uris)]
  /\ UNCHANGED <<resources, subscriptions, wish>>

(* The user does not count.                                                 *)
CallUnsubscribe(c, uris) ==
  /\ calling[c] = Free
  /\ calling' = [calling EXCEPT ![c] = [op |-> "unsubscribe", todo |-> uris]]
  /\ UNCHANGED <<resources, subscriptions, wish>>

(* push_uri is UNIQUE.                                                      *)
Subscribe(c) ==
  /\ calling[c].op = "subscribe" /\ calling[c].todo # <<>>
  /\ Head(calling[c].todo) \notin DOMAIN subscriptions
  /\ subscriptions' = Put(subscriptions, Head(calling[c].todo), calling[c].user)
  /\ calling' = [calling EXCEPT ![c].todo = Tail(@)]
  /\ UNCHANGED <<resources, wish>>

Unsubscribe(c) ==
  /\ calling[c].op = "unsubscribe" /\ calling[c].todo # <<>>
  /\ subscriptions' = Drop(subscriptions, {Head(calling[c].todo)})
  /\ calling' = [calling EXCEPT ![c].todo = Tail(@)]
  /\ UNCHANGED <<resources, wish>>

SubscriptionsSet(c) ==
  /\ calling[c].op \in {"subscribe", "unsubscribe"} /\ calling[c].todo = <<>>
  /\ End(c)
  /\ UNCHANGED <<resources, subscriptions, wish>>

-----------------------------------------------------------------------------
(* The SELECTs.                                                            *)

GetResources(u) == resources[u]
GetSubscriptions(u) == {p \in DOMAIN subscriptions : subscriptions[p] = u}

(* To whom `set_notify` posts.                                              *)
GetResourceSubscriptions(r) ==
  {p \in DOMAIN subscriptions : Escape(r) \in ToSet(resources[subscriptions[p]])}

-----------------------------------------------------------------------------
RestartWebPush ==
  /\ calling' = [c \in Caller |-> Free]
  /\ UNCHANGED <<resources, subscriptions, wish>>

WebPushNext ==
  \/ \E c \in Caller :
       \/ StatementFails(c)
       \/ \E u \in WebUser : \E list \in ResourceLists[u] : CallSetResources(c, u, list)
       \/ DeleteResources(c) \/ InsertResource(c) \/ ResourcesSet(c)
       \/ \E uris \in UNION {[1 .. n -> PushUri] : n \in 1 .. 2} :
            (\E u \in WebUser : CallSubscribe(c, u, uris)) \/ CallUnsubscribe(c, uris)
       \/ Subscribe(c) \/ Unsubscribe(c) \/ SubscriptionsSet(c)
  \/ RestartWebPush

WebPushSpec == WebPushInit /\ [][WebPushNext]_webPushVars

-----------------------------------------------------------------------------
(* Properties.                                                             *)

WebPushTypeOK ==
  /\ \A u \in WebUser :
       resources[u] \in Seq({Escape(r) : r \in Resource})
  /\ IsMap(subscriptions, PushUri, WebUser)
  /\ \A c \in Caller : calling[c].op \in {"none", "resources", "subscribe", "unsubscribe"}
  /\ \A u \in WebUser : wish[u].went \in {"well", "begun", "overlapped"}

(* Whatever calls of other users, failures and restarts come between, the   *)
(* list that a user set without overlapping itself is what is read back, in *)
(* order and with its quotes doubled; a message is posted to exactly the    *)
(* subscriptions of the users whose list has its resource.  A call that did *)
(* not end well leaves the old list or the beginning of the new one.        *)
NotifiedAsAsked ==
  \A u \in WebUser :
    CASE wish[u].went = "well" ->
           /\ GetResources(u) = EscapeAll(wish[u].list)
           /\ \A r \in Resource :
                GetSubscriptions(u) \cap GetResourceSubscriptions(r)
                  = IF r \in ToSet(wish[u].list) THEN GetSubscriptions(u) ELSE {}
      [] wish[u].went = "begun" ->
           \/ GetResources(u) = wish[u].before
           \/ IsPrefix(GetResources(u), EscapeAll(wish[u].list))
      [] wish[u].went = "overlapped" -> TRUE
=============================================================================
