--------------------------- MODULE CommunityCounters ---------------------------
(***************************************************************************)
(* Counts kept beside the rows they count: likes of a shared strategy       *)
(* (social_feed/app.py), subscribers and ratings of a marketplace listing   *)
(* (strategy_marketplace_api/app.py, marketplace_api/app.py).  A handler    *)
(* runs its statements in autocommit, so that calls interleave between      *)
(* them and a call may end between a row and its count.  A statement is     *)
(* atomic.                                                                  *)
(***************************************************************************)
EXTENDS Integers, FiniteSets, FiniteSetsExt

CONSTANTS
    Visit,      \* handler calls that may overlap
    Visitor,    \* users
    Score,      \* scores of a rating
    MaxVisits,  \* bound on calls
    MaxAborts   \* bound on calls that end early

VARIABLES
    likes, likeCount,       \* feed_likes: user and number of the row; like_count
    nextLike,               \* the number of the next like
    subscribers, subscriberCount,
    ratings, average,       \* marketplace_ratings; sum and count of avg_rating and rating_count
    visit,                  \* each call: what it does, for whom, and where it stands
    visits, aborts,
    bent                    \* history: counts that may differ from their rows, and stay so

vars == <<likes, likeCount, nextLike, subscribers, subscriberCount, ratings, average, visit,
          visits, aborts, bent>>

NoVisit == [kind |-> "none"]

Init ==
    /\ likes = {} /\ likeCount = 0 /\ nextLike = 1
    /\ subscribers = {} /\ subscriberCount = 0
    /\ ratings = {} /\ average = [sum |-> 0, count |-> 0]
    /\ visit = [v \in Visit |-> NoVisit]
    /\ visits = 0 /\ aborts = 0
    /\ bent = {}

Begin(v) ==
    /\ visit[v] = NoVisit /\ visits < MaxVisits
    /\ visits' = visits + 1
    /\ \E kind \in {"like", "subscribe", "unsubscribe", "rate"}, u \in Visitor :
           visit' = [visit EXCEPT ![v] = [kind |-> kind, user |-> u, at |-> "row"]]
    /\ UNCHANGED <<likes, likeCount, nextLike, subscribers, subscriberCount, ratings, average,
                   aborts, bent>>

At(v, kind, step) == visit[v].kind = kind /\ visit[v].at = step

To(v, step) == visit' = [visit EXCEPT ![v].at = step]

End(v) == visit' = [visit EXCEPT ![v] = NoVisit]

\* GREATEST(count - 1, 0).
Decreased(n) == Max({n - 1, 0})

(***************************************************************************)
(* toggle_like                                                             *)
(***************************************************************************)
LookForLike(v) ==
    /\ At(v, "like", "row")
    /\ LET own == {k \in likes : k.user = visit[v].user} IN
       visit' = [visit EXCEPT ![v] = IF own = {} THEN [visit[v] EXCEPT !.at = "insert"]
                                     ELSE [kind |-> "like", user |-> visit[v].user, at |-> "delete",
                                           row |-> CHOOSE k \in own : TRUE]]
    /\ UNCHANGED <<likes, likeCount, nextLike, subscribers, subscriberCount, ratings, average,
                   visits, aborts, bent>>

\* The second like of a user is refused by the key, and the call fails.
InsertLike(v) ==
    /\ At(v, "like", "insert")
    /\ \/ /\ \A k \in likes : k.user # visit[v].user
          /\ likes' = likes \cup {[user |-> visit[v].user, number |-> nextLike]}
          /\ nextLike' = nextLike + 1
          /\ To(v, "more")
       \/ /\ \E k \in likes : k.user = visit[v].user
          /\ End(v)
          /\ UNCHANGED <<likes, nextLike>>
    /\ UNCHANGED <<likeCount, subscribers, subscriberCount, ratings, average, visits, aborts, bent>>

\* Whether a row was deleted is not looked at.
DeleteLike(v) ==
    /\ At(v, "like", "delete")
    /\ likes' = likes \ {visit[v].row}
    /\ bent' = IF visit[v].row \in likes THEN bent ELSE bent \cup {"likes"}
    /\ To(v, "less")
    /\ UNCHANGED <<likeCount, nextLike, subscribers, subscriberCount, ratings, average, visits,
                   aborts>>

CountLike(v) ==
    /\ \/ At(v, "like", "more") /\ likeCount' = likeCount + 1 /\ UNCHANGED bent
       \/ /\ At(v, "like", "less")
          /\ likeCount' = Decreased(likeCount)
          /\ bent' = IF likeCount = 0 THEN bent \cup {"likes"} ELSE bent
    /\ End(v)
    /\ UNCHANGED <<likes, nextLike, subscribers, subscriberCount, ratings, average, visits, aborts>>

(***************************************************************************)
(* subscribe, unsubscribe                                                  *)
(***************************************************************************)
Subscribe(v) ==
    /\ At(v, "subscribe", "row")
    /\ IF visit[v].user \in subscribers
       THEN End(v) /\ UNCHANGED subscribers
       ELSE To(v, "more") /\ subscribers' = subscribers \cup {visit[v].user}
    /\ UNCHANGED <<likes, likeCount, nextLike, subscriberCount, ratings, average, visits, aborts,
                   bent>>

UnsubscribeBlindly(v) ==
    /\ At(v, "unsubscribe", "row")
    /\ To(v, "less")
    /\ subscribers' = subscribers \ {visit[v].user}
    /\ UNCHANGED <<likes, likeCount, nextLike, subscriberCount, ratings, average, visits, aborts,
                   bent>>

Unsubscribe(v) ==
    /\ At(v, "unsubscribe", "row")
    /\ IF visit[v].user \in subscribers
       THEN To(v, "less") /\ subscribers' = subscribers \ {visit[v].user}
       ELSE End(v) /\ UNCHANGED subscribers
    /\ UNCHANGED <<likes, likeCount, nextLike, subscriberCount, ratings, average, visits, aborts,
                   bent>>

\* An unsubscription that overtakes its subscription's count finds zero, is lost,
\* and the subscription is counted after it.
CountSubscriber(v) ==
    /\ \/ At(v, "subscribe", "more") /\ subscriberCount' = subscriberCount + 1 /\ UNCHANGED bent
       \/ /\ At(v, "unsubscribe", "less")
          /\ subscriberCount' = Decreased(subscriberCount)
          /\ bent' = IF subscriberCount = 0 THEN bent \cup {"subscribers"} ELSE bent
    /\ End(v)
    /\ UNCHANGED <<likes, likeCount, nextLike, subscribers, ratings, average, visits, aborts>>

(***************************************************************************)
(* rate_strategy                                                           *)
(***************************************************************************)
Rate(v) ==
    /\ At(v, "rate", "row")
    /\ \E score \in Score :
           ratings' = {r \in ratings : r.user # visit[v].user}
                          \cup {[user |-> visit[v].user, score |-> score]}
    /\ To(v, "average")
    /\ bent' = bent \ {"average"}
    /\ UNCHANGED <<likes, likeCount, nextLike, subscribers, subscriberCount, average, visits, aborts>>

Averaged == [sum |-> MapThenSumSet(LAMBDA r : r.score, ratings), count |-> Cardinality(ratings)]

AverageRatings(v) ==
    /\ At(v, "rate", "average")
    /\ average' = Averaged
    /\ End(v)
    /\ UNCHANGED <<likes, likeCount, nextLike, subscribers, subscriberCount, ratings, visits, aborts,
                   bent>>

\* The connection is lost or the process dies.
Abort(v) ==
    /\ visit[v] # NoVisit /\ aborts < MaxAborts
    /\ aborts' = aborts + 1
    /\ End(v)
    /\ bent' = bent \cup
           (CASE visit[v].at \in {"more", "less"} ->
                     IF visit[v].kind = "like" THEN {"likes"} ELSE {"subscribers"}
              [] visit[v].at = "average" -> {"average"}
              [] OTHER -> {})
    /\ UNCHANGED <<likes, likeCount, nextLike, subscribers, subscriberCount, ratings, average,
                   visits>>

Next ==
    \E v \in Visit :
        \/ Begin(v) \/ LookForLike(v) \/ InsertLike(v) \/ DeleteLike(v) \/ CountLike(v)
        \/ Subscribe(v) \/ Unsubscribe(v) \/ CountSubscriber(v)
        \/ Rate(v) \/ AverageRatings(v) \/ Abort(v)

Spec == Init /\ [][Next]_vars

----------------------------------------------------------------------------
(* Properties *)

AtRest == \A v \in Visit : visit[v] = NoVisit

\* When no call is under way the counts are those of the rows, unless a call
\* ended between row and count, a count of zero swallowed a decrement, or two
\* calls took one like away.  The average is worked out anew with each rating,
\* so that an aborted one bends it only until the next.
CountsMatchRows ==
    AtRest =>
        /\ "likes" \in bent \/ likeCount = Cardinality(likes)
        /\ "subscribers" \in bent \/ subscriberCount = Cardinality(subscribers)
        /\ "average" \in bent \/ average = Averaged
=============================================================================
