------------------------------- MODULE Market --------------------------------
(***************************************************************************)
(* The feed of the market (src/routes/market.js): likes and comments of a  *)
(* post, and who follows whom, each with counters kept in the row of the   *)
(* post or of the user.  The calls are transactions; a row that one has    *)
(* changed or locked makes the others wait until it ends.  Accounts may be *)
(* deleted (src/routes/admin.js, wizard.js): the database takes the rows   *)
(* of the user with it (ON DELETE CASCADE), and the counters stay.         *)
(***************************************************************************)
EXTENDS Integers, FiniteSets

CONSTANTS
  ReaderTabs, \* the windows of one reader, each with one call
  Authors     \* others who call, one call each

ASSUME FeedAssumption == "nobody" \notin ReaderTabs \union Authors

VARIABLES
  post,      \* "live" or "deleted"
  counts,    \* like_count and comment_count of the post
  likes,     \* rows of likes: who likes the post
  comments,  \* rows of comments: who wrote it, and its id
  removed,   \* people whose accounts were deleted
  lost,      \* history: likes and comments that went with accounts and are still counted
  holder,    \* who holds the row of the post, or "nobody"
  follows,   \* pairs of follower and followed
  followers, \* users.follower_count
  feedCall   \* of each caller; row and was say what a rollback restores

feedVars == <<post, counts, likes, comments, removed, lost, holder, follows, followers, feedCall>>

Callers == ReaderTabs \union Authors
Caller(c) == IF c \in ReaderTabs THEN "reader" ELSE c
People == Authors \union {"reader"}
NoFeedCall == [at |-> "idle", whom |-> "nobody", had |-> FALSE, row |-> FALSE, was |-> 0]

FeedInit ==
  /\ post = "live"
  /\ counts = [likes |-> 0, comments |-> 0]
  /\ likes = {}
  /\ comments = {}
  /\ removed = {}
  /\ lost = [likes |-> {}, comments |-> {}]
  /\ holder = "nobody"
  /\ follows = {}
  /\ followers = [u \in People |-> 0]
  /\ feedCall = [c \in Callers |-> NoFeedCall]

\* The rows that the counters stand for.
AllLikes == likes \union lost.likes
AllComments == comments \union lost.comments

Less(n) == IF n = 0 THEN 0 ELSE n - 1
Returns(c) == feedCall' = [feedCall EXCEPT ![c] = NoFeedCall]
Proceeds(c, at, had) == feedCall' = [feedCall EXCEPT ![c].at = at, ![c].had = had]

------------------------------------------------------------------------------
(* The post *)

\* Faulty: the row of the post is read without its lock.
LocksPostUnlocked(c) == post = "live" /\ holder' = c

\* SELECT ... FOR UPDATE: one caller at a time, and none after the deletion.
LocksPost(c) == post = "live" /\ holder = "nobody" /\ holder' = c

\* The row of likes is inserted, unless it is there; without an account it cannot be.
BeginLike(c) ==
  /\ feedCall[c] = NoFeedCall /\ Caller(c) \notin removed
  /\ LocksPost(c)
  /\ likes' = likes \union {Caller(c)}
  /\ Proceeds(c, "liking", Caller(c) \in likes)
  /\ UNCHANGED <<post, counts, comments, removed, lost, follows, followers>>

\* It is deleted when it was there, or has gone with the account in between; the counter
\* follows, and the transaction ends.
EndLike(c) ==
  /\ feedCall[c].at = "liking"
  /\ IF feedCall[c].had
     THEN /\ likes' = likes \ {Caller(c)}
          /\ lost' = [lost EXCEPT !.likes = @ \ {Caller(c)}]
          /\ counts' = [counts EXCEPT !.likes = Less(@)]
     ELSE UNCHANGED <<likes, lost>> /\ counts' = [counts EXCEPT !.likes = @ + 1]
  /\ holder' = "nobody"
  /\ Returns(c)
  /\ UNCHANGED <<post, comments, removed, follows, followers>>

BeginComment(c, id) ==
  /\ feedCall[c] = NoFeedCall /\ Caller(c) \notin removed
  /\ \A x \in AllComments : x[2] # id
  /\ LocksPost(c)
  /\ comments' = comments \union {<<Caller(c), id>>}
  /\ feedCall' = [feedCall EXCEPT ![c].at = "commenting", ![c].was = id]
  /\ UNCHANGED <<post, counts, likes, removed, lost, follows, followers>>

EndComment(c) ==
  /\ feedCall[c].at = "commenting"
  /\ counts' = [counts EXCEPT !.comments = @ + 1]
  /\ holder' = "nobody"
  /\ Returns(c)
  /\ UNCHANGED <<post, likes, comments, removed, lost, follows, followers>>

\* Faulty: what was inserted before the failure stays.
RollBackPostKeeping(c) ==
  /\ feedCall[c].at \in {"liking", "commenting"}
  /\ holder' = "nobody"
  /\ Returns(c)
  /\ UNCHANGED <<post, counts, likes, comments, removed, lost, follows, followers>>

\* A statement fails: ROLLBACK.
RollBackPost(c) ==
  /\ feedCall[c].at \in {"liking", "commenting"}
  /\ likes' = IF feedCall[c].at = "liking" /\ ~feedCall[c].had THEN likes \ {Caller(c)} ELSE likes
  /\ comments' = IF feedCall[c].at = "commenting" THEN comments \ {<<Caller(c), feedCall[c].was>>} ELSE comments
  /\ holder' = "nobody"
  /\ Returns(c)
  /\ UNCHANGED <<post, counts, removed, lost, follows, followers>>

\* The author, or a moderator; the row keeps its likes and counters.
DeletePost ==
  /\ post = "live" /\ holder = "nobody"
  /\ post' = "deleted"
  /\ UNCHANGED <<counts, likes, comments, removed, lost, holder, follows, followers, feedCall>>

\* The account of its author, which is no caller here, is deleted: the row of the post
\* goes, once nobody holds it, with its likes, comments and counters.
DropPost ==
  /\ post # "gone" /\ holder = "nobody"
  /\ post' = "gone"
  /\ counts' = [likes |-> 0, comments |-> 0]
  /\ likes' = {} /\ comments' = {}
  /\ lost' = [likes |-> {}, comments |-> {}]
  /\ UNCHANGED <<removed, holder, follows, followers, feedCall>>

------------------------------------------------------------------------------
(* Following: nothing is locked before the first change *)

Pair(c) == <<Caller(c), feedCall[c].whom>>
Changing(c) == feedCall[c].at \in {"changed", "counted"}

\* The row is inserted, or found; a change of it that is not committed is waited for.
BeginFollow(c, u) ==
  /\ feedCall[c] = NoFeedCall /\ u # Caller(c) /\ {u, Caller(c)} \intersect removed = {}
  /\ ~\E d \in Callers : Changing(d) /\ Pair(d) = <<Caller(c), u>>
  /\ LET had == <<Caller(c), u>> \in follows
     IN feedCall' = [feedCall EXCEPT ![c] = [NoFeedCall EXCEPT !.at = IF had THEN "found" ELSE "changed", !.whom = u, !.had = had]]
  /\ follows' = follows \union {<<Caller(c), u>>}
  /\ UNCHANGED <<post, counts, likes, comments, removed, lost, holder, followers>>

\* The DELETE, which also finds no row when another window has deleted it.
Unfollow(c) ==
  /\ feedCall[c].at = "found"
  /\ ~\E d \in Callers : Changing(d) /\ Pair(d) = Pair(c)
  /\ follows' = follows \ {Pair(c)}
  /\ feedCall' = [feedCall EXCEPT ![c].at = "changed", ![c].row = Pair(c) \in follows]
  /\ UNCHANGED <<post, counts, likes, comments, removed, lost, holder, followers>>

\* Rows of users that a caller has changed: first that of the other, then its own.
CountsIn(c) == IF feedCall[c].at = "counted" THEN {feedCall[c].whom} ELSE {}
Busy(c, u) == \E d \in Callers \ {c} : u \in CountsIn(d)

CountFollower(c) ==
  /\ feedCall[c].at = "changed"
  /\ ~Busy(c, feedCall[c].whom)
  /\ followers' = [followers EXCEPT ![feedCall[c].whom] = IF feedCall[c].had THEN Less(@) ELSE @ + 1]
  /\ feedCall' = [feedCall EXCEPT ![c].at = "counted", ![c].was = followers[feedCall[c].whom]]
  /\ UNCHANGED <<post, counts, likes, comments, removed, lost, holder, follows>>

\* following_count, which is left out, and COMMIT.
CountFollowing(c) ==
  /\ feedCall[c].at = "counted"
  /\ ~Busy(c, Caller(c))
  /\ Returns(c)
  /\ UNCHANGED <<post, counts, likes, comments, removed, lost, holder, follows, followers>>

Deadlocked(c) ==
  /\ feedCall[c].at = "counted"
  /\ \E d \in Callers : feedCall[d].at = "counted" /\ Caller(d) = feedCall[c].whom /\ feedCall[d].whom = Caller(c)

\* A statement fails, or the database ends one of two transactions that wait for each
\* other.
RollBackFollow(c) ==
  /\ feedCall[c].at \in {"found", "changed", "counted"}
  /\ followers' = IF feedCall[c].at = "counted" THEN [followers EXCEPT ![feedCall[c].whom] = feedCall[c].was] ELSE followers
  /\ follows' = IF ~Changing(c) THEN follows
                ELSE IF feedCall[c].row THEN follows \union {Pair(c)} ELSE follows \ {Pair(c)}
  /\ Returns(c)
  /\ UNCHANGED <<post, counts, likes, comments, removed, lost, holder>>

------------------------------------------------------------------------------
(* Accounts *)

\* A row that was inserted refers to its users, and one that was changed is locked: the
\* deletion of a user waits for the transaction.
Engaged(u) ==
  \E c \in Callers :
    \/ Caller(c) = u /\ (feedCall[c].at = "commenting" \/ (feedCall[c].at = "liking" /\ ~feedCall[c].had))
    \/ Changing(c) /\ u \in {Caller(c), feedCall[c].whom} /\ (~feedCall[c].had \/ feedCall[c].row)
    \/ u \in CountsIn(c)

\* DELETE FROM users: the likes, comments and follows of the user go with the row, and no
\* counter of a post or of another user is touched.
RemoveAccount(u) ==
  /\ u \notin removed /\ ~Engaged(u)
  /\ removed' = removed \union {u}
  /\ LET mine == {x \in comments : x[1] = u}
     IN /\ likes' = likes \ {u}
        /\ comments' = comments \ mine
        /\ lost' = [likes |-> lost.likes \union (likes \intersect {u}), comments |-> lost.comments \union mine]
  /\ follows' = {f \in follows : u \notin {f[1], f[2]}}
  /\ followers' = [followers EXCEPT ![u] = 0]
  /\ UNCHANGED <<post, counts, holder, feedCall>>

MaxComments == 2 \* bound

FeedNext ==
  \/ DeletePost \/ DropPost
  \/ \E u \in People : RemoveAccount(u)
  \/ \E c \in Callers :
       \/ BeginLike(c) \/ EndLike(c) \/ EndComment(c) \/ RollBackPost(c)
       \/ Unfollow(c) \/ CountFollower(c) \/ CountFollowing(c) \/ RollBackFollow(c)
       \/ \E id \in 1..MaxComments : BeginComment(c, id)
       \/ \E u \in People : BeginFollow(c, u)

------------------------------------------------------------------------------
\* What the feed, the levels and the order of posts are made from is right whenever no
\* call has the post: the counters are the likes and comments there are and those that
\* went with deleted accounts, whatever windows toggle at once, whichever calls fail and
\* whoever is deleted meanwhile.
LikesCounted ==
  holder = "nobody" => counts.likes = Cardinality(AllLikes) /\ counts.comments = Cardinality(AllComments)

\* Does not hold: as many likes and comments as the counters say.
RowsCounted ==
  holder = "nobody" => counts.likes = Cardinality(likes) /\ counts.comments = Cardinality(comments)

Quiet == \A c \in Callers : feedCall[c] = NoFeedCall

\* Does not hold: the same for the counters of followers.
FollowersCounted ==
  Quiet => \A u \in People : followers[u] = Cardinality({f \in follows : f[2] = u})

\* Does not hold: calls do not wait for each other for ever.
NoFollowDeadlock == \A c \in Callers : ~Deadlocked(c)

------------------------------------------------------------------------------
(***************************************************************************)
(* A product of the market (src/routes/market.js): its owner creates,      *)
(* edits and archives it, and attaches a file of source code; a buyer, in  *)
(* several windows, buys it and downloads the file.  A purchase is one     *)
(* transaction with its payment in QNTM and holds the row of the product.  *)
(* The accounts of the owner and the buyers may be deleted.                *)
(***************************************************************************)
CONSTANTS
  Windows,     \* of the buyers, with one call each
  FirstBuyer,  \* the windows of the first buyer; the others are the second's
  ProductPrices,
  Files        \* that the owner uploads

ASSUME StoreAssumption == ProductPrices \subseteq Nat

VARIABLES
  product,  \* status, price and src_file of the product
  disk,     \* files in private/product-src
  licences, \* product_purchases: price_qntm of the buyers
  paid,     \* what the buyers' ledger transactions moved, by their keys
  sold,     \* sales_count; its last value when the product has gone
  departed, \* accounts that were deleted, of the owner or of buyers
  buying,   \* of each window: the price it read, when it holds the row
  edit,     \* the owner's edit: what it read, and what it will write
  creator,  \* users.is_creator of the owner
  rewarded  \* times the creator reward was granted

storeVars == <<product, disk, licences, paid, sold, departed, buying, edit, creator, rewarded>>

NoFile == "none"
NotBuying == -1
BuyerOf(w) == IF w \in FirstBuyer THEN "first" ELSE "second"
NoEdit == [at |-> "idle", old |-> NoFile, new |-> NoFile]

StoreInit ==
  /\ product = [status |-> "none", price |-> 0, file |-> NoFile]
  /\ disk = {}
  /\ licences = <<>>
  /\ paid = <<>>
  /\ sold = 0
  /\ departed = {}
  /\ buying = [w \in Windows |-> NotBuying]
  /\ edit = NoEdit
  /\ creator = FALSE
  /\ rewarded = 0

Held == \E w \in Windows : buying[w] # NotBuying
Put(f, key, value) == [x \in DOMAIN f \union {key} |-> IF x = key THEN value ELSE f[x]]

UploadSource(x) ==
  /\ x \notin disk
  /\ disk' = disk \union {x}
  /\ UNCHANGED <<product, licences, paid, sold, departed, buying, edit, creator, rewarded>>

\* Opening the store, or the first product, makes a creator; the reward is granted once,
\* however often it is asked for.
BecomeCreator ==
  /\ "owner" \notin departed
  /\ creator' = TRUE
  /\ rewarded' = 1
  /\ UNCHANGED <<product, disk, licences, paid, sold, departed, buying, edit>>

\* The flag is set and the process ends, or the reward fails, which is only logged.
BecomeCreatorUnrewarded ==
  /\ ~creator /\ "owner" \notin departed
  /\ creator' = TRUE
  /\ UNCHANGED <<product, disk, licences, paid, sold, departed, buying, edit, rewarded>>

CreateProduct(status, p, x) ==
  /\ product.status = "none" /\ creator /\ "owner" \notin departed
  /\ x \in disk \union {NoFile}
  /\ product' = [status |-> status, price |-> p, file |-> x]
  /\ UNCHANGED <<disk, licences, paid, sold, departed, buying, edit, creator, rewarded>>

------------------------------------------------------------------------------
(* Edits *)

BeginEdit(x) ==
  /\ edit = NoEdit /\ product.status \notin {"none", "gone"}
  /\ x \in disk \union {NoFile}
  /\ edit' = [at |-> "read", old |-> product.file, new |-> x]
  /\ UNCHANGED <<product, disk, licences, paid, sold, departed, buying, creator, rewarded>>

\* The old file goes before the row is updated.
UnlinkSource ==
  /\ edit.at = "read"
  /\ disk' = IF edit.old # edit.new THEN disk \ {edit.old} ELSE disk
  /\ edit' = [edit EXCEPT !.at = "unlinked"]
  /\ UNCHANGED <<product, licences, paid, sold, departed, buying, creator, rewarded>>

\* The UPDATE waits for the row.
EndEdit(status, p) ==
  /\ edit.at = "unlinked" /\ ~Held /\ product.status \notin {"none", "gone"}
  /\ product' = [status |-> status, price |-> p, file |-> edit.new]
  /\ edit' = NoEdit
  /\ UNCHANGED <<disk, licences, paid, sold, departed, buying, creator, rewarded>>

\* It fails, or finds no row.
FailEdit ==
  /\ edit.at = "unlinked"
  /\ edit' = NoEdit
  /\ UNCHANGED <<product, disk, licences, paid, sold, departed, buying, creator, rewarded>>

Archive ==
  /\ product.status \notin {"none", "gone"} /\ ~Held
  /\ product' = [product EXCEPT !.status = "archived"]
  /\ UNCHANGED <<disk, licences, paid, sold, departed, buying, edit, creator, rewarded>>

------------------------------------------------------------------------------
(* Purchases *)

\* Faulty: reads the row without locking it.
TakesProductUnlocked(w) == buying' = [buying EXCEPT ![w] = product.price]

\* SELECT ... FOR UPDATE
TakesProduct(w) == ~Held /\ buying' = [buying EXCEPT ![w] = product.price]

\* A buyer who has a licence is told so, and pays nothing.
BeginBuy(w) ==
  /\ buying[w] = NotBuying
  /\ product.status = "active"
  /\ TakesProduct(w)
  /\ BuyerOf(w) \notin DOMAIN licences
  /\ UNCHANGED <<product, disk, licences, paid, sold, departed, edit, creator, rewarded>>

\* The payment belongs to the transaction, and its key names product and buyer, so that
\* it moves nothing a second time; a free product is not settled.
Payment(w) ==
  paid' = IF buying[w] > 0 /\ BuyerOf(w) \notin DOMAIN paid THEN Put(paid, BuyerOf(w), buying[w]) ELSE paid

\* Payment, licence and counters are committed together; the licence of a buyer without
\* an account cannot be inserted.
CommitBuy(w) ==
  /\ buying[w] # NotBuying /\ BuyerOf(w) \notin departed
  /\ Payment(w)
  /\ licences' = Put(licences, BuyerOf(w), buying[w])
  /\ sold' = sold + 1
  /\ buying' = [buying EXCEPT ![w] = NotBuying]
  /\ UNCHANGED <<product, disk, departed, edit, creator, rewarded>>

\* Not enough QNTM, or a failure.
RollBackBuy(w) ==
  /\ buying[w] # NotBuying
  /\ buying' = [buying EXCEPT ![w] = NotBuying]
  /\ UNCHANGED <<product, disk, licences, paid, sold, departed, edit, creator, rewarded>>

------------------------------------------------------------------------------
(* Accounts: the payments stay in the ledger *)

\* The owner's account is deleted: the product goes, once nobody holds its row, and with
\* it every licence.  The source file stays.
RemoveOwner ==
  /\ "owner" \notin departed /\ ~Held
  /\ departed' = departed \union {"owner"}
  /\ product' = IF product.status = "none" THEN product ELSE [product EXCEPT !.status = "gone"]
  /\ licences' = <<>>
  /\ UNCHANGED <<disk, paid, sold, buying, edit, creator, rewarded>>

\* A buyer's account is deleted, and the licence goes; the counter of sales stays.
RemoveBuyer(b) ==
  /\ b \notin departed
  /\ departed' = departed \union {b}
  /\ licences' = [x \in DOMAIN licences \ {b} |-> licences[x]]
  /\ UNCHANGED <<product, disk, paid, sold, buying, edit, creator, rewarded>>

StoreNext ==
  \/ BecomeCreator \/ BecomeCreatorUnrewarded \/ UnlinkSource \/ FailEdit \/ Archive \/ RemoveOwner
  \/ \E b \in {"first", "second"} : RemoveBuyer(b)
  \/ \E x \in Files : UploadSource(x)
  \/ \E x \in Files \union {NoFile} : BeginEdit(x)
  \/ \E status \in {"active", "draft"}, p \in ProductPrices, x \in Files \union {NoFile} : CreateProduct(status, p, x)
  \/ \E status \in {"active", "draft", "archived"}, p \in ProductPrices : EndEdit(status, p)
  \/ \E w \in Windows : BeginBuy(w) \/ CommitBuy(w) \/ RollBackBuy(w)

------------------------------------------------------------------------------
\* A licence is given for an active product at the price that it has at that moment,
\* however the owner edits while buyers buy; it is never given twice, never changed, and
\* taken back by nothing but the deletion of the owner's or the buyer's account.
LicencesStand ==
  LET stay == DOMAIN licences \intersect DOMAIN licences'
      new == DOMAIN licences' \ DOMAIN licences
  IN /\ \A b \in stay : licences'[b] = licences[b]
     /\ \A b \in DOMAIN licences \ stay : {b, "owner"} \intersect (departed' \ departed) # {}
     /\ \A b \in new : product.status = "active" /\ licences'[b] = product.price
     /\ sold' - sold = Cardinality(new)

\* Every licence has been paid, at its price and once, and who has paid has the licence
\* unless an account of the two was deleted.
LicencesPaid ==
  /\ \A b \in DOMAIN licences : licences[b] = IF b \in DOMAIN paid THEN paid[b] ELSE 0
  /\ \A b \in DOMAIN paid : b \in DOMAIN licences \/ {b, "owner"} \intersect departed # {}

\* Does not hold: who has paid, and still has an account, has the licence.
PaidIsKept == \A b \in DOMAIN paid \ departed : b \in DOMAIN licences

\* Does not hold: the file that the product names can be downloaded.
SourceAvailable == product.file # NoFile /\ edit.at # "unlinked" => product.file \in disk

\* Does not hold: a creator has the reward.
CreatorRewarded == creator => rewarded = 1
==============================================================================
