----------------------------- MODULE BbsServer -----------------------------
(***************************************************************************)
(* The server of the comments board: CommentHandler, CommentServiceImpl,   *)
(* ValidatorServiceImpl, CommentReplyTree and the statements they run.     *)
(*                                                                         *)
(* Each request is handled in a transaction (datasource-config.xml) on a   *)
(* database whose reads see one snapshot, that of the first (InnoDB's      *)
(* default).  So a request takes two steps here: it begins, which is all   *)
(* its reads, and it ends, which is its writes and the commit.  Between    *)
(* the two the requests of other users, and of the same one, come and go.  *)
(*                                                                         *)
(* MyBatis keeps the results of the selects of CommentMapper: a write      *)
(* empties that cache when it commits, a select adds its result then.      *)
(***************************************************************************)
EXTENDS Integers, Sequences, FiniteSets

CONSTANTS Pages,       \* the browsers, each with a page open
          NoPage,      \* the page of a request whose page was left
          Names,       \* names users choose
          Rows,        \* comments on a page of the list
          MaxComments, \* bound on the comments written
          Limits       \* bounds on the periods of TEXT_LIMIT minutes and the database's failures

ASSUME ServerAssumption == /\ NoPage \notin Pages
                           /\ {Rows, MaxComments} \subseteq Nat
                           /\ Limits \subseteq [periods : Nat, faults : Nat]

VARIABLES comments,  \* t_comment; the id of a comment is its place
          users,     \* t_user, likewise: the name, and the period of the last comment
          cacheMain, \* the cached result of findMain, a set of at most one
          cacheReply, \* of findReply for each comment, likewise
          reqs,      \* the requests under way, as they were sent
          period,    \* the clock
          faults,    \* failures so far
          limits,    \* one of Limits
          races      \* what overlapped, for the properties only

tables == <<comments, users>>
caches == <<cacheMain, cacheReply>>
server == <<tables, caches, period, faults, limits, races>>

NoAnswer == [ok |-> FALSE, list |-> << >>]

\* A request: from which page and user, what for, about which comment (0 for none), in
\* which box of the page, with what text or name; why: for the properties only.
Request(p, u, api, at, box, text) ==
    [page |-> p, user |-> u, api |-> api, at |-> at, box |-> box, text |-> text, why |-> {},
     phase |-> "sent", seen |-> << >>, answer |-> NoAnswer]

---------------------------------------------------------------------------
(* Sequences and sets of places.                                           *)

Elems(s) == {s[i] : i \in DOMAIN s}

Sorted(S) == LET place(x) == Cardinality({y \in S : y <= x})
             IN  [i \in 1..Cardinality(S) |-> CHOOSE x \in S : place(x) = i]

\* What a sequence has at some places, in its order.
Only(s, places) == LET at == Sorted(places) IN [k \in DOMAIN at |-> s[at[k]]]

---------------------------------------------------------------------------
(* What the statements find in a table of comments.                        *)

Alive(table) == {c \in DOMAIN table : ~ table[c].deleted}

\* queryReply: a comment and everything under it, deleted or not.
Under(table, c) ==
    LET down[n \in 0..Len(table)] ==
            IF n = 0 THEN {c} \cap DOMAIN table
            ELSE down[n - 1] \cup {x \in DOMAIN table : table[x].parent \in down[n - 1]}
    IN  down[Len(table)]

\* findMain: the first page, in no order but that of the table.
MainList(table) ==
    LET mains == Sorted({c \in Alive(table) : table[c].parent = 0})
    IN  SubSeq(mains, 1, IF Len(mains) < Rows THEN Len(mains) ELSE Rows)

\* findReply and CommentReplyTree.make: a row whose parent is not among the rows is a
\* null pointer, and a text with a quotation mark is not the JSON it is read back as.
ReplyRows(table, c) == Under(table, c) \cap Alive(table)
Orphans(table)      == {c \in Alive(table) : /\ table[c].parent # 0
                                             /\ table[table[c].parent].deleted}
Readable(rows)      == \A c \in rows : /\ comments[c].parent \in rows \cup {0}
                                       /\ comments[c].text # "quoted"

\* The answer is made of them; without rows there is nothing to answer.
Replies(c, rows) == IF rows = {} \/ ~ Readable(rows) THEN NoAnswer
                    ELSE [ok |-> TRUE, list |-> Sorted(rows \ {c})]

---------------------------------------------------------------------------
(* A request begins.                                                       *)

Writes  == {"main.add", "reply.add", "delete"}
Running(i) == {j \in DOMAIN reqs \ {i} : reqs[j].phase = "begun"}

\* What the requests that run along with this one may get wrong.
Overlaps(r, s) ==
    (IF {r.api, s.api} = {"reply.add", "delete"} THEN {"orphan"} ELSE {})
    \cup (IF r.api = "main.add" /\ s.api = "main.add" /\ r.user = s.user THEN {"limit"} ELSE {})
    \cup (IF r.api = "signup" /\ s.api = "signup" THEN {"name"} ELSE {})
    \cup (IF (r.api \in Writes) # (s.api \in Writes) THEN {"stale"} ELSE {})

\* isTooFast: less than TEXT_LIMIT minutes since the last.
MutTooFast(u) == FALSE
TooFast(u)    == users[u].last = period
Named(name)   == {u \in DOMAIN users : users[u].name = name}

Without(i) == Only(reqs, DOMAIN reqs \ {i})

Begins(i) ==
    /\ reqs' = [reqs EXCEPT ![i].phase = "begun", ![i].seen = comments]
    /\ races' = races \cup UNION {Overlaps(reqs[i], reqs[j]) : j \in Running(i)}

\* Nobody waits for the answer when the page was left.
Answers(i, a) ==
    /\ reqs' = IF reqs[i].page = NoPage THEN Without(i)
               ELSE [reqs EXCEPT ![i].phase = "answered", ![i].answer = a, ![i].seen = << >>]
    /\ UNCHANGED races

\* A request begins with its reads.  JsonMapValidator has refused an empty text.
Begin(i) ==
    LET r == reqs[i]
    IN  /\ r.phase = "sent"
        /\ \/ /\ r.api = "main.add"
              /\ IF r.text = "short" \/ TooFast(r.user) THEN Answers(i, NoAnswer) ELSE Begins(i)
           \/ /\ r.api = "reply.add"
              /\ IF r.text # "empty" /\ r.at \in Alive(comments) THEN Begins(i) ELSE Answers(i, NoAnswer)
           \/ r.api = "delete" /\ Begins(i)
           \/ /\ r.api = "signup"
              /\ IF Named(r.text) = {} THEN Begins(i) ELSE Answers(i, NoAnswer)
           \/ /\ r.api = "signin"
              /\ Answers(i, IF Cardinality(Named(r.text)) # 1 THEN NoAnswer
                            ELSE [ok |-> TRUE, list |-> Sorted(Named(r.text))])
           \/ /\ r.api = "main.find"
              /\ IF cacheMain = {} THEN Begins(i)
                 ELSE \E found \in cacheMain : Answers(i, [ok |-> TRUE, list |-> found])
           \/ /\ r.api = "reply.find"
              /\ IF cacheReply[r.at] = {} THEN Begins(i)
                 ELSE \E rows \in cacheReply[r.at] : Answers(i, Replies(r.at, rows))
        /\ UNCHANGED <<tables, caches, period, faults, limits>>

---------------------------------------------------------------------------
(* A request ends.                                                         *)

MutEmptied == UNCHANGED caches
Emptied    == cacheMain' = {} /\ cacheReply' = [c \in DOMAIN cacheReply |-> {}]

Inserted(r) ==
    comments' = Append(comments, [user |-> r.user, parent |-> r.at, deleted |-> FALSE,
                                  text |-> r.text, period |-> period, why |-> r.why])

\* addMain: the comment, its id, the time of the user's last.
AddMain(i) == /\ reqs[i].api = "main.add"
              /\ Len(comments) < MaxComments
              /\ Inserted(reqs[i])
              /\ users' = [users EXCEPT ![reqs[i].user].last = period]
              /\ Emptied
              /\ Answers(i, [ok |-> TRUE, list |-> << >>])

\* addReply: the parent was there in the snapshot.
AddReply(i) == /\ reqs[i].api = "reply.add"
               /\ Len(comments) < MaxComments
               /\ Inserted(reqs[i])
               /\ Emptied
               /\ Answers(i, [ok |-> TRUE, list |-> << >>])
               /\ UNCHANGED users

\* deleteReply, also for deleteMain: the tree as the snapshot has it, whoever asks; if
\* none of it is left to delete, the transaction is rolled back.
Delete(i) ==
    LET gone == Under(reqs[i].seen, reqs[i].at) \cap Alive(comments)
    IN  /\ reqs[i].api = "delete"
        /\ IF gone = {} THEN Answers(i, NoAnswer) /\ UNCHANGED <<comments, caches>>
           ELSE /\ comments' = [c \in DOMAIN comments |->
                                  IF c \in gone THEN [comments[c] EXCEPT !.deleted = TRUE]
                                  ELSE comments[c]]
                /\ Emptied
                /\ Answers(i, [ok |-> TRUE, list |-> << >>])
        /\ UNCHANGED users

FindMain(i) == LET found == MainList(reqs[i].seen) IN
               /\ reqs[i].api = "main.find"
               /\ cacheMain' = {found}
               /\ Answers(i, [ok |-> TRUE, list |-> found])
               /\ UNCHANGED <<tables, cacheReply>>

\* findReply: nothing is kept of a request that failed.
FindReply(i) ==
    LET r    == reqs[i]
        rows == ReplyRows(r.seen, r.at)
    IN  /\ r.api = "reply.find"
        /\ Answers(i, Replies(r.at, rows))
        /\ cacheReply' = IF Readable(rows) THEN [cacheReply EXCEPT ![r.at] = {rows}] ELSE cacheReply
        /\ UNCHANGED <<tables, cacheMain>>

\* signUp: nothing in t_user keeps a name from being there twice.
SignUp(i) == /\ reqs[i].api = "signup"
             /\ users' = Append(users, [name |-> reqs[i].text, last |-> 0])
             /\ Answers(i, [ok |-> TRUE, list |-> << >>])
             /\ UNCHANGED <<comments, caches>>

End(i) == /\ reqs[i].phase = "begun"
          /\ SignUp(i) \/ AddMain(i) \/ AddReply(i) \/ Delete(i) \/ FindMain(i) \/ FindReply(i)
          /\ UNCHANGED <<period, faults, limits>>

\* An exception of the database: rolled back, and answered as a failure.
Fail(i) == /\ reqs[i].phase = "begun" /\ faults < limits.faults
           /\ faults' = faults + 1
           /\ Answers(i, NoAnswer)
           /\ UNCHANGED <<tables, caches, period, limits>>

\* Five minutes go by; what was cached two minutes ago is dropped.
TimePasses == /\ period < limits.periods
              /\ period' = period + 1
              /\ Emptied
              /\ UNCHANGED <<tables, reqs, faults, limits, races>>

Serve == \E i \in DOMAIN reqs : Begin(i) \/ End(i) \/ Fail(i)

ServerInit(names, table) ==
    /\ comments = table
    /\ users = [u \in DOMAIN names |-> [name |-> names[u], last |-> 0]]
    /\ cacheMain = {} /\ cacheReply = [c \in 1..MaxComments |-> {}]
    /\ reqs = << >>
    /\ period = 1 /\ faults = 0 /\ limits \in Limits /\ races = {}

---------------------------------------------------------------------------
(* Properties.                                                             *)

\* Every reply has its parent, a user has one main comment per TEXT_LIMIT minutes, and
\* a name one user, and what is cached is the table's, unless requests overlapped: a
\* reply with the deletion of what it answers, two comments of one user, two sign-ups,
\* a find with a write (addReply, isTooFast, signUp, the cache of CommentMapper).
OnlyByRaces ==
    /\ "name" \notin races => \A u, v \in DOMAIN users : users[u].name = users[v].name => u = v
    /\ "orphan" \notin races => Orphans(comments) = {}
    /\ "limit" \notin races =>
          \A c, d \in DOMAIN comments :
             /\ comments[c].parent = 0 /\ comments[d].parent = 0
             /\ comments[c].user = comments[d].user /\ comments[c].period = comments[d].period
             => c = d
    /\ "stale" \notin races =>
          /\ cacheMain \subseteq {MainList(comments)}
          /\ \A c \in DOMAIN comments :
                cacheReply[c] \subseteq {ReplyRows(comments, c)}
=============================================================================
