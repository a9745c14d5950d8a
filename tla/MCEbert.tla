------------------------------ MODULE MCEbert ------------------------------
(***************************************************************************)
(* Ebert's server, its parts side by side: a behaviour is the watcher, the *)
(* comments, the changes of a review or the tickets at work; which names   *)
(* the part, and the variables of the others are unused.                   *)
(***************************************************************************)
EXTENDS EbertWatcher

CONSTANTS
    Users, MaxRequests,                                  \* as in the modules below
    Commenters, Bodies, MaxDrafts, MaxEdits,             \* EbertComments
    MaxVersions, MaxTries, MaxOthers,                    \* EbertReview
    ApiUser, Threshold, Life, Latency, MaxTime, MaxIssued  \* EbertTickets

VARIABLES
    which,
    keys, count, swarm, shown, writing,                  \* EbertComments, with writing for req
    review, aux, runs, jobs, changing, up,               \* EbertReview, with changing for req
    now, issued, tickets, mutex, acting                  \* EbertTickets, with acting for req
commentVars == <<keys, count, swarm, shown, writing>>
reviewVars == <<review, aux, runs, jobs, changing, up>>
ticketVars == <<now, issued, tickets, mutex, acting>>
allVars == <<vars, which, commentVars, reviewVars, ticketVars>>

Comments == INSTANCE EbertComments WITH Users <- Commenters, req <- writing
\* An approval or a vote is the business of its request alone, so that one request at most has one;
\* the comment is edited only beside a request that marks it as read.
OneVotes ==
    /\ Cardinality({r \in Comments!Publishing : writing[r].wants # "nothing"}) <= 1
    /\ shown.version > 0 => \E r \in DOMAIN writing : writing[r].op = "read"

Review == INSTANCE EbertReview WITH req <- changing

Requests == 1 .. MaxRequests
Tickets == INSTANCE EbertTickets WITH req <- acting
ASSUME TicketsAssumption == Tickets!TicketsConstants
ASSUME RequestsAssumption == MaxRequests \in Nat

NoComments == keys = {} /\ count = {} /\ swarm = {} /\ shown = {} /\ writing = {}
NoReview == review = {} /\ aux = {} /\ runs = {} /\ jobs = {} /\ changing = {} /\ up = FALSE
NoTickets == now = 0 /\ issued = {} /\ tickets = {} /\ mutex = {} /\ acting = {}
EbertInit ==
    /\ Init
    /\ \/ which = "watcher" /\ NoComments /\ NoReview /\ NoTickets
       \/ which = "comments" /\ Comments!Init /\ NoReview /\ NoTickets
       \/ which = "review" /\ Review!Init /\ NoComments /\ NoTickets
       \/ which = "tickets" /\ Tickets!Init /\ NoComments /\ NoReview

Watcher(A) == which = "watcher" /\ A /\ UNCHANGED <<which, commentVars, reviewVars, ticketVars>>
SubmitStep == Watcher(Submit)
PollStep(i) == Watcher(Poll(i))
RestartStep(i) == Watcher(Restart(i))
CommentsStep == which = "comments" /\ Comments!Next /\ OneVotes' /\ UNCHANGED <<vars, which, reviewVars, ticketVars>>
ReviewStep == which = "review" /\ Review!Next /\ UNCHANGED <<vars, which, commentVars, ticketVars>>
TicketsStep == which = "tickets" /\ Tickets!Next /\ UNCHANGED <<vars, which, commentVars, reviewVars>>
EbertNext ==
    \/ SubmitStep \/ (\E i \in Instances : PollStep(i) \/ RestartStep(i))
    \/ CommentsStep \/ ReviewStep \/ TicketsStep

\* The fairness is the watcher's.
EbertSpec == EbertInit /\ [][EbertNext]_allVars /\ \A i \in Instances : WF_allVars(PollStep(i))

-----------------------------------------------------------------------------
(* Publishing comments never loses a draft, whose key goes only by the user's wish or once Swarm
   has it; marks as read stay, and nobody else's change of the comment is undone. *)
CommentsKept == [][which = "comments" => Comments!DraftsStay /\ Comments!ReadersStay]_allVars

(* A success the server tells its front end is one, of a request to publish as of one to change,
   approve or test a review. *)
AnswersHonest ==
    /\ which = "comments" => Comments!AnswerHonest
    /\ which = "review" => Review!ReviewAnswers

(* A request acts with a ticket of its user that outlives it. *)
TicketLasts == which = "tickets" => Tickets!TicketLasts
=============================================================================
