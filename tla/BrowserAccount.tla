--------------------------- MODULE BrowserAccount ---------------------------
(***************************************************************************)
(* The browser's AuthService and BillingService in one page: the session    *)
(* kept in local storage and validated at the page's start, sign-in and     *)
(* sign-out, and the billing status, which is fetched, fetched again beside *)
(* a fetch in flight, and updated by the usage event of a chat.  A token is *)
(* the user it was signed for.                                              *)
(***************************************************************************)
EXTENDS Integers

CONSTANTS
    NoUser,
    Users,
    MaxFetches, \* bound: fetches of the billing status
    MaxChats    \* bound: chats, which count one word each

ASSUME AccountAssumption == NoUser \notin Users /\ MaxFetches \in Nat /\ MaxChats \in Nat

VARIABLES
    token, profile, \* session_token and user_profile, in storage and signals
    validating, \* the token validateSession sent, or NoUser
    signingIn,  \* the user whose credential is being exchanged
    usage,      \* the words the server's meter of each user has today
    fetch,      \* the calls of fetchStatus
    loadPromise, \* the one that load() hands out, or 0
    shown,      \* the billing status on show
    metered,       \* a chat in progress: whose, and the meter it was checked with
    chats,      \* chats so far
    crossed,    \* history: signed in or out during the validation
    switched,   \* history: signed in while another's status was kept or fetched
    raced       \* history: two fetches, or a fetch and a chat, overlapped, a
                \* chat's usage event or its write to the meter was lost, or a
                \* day ended with a meter that was on show or being read

session == <<token, profile, validating, signingIn>>
account == <<session, usage, fetch, loadPromise, shown, metered, chats, crossed, switched, raced>>

NoStatus == [user |-> NoUser, words |-> 0]
NoChatNow == [pc |-> "none", user |-> NoUser, used |-> 0]
Words == 0..MaxChats
NewDay == [u \in Users |-> 0]

AccountTypeOK ==
    /\ {token, profile, validating, signingIn} \subseteq Users \union {NoUser}
    /\ usage \in [Users -> Words]
    /\ fetch \in [1..MaxFetches -> [pc : {"new", "sent", "read", "ended"},
                                    user : Users \union {NoUser}, words : Words]]
    /\ loadPromise \in 0..MaxFetches
    /\ shown \in [user : Users \union {NoUser}, words : Words]
    /\ metered \in [pc : {"none", "answer", "record"}, user : Users \union {NoUser}, used : Words]
    /\ chats \in 0..MaxChats
    /\ {crossed, switched, raced} \subseteq BOOLEAN

\* The page starts with the session that was stored, and validates it.
AccountInit ==
    /\ token \in Users \union {NoUser} /\ profile = token /\ validating = token
    /\ signingIn = NoUser
    /\ usage = NewDay
    /\ fetch = [i \in 1..MaxFetches |-> [pc |-> "new", user |-> NoUser, words |-> 0]]
    /\ loadPromise = 0 /\ shown = NoStatus /\ metered = NoChatNow /\ chats = 0
    /\ crossed = FALSE /\ switched = FALSE /\ raced = FALSE

-----------------------------------------------------------------------------
InFlight(i) == fetch[i].pc \in {"sent", "read"}
SomeInFlight == \E i \in DOMAIN fetch : InFlight(i)

ForgetSession == token' = NoUser /\ profile' = NoUser

BillingUnchanged == UNCHANGED <<usage, fetch, loadPromise, shown, metered, chats, raced>>

\* Mutant of Validated: a refused token is dropped, its profile is kept.
ValidatedKeepingProfile ==
    /\ validating # NoUser
    /\ validating' = NoUser
    /\ \/ profile' = validating /\ UNCHANGED token
       \/ token' = NoUser /\ UNCHANGED profile
       \/ UNCHANGED <<token, profile>>
    /\ UNCHANGED <<signingIn, crossed, switched>> /\ BillingUnchanged

\* validateSession is answered: by the token's profile, by a refusal, which
\* clears the session, or not at all.
Validated ==
    /\ validating # NoUser
    /\ validating' = NoUser
    /\ \/ profile' = validating /\ UNCHANGED token
       \/ ForgetSession
       \/ UNCHANGED <<token, profile>>
    /\ UNCHANGED <<signingIn, crossed, switched>> /\ BillingUnchanged

\* The sign-in page, which a reader who is signed in does not reach.
SignIn(u) ==
    /\ token = NoUser /\ signingIn = NoUser
    /\ signingIn' = u
    /\ UNCHANGED <<token, profile, validating, crossed, switched>> /\ BillingUnchanged

\* The exchange is answered by a session of the user, or fails.
SignedIn ==
    /\ signingIn # NoUser /\ signingIn' = NoUser
    /\ \/ /\ token' = signingIn /\ profile' = signingIn
          /\ crossed' = (crossed \/ validating # NoUser)
          /\ switched' = \/ switched
                         \/ shown.user \notin {signingIn, NoUser}
                         \/ \E i \in DOMAIN fetch : InFlight(i) /\ fetch[i].user # signingIn
       \/ UNCHANGED <<token, profile, crossed, switched>>
    /\ UNCHANGED validating /\ BillingUnchanged

\* The status on show and a fetch in flight outlive the session.
SignOut ==
    /\ token # NoUser
    /\ ForgetSession
    /\ crossed' = (crossed \/ validating # NoUser)
    /\ UNCHANGED <<validating, signingIn, switched>> /\ BillingUnchanged

\* fetchStatus asks for the status of the user who is signed in.
StartFetch ==
    \E i \in DOMAIN fetch :
      /\ fetch[i].pc = "new" /\ \A j \in 1..(i - 1) : fetch[j].pc # "new"
      /\ fetch' = [fetch EXCEPT ![i] = [pc |-> "sent", user |-> token, words |-> 0]]
      /\ loadPromise' = i
      /\ raced' = (raced \/ SomeInFlight \/ metered # NoChatNow)

\* load() while no call is remembered; otherwise it shares that call.
Load ==
    /\ token # NoUser /\ loadPromise = 0
    /\ StartFetch
    /\ UNCHANGED <<session, usage, shown, metered, chats, crossed, switched>>

\* refresh() forgets the call that is remembered and starts another.
Refresh ==
    /\ token # NoUser /\ loadPromise # 0
    /\ StartFetch
    /\ UNCHANGED <<session, usage, shown, metered, chats, crossed, switched>>

\* The API reads the user's meter.
ServerReads(i) ==
    /\ fetch[i].pc = "sent"
    /\ fetch' = [fetch EXCEPT ![i].pc = "read", ![i].words = usage[fetch[i].user]]
    /\ UNCHANGED <<session, usage, loadPromise, shown, metered, chats, crossed, switched, raced>>

\* The answer is shown, or there is none and the status stays; either way the
\* call that is remembered is forgotten, be it this one or a later one.
Fetched(i) ==
    /\ fetch[i].pc = "read"
    /\ fetch' = [fetch EXCEPT ![i].pc = "ended"]
    /\ loadPromise' = 0
    /\ shown' \in {shown, [user |-> fetch[i].user, words |-> fetch[i].words]}
    /\ UNCHANGED <<session, usage, metered, chats, crossed, switched, raced>>

\* A chat is checked against the meter and begins to answer.
StartChat ==
    /\ token # NoUser /\ metered = NoChatNow /\ chats < MaxChats
    /\ metered' = [pc |-> "answer", user |-> token, used |-> usage[token]]
    /\ chats' = chats + 1
    /\ raced' = (raced \/ SomeInFlight)
    /\ UNCHANGED <<session, usage, fetch, loadPromise, shown, crossed, switched>>

\* applyUsageEvent: the meter the chat reports replaces the one on show, if a
\* status is on show; the event may not arrive.
UsageEvent ==
    /\ metered.pc = "answer"
    /\ metered' = [metered EXCEPT !.pc = "record"]
    /\ \/ /\ shown' = IF shown.user = NoUser THEN shown ELSE [shown EXCEPT !.words = metered.used + 1]
          /\ UNCHANGED raced
       \/ UNCHANGED shown /\ raced' = TRUE
    /\ UNCHANGED <<session, usage, fetch, loadPromise, chats, crossed, switched>>

\* The API adds the answer's words to the meter, after the event; a write that
\* fails, by its lock_timeout for one, is logged and nothing else.
RecordChat ==
    /\ metered.pc = "record"
    /\ metered' = NoChatNow
    /\ \/ usage' = [usage EXCEPT ![metered.user] = @ + 1] /\ UNCHANGED raced
       \/ raced' = TRUE /\ UNCHANGED usage
    /\ UNCHANGED <<session, fetch, loadPromise, shown, chats, crossed, switched>>

\* utc_today is another day, whose meters are empty.
Midnight ==
    /\ usage # NewDay /\ usage' = NewDay
    /\ raced' = (raced \/ shown # NoStatus \/ SomeInFlight \/ metered # NoChatNow)
    /\ UNCHANGED <<session, fetch, loadPromise, shown, metered, chats, crossed, switched>>

AccountNext ==
    \/ Validated
    \/ \E u \in Users : SignIn(u)
    \/ SignedIn
    \/ SignOut
    \/ Load
    \/ Refresh
    \/ \E i \in DOMAIN fetch : ServerReads(i) \/ Fetched(i)
    \/ StartChat
    \/ UsageEvent
    \/ RecordChat
    \/ Midnight

AccountSpec == AccountInit /\ [][AccountNext]_account

-----------------------------------------------------------------------------
(* Properties *)

\* The page shows one user's account.  The profile is that of the session
\* unless the reader signed in or out while the stored session was being
\* validated; the status is that of the user who is signed in unless another
\* user's was on show or on its way at the sign-in; and when nothing is in
\* flight it shows the words that the server's meter holds, unless two fetches,
\* or a fetch and a chat, overlapped, a chat's usage event or its write to the
\* meter was lost, or the day ended meanwhile.  The uploads on show are not
\* claimed: nothing fetches them anew after an upload (AuthService,
\* BillingService, chat_stream_with_usage).
AccountIsTheReaders ==
    /\ profile = token \/ crossed
    /\ shown # NoStatus /\ token # NoUser => shown.user = token \/ switched
    /\ shown # NoStatus /\ ~SomeInFlight /\ metered = NoChatNow /\ ~switched /\ ~raced
         => shown.words = usage[shown.user]

=============================================================================
