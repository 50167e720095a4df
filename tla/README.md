# A TLA+ model of rcs_server

`rcs_server` sells access to a program. A Discord bot turns a paid order into
an account, an order feed enters the orders, an account checker removes
accounts whose subscription has ended, and a TLS server lets the accounts log
in. All of it is one Windows process with one MySQL database; the threads share
little else. This directory models the core of that process, model-checks it
with TLC, and proves its main invariants with TLAPS.

All paths below are relative to `src/server/`.

## 1. Inventory

| part | code | state it keeps | operations | hard part |
|---|---|---|---|---|
| process | `server.cpp` | detached threads; memory is lost on `exit(-1)` | start; exit from inside any thread | an exit between any two statements of any other thread |
| MySQL access | `dbmanager.cpp`, `dbmanager.h` | tables `users`, `orders`, `sublog`, `connectionlog` | one SQL statement per call, autocommit, a new connection per call | nothing is a transaction; a throwing statement waits for a key, then exits the process; connections are never closed; members `stmt`, `res` are shared where a `manager` is |
| Discord bot | `discordbot.h` | field `auth` of the one bot object | `.auth`, `.reg`, `.unlock`, `.locked`, `.info`, `.help`; status thread | `.reg` is eight to eleven statements; `auth` is one field for everybody; a message that cannot be sent throws into the `catch (...)` that empties it |
| order feed | `clienthandler.cpp:360-507` | one TCP connection, `recvbuf` | accept, report, insert | question and insert are two statements; the peer's close ends the process; `start()` runs twice |
| account checker | `clienthandler.cpp:512-573`, `dbmanager.cpp:472-482` | the list of uids of the pass | every ten minutes: test, copy to `sublog`, delete | uninitialised clock fields, a date cut in UTC and read in local time; accounts without an end date; removal beside `.reg` |
| client handler | `clienthandler.cpp:1-355` | `ssl`, `client`, `clientAddr`, `clientlist`, one `manager` | accept loop, one thread per connection: `F`, `L`, ping | members handed over by sleeping 250 ms; unsynchronised vector; shared `manager`; hwid check-then-set; no re-check after login |
| log | `includes.h:47-93` | none | prints | none |
| TLS wrapper | `ssl.cpp`, `ssl.h`, `z.h` | `PendingRecvData`, `ExtraData`, `hCtx`, `InitContext` | handshake, `s_ssend`, `s_recv`, `s_rrecv` | records and flights cut and joined by TCP; a network that ends in the middle. In no build file: the program talks through OpenSSL |
| `md5.h`, `strptime.h` | third-party | none in the program | `MD5` and `strptime` are never called | none |

Interactions: the bot, the feed, the checker, the status threads and the client
threads meet only in the tables. The bot's `.reg` inserts into `users` and
updates `orders`; the feed inserts into `orders`; the checker reads `users` and
`orders`, inserts into `sublog` and deletes from `users`; a login reads `users`
and sets `hwid` and `locked`. The client threads also share the members of the
one `clienthandler`: the connection handed over, `clientlist`, and one
`manager`. Every thread can end the process.

What makes each part correct:

* the feed enters an order once, though it reports it as often as it likes;
* the bot spends an order once, and opens no account for one whose
  registration came to its end; accounts have unique names and Discord ids;
  the account being registered stays until it is dated; a paid order gives a
  dated account and an unpaid one does not;
* the checker removes only dated accounts, never loses one without a log
  entry, and logs the order that really opened the account;
* all of that across an exit between any two statements, where it can hold;
* a registration settles and a pass ends if the thread is allowed to run;
* each connection is served by its own thread; `clientlist` is meant to hold
  the connections that are served;
* a statement is answered with its own rows;
* a login binds and locks an account only as presented passwords justify; a
  session lives on answers to its last ping, and a leaver is noticed;
* what the bot registers can sign in, and messages and reports arrive as their
  fields;
* the TLS wrapper delivers the bytes written, in order, and its calls return.

## 2. Modules

```
DbManager  <-- DiscordBot ----\
           <-- AccountChecker --+-- Server <-- ServerProofs
           <-- OrderChecker ---/      |   \<-- MCServer
                                      \--- implements AccountLifecycle
ClientHandler <-- HandoverProofs         Login <-- LoginProofs, MCLogin
SharedManager <-- ManagerProofs,         Session <-- SessionProofs, MCSession
                  MCSharedManager        StatusChanger <-- StatusProofs
Text <-- OrderWire --+-- TextProofs      MCOrderWire --> OrderWire
     <-- Messages ---/                   MCMessages --> Messages
SslHandshake --\
SslStream -------- SslConnection <-- SslProofs      SslStream implements ByteStream
```

The database and its threads:

* **DbManager** - the tables and every statement of `class manager` that the
  bot, the feed and the checker send, one operator per statement. `users` is a
  partial function from uid to row, `orders` and `sublog` are sequences of rows,
  `nextUid` is AUTO_INCREMENT, `now` the clock. Methods that send several
  statements (`getUid`, `setSubDate`, `expiredUser`) are cut into their
  statements by their callers. `doesOrderExist` and `isOrderRedeemed` read the
  order ids and then each order: they count as one read, because orders are
  never deleted and only the bot, which asks, changes a row. A `DATE` is a day
  number; `DateOf` cuts a time to it in UTC, as `gmtime` does.
* **DiscordBot** - `.auth` and `.reg`. `bot.pc` is the manager call that comes
  next; `getUid` is a two-statement subroutine with the continuation
  `bot.then`. `sendMessage` may throw. A refusal before the first write
  (`Refuse`) returns to `idle` and keeps `auth`, unless telling the author of it
  throws: then, as when `getUid` or the warning about an unpaid order throws,
  the `catch (...)` of `.reg` (`Caught`) empties `auth` and leaves the rest as it
  is. A throw outside `.reg`, or in that `catch`, ends the process. The bot
  handles one message at a time (`USER_CONTROLED_THREADS`, one `run()`). Taken
  for granted: no order has the id "empty". `authed` and `opened` are history:
  whose `.auth` was accepted, and for each uid its order, the time it was dated
  and whether its registration came to its `redeemOrder`.
* **AccountChecker** - the pass: snapshot of the uids, the comparison, the
  three statements of `expiredUser` that matter. `mktime` turns the date back
  into a time: its `LocalMidnight` in one of `ZoneOffsets` (the server may stand
  anywhere, and its offset may change between the two conversions), with what
  the unset `tm_hour`, `tm_min`, `tm_sec` add, any of `TmGarbage` (an `mktime`
  that fails is a very negative one). `SweepFaults` is the read past the end of an
  empty vector for an account without end date; in the compilers this code is
  written for it dereferences null.
* **OrderChecker** - the feed: `feed.run` tells the constructor's `start()`
  from the second one. A report is an order id, a level and a paid flag from
  small sets: the program that sends it is not in the repository.
  `reportedPaid` is history.
* **Server** - the threads composed over one database, `Exit` (all memory is
  lost, the tables survive), `SqlThrows` (any statement of a thread, the
  first of a message too: it waits in `system("pause")` while the others go on)
  and `KeyPressed`, the faults (the build's `/EHsc` does not turn them into
  exceptions a `catch (...)` would see), `Restart`, `TimePasses`; the
  properties; the inductive invariant `IInv`.
* **AccountLifecycle** - what the server promises: an order is listed once and
  spent at most once, an account is opened against a listed unspent order under
  a fresh uid, archived, and only then closed. `Server!Lifecycle` maps the
  tables to it.
* **SharedManager** - how a manager runs a statement: a new connection in the
  member `stmt`, the result set in the member `res`, the loop over the rows.
  `manager` says which one each thread calls. A thread that executes on a
  connection which is in the middle of a statement throws (external: what the
  MySQL connector does).
* **StatusChanger** - the status threads, one more for every READY event, that
  count the accounts of a level one query at a time while accounts come and go.

The client threads:

* **ClientHandler** - the accept loop up to its `SleepEx(250)`, a thread per
  connection that copies the members `clientAddr`, `ssl` and `client`, and
  `clientlist`, whose `push_back` and `erase` are two steps each (the elements
  move, then the size) beside which other threads read and write it: there is no
  lock. A write that meets another access is undefined behaviour: from then on
  the vector is `torn`, a loop over it may find anything or end the process,
  and nothing is said of its content. That it does not damage other memory is
  an assumption. `Timely` says whether a new thread has copied the members
  before the loop writes them again, which the code only hopes for.
* **Login** - one thread per connection, from the `L` message to the session:
  `session[c].pc` is the statement that comes next, `getUid` again a subroutine
  of two statements. The columns of `users` it needs are its own `users`;
  `Register`, `Remove` and `Unlock` are what the bot and the account checker do
  to them. Every statement gets its own answer, as if each thread had its own
  manager. The name of a removed account may be registered again, as
  `doesUsernameExist` has it. `UnpaidOrders` says whether `.reg` is given unpaid
  orders. `knew` (the machines that presented an account's password),
  `overlapped` (names two threads logged in at a time) and `owners` (the accounts
  ever registered under a name) are history.
* **Session** - the pings after a login. A ping stands for its moment, two
  moments have different texts; the client may do anything but guess a text it
  was not sent. `amiss` is history.

Conversions:

* **Text** - `explode` and C strings. `Reading` is the loop of `explode` after
  each number of characters, `Turn` one turn of it; `Fields`, the maximal runs of
  characters other than the separator, is the reference definition.
* **Messages** - characters as their codes: what `.reg` accepts, the XOR with
  `'#'` (three bits flipped) and the C strings around it, the login message and
  its answers, with the character 26 that makes the server pass over a message.
* **OrderWire** - the feed's `recvbuf`, which is never cleared: its content
  before the first report (`Garbage`, any set of contents), what a report leaves
  of the one before, what lies behind it, and reports cut and joined by TCP
  (`WholeReports`).

The TLS wrapper, which is in no build file:

* **SslHandshake** - `ClientInit`, `ClientLoop`, `ServerInit`, `ServerLoop` over
  two byte streams; a flight is `Size` cells, which arrive in any pieces. A
  `ssend_p` on a connection that fails sends less of a flight and makes its loop
  return -1. Left out is that `recv` is offered 64 KB behind what is already in
  the buffer of 68 KB, which takes pieces longer than that.
* **SslStream** - `s_ssend`, `s_recv` and `s_rrecv`, with `ExtraData` and
  `PendingRecvData`; it implements **ByteStream**. A cell of the wire carries
  how many cells follow it in its record and the last byte written that does
  not lie behind it, so that a cut between any two cells is visible. The socket
  may be closed or the network fail at any moment, within a record too. Of
  `DecryptMessage` it is assumed that a close notification leaves no buffer of
  the type data, though `s_recv` passed one in.
* **SslConnection** - the one after the other on one connection.

SChannel itself (what a flight or a record is, when one is complete) is
external.

Left out of the modelled statements: passwords in `Server`, dates of creation
and of orders, `subscriptionStart`, the name and level columns of `sublog`.
Nothing the modelled code decides depends on them.

## 3. Runs

| run | question | result |
|---|---|---|
| `core` | do the tables stay consistent through every interleaving, exit and restart, and implement `AccountLifecycle`? | yes |
| `live` | with a clock, zones and throwing statements and messages: does an order register once, do registrations settle and passes end? | yes, under the fairness below |
| `login` | are machines bound and accounts locked only as the presented passwords justify, whatever happens beside a login? | yes: a machine by a password of an account of that name; an account by two machines, if its name was always its own |
| `handover` | is every connection served by its own thread, though the threads race for `clientlist`? | yes, if `Timely` |
| `private_managers` | is a statement answered with its own rows? | yes, for threads with a manager each |
| `reports` | is an order entered as it was reported, over a buffer of any content? | yes, for whole reports: date and product, and a paid order as paid |
| `messages` | do plain names get in, do messages arrive as their fields? | yes, up to the first `'#'` |
| `session` | is a session kept and closed for a reason, is a leaver noticed? | yes |
| `status` | do the slots shown lie between those held? | yes |
| `tls` | does a handshake end clean or for a reason, is the stream the bytes written, do the calls return? | yes |
| `broken_accounts` | does the pass skip accounts without end date (`clienthandler.cpp:532`)? | no: it ends the process |
| `shared_manager` | is a login told what the database says to its question (`clienthandler.cpp:218`)? | no: two client threads share a manager |

Bounds. Two of what competes, and one row more than one thread can be at, is
what the interleavings need:

* `core` has two orders, names and people: two registrations compete for a
  name, an id or an order. `MaxUid` bounds the accounts ever created,
  `MaxRestarts` the restarts (one lets every half-done registration or removal
  meet a fresh process). The clock stays at 0: `AnyOffset` and `WildDates` hold
  one value far below and one far above all dates, so that every account may
  already be expired or not, and zones would add nothing to that. `MayThrow` is
  empty: a thread that waits for a key adds nothing a slow thread does not do,
  and the exit that follows is reached through the feed. Messages do throw.
* `live` has one order, name and person, the unknown product code (level 0)
  beside a known one, zones of half a day to both sides, one restart, and a clock
  of two ticks where a day is two and the short term one day: an account expires
  and may be removed while the bot is in `.reg`, and its order authorised again.
  Everybody may throw. No symmetry.
* `login` has two connections, machines, names, passwords and accounts: one
  account and its double for what a wrong row would be, which may be registered
  under the name of the first once that is removed (`MaxUid`), and two machines
  that compete. A login that is alone with its account is reached by the other
  connection being elsewhere.
* `handover` accepts three connections: one leaves the list before, between
  and behind two others, beside one of them or the accept loop.
* `private_managers` and `shared_manager` have two threads with two queries
  each, answers of no row, one and two, and one of another column;
  `MaxConnections` is one less than they send.
* `reports` sends three reports of which each may be shorter or longer than
  the one before, over a buffer of two stretches of any two kinds of character,
  wherever they meet.
* `messages` has names of one and two characters of every kind that the bot,
  the login, `explode`, the XOR or the receiving loop treats in its own way.
* `session` has five moments, one more than messages can hold, with texts of 14
  to 19 characters, on both sides of the limit of 16; two messages may wait.
* `status` has two threads and two accounts of different levels.
* `tls` has flights of three cells, five bytes in records of at most four, and
  rooms of up to three: a record is longer than a room and a room may take the
  end of one record and the start of the next.

Deadlock checking is off because the process may really stop: no restart left,
the feed's thread ended, nobody writing; a connection has ended.

Fairness. `live`: weak fairness of the bot's and of the checker's own next
step, their faults included. The threads are detached, never block each other
and wait only for MySQL; a statement that throws is not excluded (the thread
then waits for a key, which the properties allow for). `session`: the thread's
steps and the passing of time; nothing of the client. `tls`: the two programs'
next calls in a handshake, that a program closes a socket whose handshake it
gives up, and that a call of `s_recv` that can go on does; nothing of what is
sent or when. Nothing is assumed of messages, of the feed, of the operator, of
the network.

In `live` time passes between any two statements; in `core` it stands still.

## 4. Properties

| property | hazard |
|---|---|
| `UniqueOrders` | the feed asks and inserts in two statements; `getOrder` reads the last of several rows |
| `UniqueAccounts` | `.reg` checks name and id and inserts in three statements |
| `AuthUnredeemed` | the order in `auth` is spent or lost between `.auth` and `.reg` |
| `NewAccountStable` | a pass removes the account between two statements of `.reg` |
| `GoneIsLogged` | an exit between copy and delete |
| `SublogOrderSound` | `expiredUser` reads the order before or after `.reg` redeems it |
| `AccountMatchesOrder` | payment is read, dated and redeemed in separate statements |
| `RedeemedOnce` | an order redeemed with uid -1 is taken for a free one |
| `ImplementsLifecycle` | all the tables together, step by step |
| `OneRegistrationPerOrder` | the account is removed before `.reg` redeems its order, a statement or a message throws, the process ends: an order that was redeemed with no account, or is half redeemed, is free again |
| `RegistrationSettles`, `SweepEnds` | a thread that stops half way |
| `BindingNeedsPassword` | the account is removed, or its name taken again, between two statements of a login |
| `LockNeedsTwoMachines` | a login compares its hwid with a stale or missing one and locks the owner out |
| `OneMachineOnline` | the hwid of a bound account is replaced, by a login that began with another account of its name too |
| `OneHandlerPerConnection` | a thread copies members that the next accept has overwritten |
| `AnswersOwnQuestion`, `ThrowsOnlyIfRefused` | another thread's result set or statement object |
| `EnteredAsReported` | the tail of an older report behind a shorter one |
| `PlainNamesCanSignIn`, `FieldsArrive` | bot and login disagree on characters; XOR makes a terminator |
| `KeptOnlyByAnswer`, `ClosedForAReason`, `LeaverIsNoticed` | late, repeated and missing answers to pings |
| `SlotsShownWereHeld` | accounts come and go between the uids and their levels |
| `StreamsStartClean`, `FailsForAReason`, `BothReturn` | pieces and joins of flights, data behind the last one, ends within a handshake |
| `ImplementsStream`, `NothingLost`, `ReadEnds` | pieces and joins of records, small rooms, ends within a record |

Each has a mutant: an operator beside the definition it replaces (`X_Never`,
`X_Skip` ...), a plausible slip in that line of the code, under which TLC finds
the property violated.

### Claims the code does not keep

Beside the two violation runs the modules state what texts, comments and names
in the code claim and the code does not do. TLC finds each violated with the
instance named (the cfg with that property in place of its own, and the
constants given):

| claim | instance | what happens |
|---|---|---|
| `RegisteredOnlyAfterAuth` (`discordbot.h:75`) | `core.cfg` | `auth` is one field for everybody: an order accepted from one is spent by another |
| `UnpaidWarningTruthful` (`discordbot.h:218`) | `core.cfg` | a later report that the order is paid is dropped |
| `RemovedOnlyIfExpired` (`clienthandler.cpp:557`) | `core.cfg` | unset clock fields |
| `OneAccountPerOrder` (`discordbot.h:144`) | `core.cfg` | an exit between `addUser` and `redeemOrder`, or a warning that cannot be sent, leaves the order free |
| `SubscriptionLastsFullTerm` (`dbmanager.cpp:440`) | `live.cfg`, `Levels = {1}` | the end is cut to midnight in UTC, and read as midnight where the server stands: east of it more than a day is lost |
| `HwidUpdatedIfNeeded` (`clienthandler.cpp:213`) | `login.cfg` | two first logins at a time |
| `BoundByItsPassword` (`clienthandler.cpp:218`) | `login.cfg` | the name is taken again between two statements of a login: the new account is bound to a machine that knows the old one's password |
| `LockedByItsMachines` (`clienthandler.cpp:218`) | `login.cfg` | the same: the new account is locked |
| `UnpaidCannotUse` (`discordbot.h:218`) | `login.cfg`, `UnpaidOrders = TRUE` | a login asks neither for payment nor for an end date |
| `OneHandlerPerConnection` (`clienthandler.cpp:55`) | `handover.cfg`, `Timely = FALSE` | a late thread serves the next connection, its own is served by nobody |
| `ListIsConnected` (`clienthandler.cpp:265`) | `handover.cfg` | two threads at the vector tear it |
| `LoggedStateIsOwn` (`clienthandler.cpp:183-190`) | `handover.cfg` | `SSL_get_error` is asked of the member `ssl` |
| `ReceivedAsSent` (`clienthandler.cpp:462`) | `reports.cfg` | "null" with an old tail becomes a payment |
| `OrdersKeepComing` (`discordbot.h:75`) | `reports.cfg`, `WholeReports = FALSE` | a report in two pieces ends the process |
| `RegisteredCanSignIn` (`discordbot.h:266`) | `messages.cfg` | names with quotes, parentheses or dashes |
| `HonestClientStays` (`clienthandler.cpp:197, 213`) | `session.cfg`, `Honest = TRUE` | at some moments the ping is shorter than 16 characters |
| `SilentClientTimesOut` (`clienthandler.cpp:155`) | `session.cfg` | the timeout is filled in and never set |
| `SentAll` (`ssl.cpp:385`) | `tls.cfg`, `Header = 2` | what was sent of a record's part may equal what was to be sent in all |
| `SplitHelloAccepted` (`ssl.cpp:673`) | `tls.cfg`, `SplitHello = TRUE`, `MayEnd = FALSE` | `InitContext` is set although no context was made |
| `ExtraDataKept` (`ssl.cpp:535`) | `tls.cfg` | the block that kept it is commented out |
| `ZeroIsSuccess` (`ssl.cpp:443`) | `tls.cfg` | 0 is also returned when the peer closes |

## 5. Proofs

Every theorem holds for every set of orders, names, people, connections,
threads or queries, every term and clock resolution, every garbage date and
offset, and every bound. The assumptions are the named ones on the constants:
NULL is no id and no number, levels are 0 to 4, a day is at least one tick,
"empty" is not an order id (`.auth` refuses messages shorter than 16
characters), "not_set" is no machine, a record's header and trailer together
are at most eight times what it carries (bytes against 16 KB; `s_recv` receives
up to nine messages into room for ten). What a theorem assumes beyond that is
in its statement. The bounds of the runs (`MaxUid`, `MaxConns`, `MaxQueue`, ...)
are constants too: a theorem holds for each value of them. For the texts: a
report fits the buffer and has four fields, and hash and machine hold none of
`'#'`, `'-'` and the character 26.

**ServerProofs**: `Spec => []P` for `TypeOK`, `UniqueOrders`, `UniqueAccounts`,
`AuthUnredeemed`, `NewAccountStable` and `GoneIsLogged`. None of these is
inductive alone. `IInv` adds what each thread knows between its statements:

* `FeedInv`: the order about to be inserted is still unknown (only the feed
  inserts). Needed for `UniqueOrders`.
* `BotInv`: the name, then the id, found free are still free (only the bot
  inserts); from `.reg` to its end `auth` holds an order. Needed for
  `UniqueAccounts` and for the type of what `getOrder` returns.
* `SweepInv`: the account being removed exists and is dated, and is logged once
  the pass is at its delete. Needed for `GoneIsLogged`, and, with "dated", for
  `NewAccountStable`: the pass cannot be at the undated account of `.reg`.

`UniqueOrders` in turn makes the one row of `auth` the row whose `uid` was
seen to be NULL, which is how `AuthUnredeemed` starts. The proof has one lemma
per action of a thread, and under it a step per conjunct that the action can
disturb; lemmas `TablesStay`, `BotQuiet`, ... carry over what it cannot.
`LastRowExists` (a result of several rows has a last one) rests on the
library's well-foundedness of the naturals.

The second part of the module: the server implements `AccountLifecycle`, and
`RedeemedOnce`. Under `IInv` five statements are steps of the abstract
specification (the feed's insert is `List`, `.reg`'s insert is `Open`, its last
update `Spend`, the checker's copy `Archive` and its delete `Close`) and all
other steps stutter (`QuietStep`). `AuthUnredeemed` gives `Open` and `Spend`
their guard, `FeedInv` that of `List`, `SweepInv` that of `Close`.

The third part: `SublogOrderSound` and `AccountMatchesOrder`, from `OrderInv`.
It adds that the uid in `orders` was given out already, that the order read for
the log is the account's (`LogInv`), and what `.reg` knows of its order and its
account (`BotOrderInv`): from the insert on the name belongs to no other
account, no order carries the new uid, `getUid` can only answer with it or with
-1, and the end date is set exactly if the order is paid.

The fourth: `OneRegistrationPerOrder`. `RedeemedInv` says that the order of
every account whose registration came to its `redeemOrder` has a uid other than
0 (-1 when the account was gone), and that from `addUser` to the end of `.reg`
the order in `auth` is the one the account was opened with. So the next `.auth`
refuses it, whatever was thrown, sent, removed or restarted since. That an order
opens one account at all is false (section 4): between `addUser` and
`redeemOrder` an exit, or a warning that cannot be sent, leaves it free.

**LoginProofs**: `BindingNeedsPassword`, `LockNeedsTwoMachines`,
`OneMachineOnline` and `TypeOK`, with names that are taken again. A login
looks its account up by name in statement after statement, so `LoginInv` says
what the name means: `NameInv` (past `checkPassword` the checked account is
among the `owners` of the name, and the row that has the name as long as it
exists), `UidInv` (`getUid` answers with an account of that name, and with the
checked one as long as that exists), `HwidInv` (an account about to be locked
whose name is unambiguous was presented by two machines; without an
overlapping login the hwid stays "not_set" until the thread sets it, and stays
the thread's own once it is let in), `PairInv` (two threads logging one name
in are in `overlapped`). Lemma `SessionStays` carries a thread's knowledge
over any step of another, from what such a step may do to the tables
(`TablesGrow`, `HwidStays`).

**HandoverProofs**: `Timely => (Spec => []OneHandlerPerConnection)`, for any
number of connections and whatever the list becomes. `MembersInv` says which
connection the members belong to at each statement of the accept loop, `CopyInv`
that a thread still copying is that of the last connection. And `TypeOK`, timely
or not: `SizeInv` counts the connections that were appended, so that until the
vector is torn its size and the index of an erase stay within it.

**ManagerProofs**: `AnswersOwnQuestion` and `ThrowsOnlyIfRefused`, if no two
threads share a manager (`Private`). `ThreadInv` is the loop invariant of the
rows (the answer so far is `UpTo` the cursor of the thread's own result set);
`ConnInv` says that no two managers have one connection, so that nobody else
executes on it.

**SessionProofs**: `KeptOnlyByAnswer`, `ClosedForAReason` and `TypeOK`, for
any clock and any client. `Fresh` (the present moment's text is nowhere until
it is sent) and `PingInv` (a ping under way cannot have been answered) give
the first, `PoliteInv` (a client that did nothing amiss has answered all pings
but the last) the second.

**StatusProofs**: `SlotsShownWereHeld` and `TypeOK`. `CountInv`: of the uids
still to be asked about, those that will count are those that have stayed, so
the count so far lies between the sizes of what has stayed and of what there
was among the others. It rests on uids not being given out twice.

**SslProofs**: for flights of any number of cells, records and rooms of any
size, and any cuts.

* The handshake: `StreamsStartClean`, and `FailsForAReason` if the hello
  arrives whole. `HandshakeInv` divides a handshake in which neither loop has
  given up (`Spoilt`) into six phases, from nothing sent to both ended; each
  says who waits, and that what a side has kept and what is on its way to it, put
  together, is one flight (`Stock`). Receiving only moves the boundary within a
  stock (lemma `Receipt`), so no phase depends on how TCP cuts; a complete stock
  starts the next phase, with nothing behind it that is thrown away, except
  behind the last, where it is data. A loop gives up only for a reason, because
  in no phase is the program gone that the other waits for (`StillThere`).
* The stream: `NothingLost`, `TypeOK` and `ImplementsStream`. The invariant is
  about the `Flow`: `mmsg`, `ExtraData`, the wire and the parts `s_ssend` has
  still to send, as one sequence. It is made of records, the last of which may
  be cut off, and at most a close notification behind them (`Framed`); each
  record's bytes follow those of the one before, beginning after what the
  reader was given or will get from `PendingRecvData` (`Chained`), and as long
  as the network stands they end where `s_ssend` is (`EndsAt`); a record in it
  ends where the calls before that of `s_ssend` end, unless the reader is past
  that (`EndsBefore`), which is what remains if the socket is closed within
  `s_ssend`. `RecvInv` says what `s_recv` may find in its three buffers at
  each point: it receives or decrypts only with nothing kept for the reader,
  and decrypts only with nothing in `ExtraData`, so that no byte overtakes
  another. Receiving moves a boundary within the flow; sending appends a
  record to it; decrypting takes the first record away and gives its bytes to
  the reader. `ReadInv` then gives the refinement: what was read is the
  numbers from 1, so that each step writes, reads the next bytes, or stutters
  (`StreamRefines`).

**TextProofs**: the conversions, for texts of any length over any characters.

* `ExplodeIsFields`: `explode` yields the maximal runs, in their order. The loop
  is a recursive function; `Reads` unfolds it, and what holds after every
  character is shown by induction over a set of numbers (`Upwards`, from the
  library's well-foundedness of the naturals). The invariant of the loop is
  `Between` two runs or `Within` one, over a list `st` of where runs begin
  (`Starts`); `Ranks` says that the k-th of that list is the one `Fields` means.
* What the two users of `explode` need of it: `ExplodeJoin` (the fields on both
  sides of a separator), and `ExplodeExtends` (a text that goes on keeps its
  fields, of which the last may grow). `CStringConcat`: a text without a
  terminator is kept, with the C string of what follows.
* The order feed: `WireSpec => []TypeOK`, whatever pieces `recv` returns. And
  `WholeReports /\ PlainReports => (WireSpec => []EnteredAsReported)`, from
  `WireInv`: what is on its way is the last report sent (`OneReportAtATime`), and
  every report that was read has its order (`ReadIsEntered`), so that an order
  entered now is that of the first report of its id. The text read is the
  report followed by whatever the buffer still held (`TextBegins`).
  `PlainReports` is what that may spoil: the two characters the buffer cannot
  keep, and a payment such as "nul", which an old tail may complete to "null" and
  so enter as unpaid. `MCOrderWire` assumes it, so TLC shows it is satisfied.
  Under the same hypotheses the loop never misses a field (`OrdersKeepComing`,
  false without them, section 4).
* The messages: `ArrivesUpToHash`, because XOR is its own inverse and makes a
  terminator of `'#'` alone (`XorTwice`, arithmetic on 0..127). From it
  `MessagesSpec => []FieldsArrive` and `MessagesSpec =>
  []PlainNamesCanSignIn`, for any names, hash and machine: `LoginUnderstood`
  follows a login of a plain name from its five parts to the answer.

**Only model-checked**: liveness (`RegistrationSettles`, `SweepEnds`,
`LeaverIsNoticed`, `BothReturn`, `ReadEnds`). It needs fairness, and fairness
ENABLED, which the prover does not know.

## 6. Not modelled, and what is left

Not modelled: `klog`, which only prints; the SHA-256 of `hash()`, MD5 and
`strptime`, which compute a value from a text and are called by nothing that
decides (or by nothing at all); the commands that only answer (`.locked`,
`.info`, `.help`), and the statements nothing that changes state sends
(`removeUser`, `removeOrder`, `getUname`, `doesUidExist`); renegotiation and the
making and verifying of certificates in `ssl.cpp`, which are calls of the
Windows API one after the other; `z.h`; the generated build output and `deps/`,
which holds the empty directories of submodules.

Left: the client threads over the same database as the other threads (they are
composed only through `Register`, `Remove` and `Unlock` of `Login`, because the
product is beyond TLC).
