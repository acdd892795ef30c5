# Verification of the EJAnroid client

TLA+ models of the concurrent and event-driven parts of the Android client,
checked with TLC and, where marked, proved with TLAPS for every value of the
constants. Three bodies of code are covered:

- `hJNerpAndroid_12/src/main/java/com/hjnerp` (`java/` below): the chat client,
  its database access, its push connection, and `HjBusiness`, the native half
  of the business documents;
- `hJNerpAndroid_12/src/main/assets/www` (`www/` below): the business documents
  (`dsaord.html`, `dsaordhtml.html`, `newterminal.html`, `index.html`, …) and
  the scripts they run on, `framework7.js`, `cordova.js`, `hjbusiness.js`;
- `librarys/src/main/java/org/apache/cordova` (`cordova/` below): the message
  queue and the WebView between the two.

## Inventory

| Component | Code | State it keeps | Operations | Talks to |
|---|---|---|---|---|
| Read pool | `java/db/Pool.java` | `lists` (created objects), `sets` (in use) | `use`, `unuse`, `destory` | `SQLiteHelper` |
| Database access | `java/db/SQLiteHelper.java`, `java/dao/BaseDao.java` | one writable connection, the pool, the helper's monitor | `getWritableDatabase`, `getReadableDatabase`, `releaseReadableDatabase`, `begin/endDML…`, `begin/endDQL` | every DAO |
| Write worker | `java/db/SQLiteWorker.java` | queue of tasks, one DML thread | `start`, `stop`, `postDML`, `postDQL` | activities post, the thread calls DAOs |
| Push connection | `java/websocket/HjHTTPNotificationManager.java`, `java/service/IMChatService.java` | `stoped`, the listener threads, the handler's queue | `start`, `stop`, `connectServer`, `onNotification`, `reConnect` | server; main thread by `Handler` messages; system broadcasts |
| Session | `java/activity/LoginTask.java`, `LogoutTask.java`, `java/common/ActivitySupport.java` | login flag `forceExit`, session id, preferences | login, logout, kick, invalid session | starts and stops `IMChatService` |
| Contacts and requests | `java/dao/QiXinBaseDao.java`, `IMChatService.java`, `java/activity/contact/*`, `LoginTask.java` | tables `ctlm1355` (contacts), `ctlm13550` (requests) | push handlers, add, accept, remove, details, the lists of a login | server, `SQLiteWorker` |
| Bridge | `cordova.js`, `hjbusiness.js`, `cordova/NativeToJsMessageQueue.java`, `java/business/…/HjBusiness.java` | callbacks of the page, the queue of results, the network state as told to the WebView, the field `callbackContext` | `exec`, `sendPluginResult`, `setPaused`, `popAndEncode`, poll | the documents on one side, threads of the native side on the other |
| Start of a document | `cordova.js`: channels, plugin loader, bootstrap | handlers of each channel, what has fired | `subscribe`, `fire`, `join`, `addEventListener` | document, bridge, back key |
| View and router | `framework7.js`: `app.router`, `handlePopState`, swipe back | pages in the DOM and in the cache, `view.history`, `view.url`, `allowPageChange`, the browser's history | load, back, swipe back, `popstate`, smart select | links, back key, animations |
| Overlays | `framework7.js`: modals; the handlers of the documents | `.modal` elements, `modalStack`, overlays, unanswered calls | `openModal`, `closeModal`, `showPreloader`, `hidePreloader`, `alert` | bridge, taps |
| Gestures | `framework7.js`: fast clicks, swipeout, sortable, side panels | flags that outlive a touch, listeners for transitions | touch handlers, click handler, `openPanel`, `closePanel` | browser's touches and clicks |
| Fields and forms | `framework7.js`: calendar, picker, forms, search bar | strip of months, columns, `formsData` and `localStorage`, the query | taps, drags, `setValue`, store and fill, search | inputs of the page |
| Lists | `framework7.js`: virtual list, infinite scroll, pull to refresh, lazy images; `dsaordhtml.html` | items and their cache, `lastdata`, class `refreshing`, the queue of images | append … move, scroll, refresh, load | bridge, scroll events |
| Groups | `QiXinBaseDao.java`, `ChatPacketHelper.java`, `ContactBusiness.java` | `ctlm1357`, `ctlm1358` | create, join, leave, drop | as contacts |
| Chat with a friend | `java/activity/im/ChatActivity.java`, `reSendMsg.java`, `ChatListTypeAdapter.java`, `HJWebSocketManager.java`, `QiXinBaseDao.java`, `IMChatService.java` | `ctlm1356` (`flag_send`, `flag_read`), `message_pool`, the queue of `AsyncTask`s, broadcasts | open, leave, send, resend, receive, fill again, delete | server, push connection, contacts |
| Push framing | `java/websocket/JsonValidator.java` | the text read so far | validate | push connection |
| Lua forms, base data, UI, attachments, updates, old managers, transport stubs | `java/business/**`, … | — | — | not modelled, see below |

What is hard in it. On the Java side: threads that share one unsynchronised
flag (`stoped`) and one nested monitor (helper and pool); three kinds of threads
that write the same tables without a common lock; packets that come again
because their answer was lost; tasks that outlive the screen whose objects they
write; a process that can die at any moment. Between
the sides: results that reach a page in two ways, one of them an event that the
WebView fires only when it believes that the network has changed. In the page:
one thread, but every operation is cut into pieces by animations, timers and
answers, and taps, swipes and the back key come between the pieces.
`PROJECT.json` lists the hazards at their lines with the properties that watch
them.

## Modules

| Module | Models | Extends / uses |
|---|---|---|
| `Lending` | abstract: a stock of things, each lent to at most one thread | |
| `Pool` | `use`/`unuse` with `wait`, `notifyAll`, spurious wakeups, a failing `create` | refines `Lending` |
| `SQLiteHelper` | the helper's monitor around the pool, the callers of `BaseDao` | composes `Pool`; refines `Lending` |
| `PushConnection` | the listener threads, the service and the session around `stoped` | |
| `Contacts` | contact and request tables, their writers, the server and the peers | |
| `Chat` | the messages of one friend: rows, screen, sending tasks, service, broadcasts | |
| `Bridge` | a call of a document to the native side and the way back | |
| `Router` | pages, url, view history and browser history | |
| `Overlays`, `Startup`, `Taps`, `Swipes`, `Panels`, `VirtualList`, `Calendar`, `Picker`, `Forms`, `Searchbar`, `OrderList`, `PullToRefresh`, `LazyImages` | one part of a page each, its state a record | |
| `DocumentParts`, `PageParts` | one behaviour for each part of a page; `PageParts` adds the virtual list, the picker, the images and the router to the ten parts of `DocumentParts`, and has the specification | instantiate `Router` and the thirteen above |
| `MCSQLiteHelper`, `MCChat`, `MCPageParts` | the instances TLC checks: symmetry, the documents of the repository | |
| `PoolProof`, `SQLiteHelperProof`, `PushConnectionProof`, `ContactsProof`, `ChatProof`, `BridgeProof`, `DocumentPartsProof`, `PagePartsProof` | the theorems | |

Definitions whose comment ends with "is a mutant" (`MayCreateMore`,
`HandUnmarked`, `AckFirst`, …) are not part of the model: they are plausible
bugs of the definition next to them, and TLC finds the matching property
violated when they take its place.

### Pool

`lists` counts the created objects, `sets` are those in use, `pc[t]` says where
thread `t` is (`idle`, `waiting`, `woken`, `using`), `got[t]` what it holds. A
`synchronized` method that does not wait is one action: `UseFree`, `UseCreate`,
`UseCreateFails`, `UseWait`, `Unuse`. A thread in `wait()` gives the lock up, so
the search after it is an action of its own (`ResumeFree`, or `ResumeNull` when
`use` returns null). `MayCreate` is the code's `lists.size() <= maxSize`: the
pool creates `maxSize + 1` objects, one more than the comment at `Pool.java:19`
("indicate how many T object live") suggests; nothing else depends on it.

### SQLiteHelper

`monitor` is the thread that owns the helper, `writer` the thread in a
transaction, `task[t]` what a thread is doing (one of `BaseDao`'s calls). The
variables of `Pool` are its own, taken with `INSTANCE`. The point of the module
is `getReadableDatabaseWaits`: `Pool.use` waits on the pool's lock only, so the
thread keeps the helper's monitor and no `releaseReadableDatabase` can enter.

### PushConnection

`pc[w]` follows listener thread `w` through `connectServer`: `none`, `born`
(made by `start`), `init` (it saw that somebody is logged in), `post` (request under way), `read`, `got` (a chunk came),
`offer`, `deliver`, `fail`, `end`. `stoped` is the one flag that all of them
read and write; it is not `volatile`, but every read of it follows a blocking
native call, so reads are modelled as fresh. `inbox` is the `Handler` queue,
`forceExit` the login flag on disk (`isForceExit`, true while somebody is logged
in), `service` the life of `IMChatService` (`off`, `on`, `stopping` between
`stopService` and `onDestroy`, `sticky` while the system is about to start it
again), `leaving` the first half of a logout, `kicked` that of a kick:
`handleMessage` clears the flag on disk (`IMChatService.java:352`) and
`stopService` (line 355) is a step of its own, so that the process may die
between the two and the system start a service with nobody logged in. `onStart`
does not look at the flag either (`MainActivity.java` starts the service whoever
brings it up); it is `initChatManager` that does, so `url` (the manager has its
address and its listener, in this process) and `manager` (the running service's
`notificationManager` is set) are variables: a service that was started before
the login leaves the listener alone when it is destroyed, and a thread that a
broadcast makes before there is a URL throws outside of the `try` and takes the
process with it (`NoUrl`). `httpClient` tells whether a client was ever made: if
not, a thread whose `initHttpClient` fails ends without a retry
(`InitFails`, `HjHTTPNotificationManager.java:92-96`).
`ReConnectReceiver` is not declared in the manifest, so a tick of the polling
alarm reaches nobody; what reconnects is `reConnect`, run on a system broadcast.
`CrashHandler` is not installed: an uncaught exception is `ProcessDies` (or `NoUrl`).

### Contacts

`contact[p]` is the flag of the row in `ctlm1355` (`none` without a row, `Y` a
friend, `N` a member of a common group), `temp[p]` the row in `ctlm13550` (who
asked whom, and whether it was accepted). Every DAO call is a transaction of
its own and is one "op"; who runs several of them leaves gaps for the others:

- the main thread: `handleMessage` reads the tables and plans (`todo`),
  `MainWrites` runs one op, `Acknowledge` answers the packet (the answer may be
  lost, then the packet comes again);
- `SQLiteWorker`: `WorkerWrites` takes the next op of `dml`, first in, first out;
- the user: `Request` reads the table and sends (`call`), `Serve…` is the
  server's decision, then `Answered`, `Asked`, `Removed`, … post to the worker
  or write at once, as the activity does;
- the lists of a login, `LoginTask.login`: `FetchFriends`/`StoreFriends` and
  `FetchMates`/`StoreMates`. The list of members comes as the server makes it,
  friends included (`ChatPacketHelper.java:290-301` filters nothing), so it may be
  any subset of `Mates`, and its members are written with flag `N`.
  (`ContactFragment` has the same code, but its tab is commented out in
  `MainActivity.java:264-267` and `284-287`: nobody makes one.)
- `ProcessDies` drops everything that is not in a table or at the server.

`friends`, `asked` and `push` are the server (external). The columns other than
flag and request state are left out; the chats are `Chat`. Of a packet about a
group only what it does to contacts is modelled, the members written with flag
`N` (`IMChatService.java:359-372, 503-505`), one member to a packet; packets about
groups of one's own that return without an answer are left to the groups.

### Chat

`own` and `inbox` are the two flags of the rows of `ctlm1356`, `pool` and `seen`
what `message_pool` holds of them. A row may be on the screen as several
objects (a list is loaded while a task still keeps the object of an earlier
list, or filled with rows it has): an object is a pair of message and copy, and
`bean` has its status. `tasks` is the serial executor of `AsyncTask`, its head
the task that runs: `TaskStarts`, `ServerTakes`, `Answered` or `PostFails`, and
for an attachment `TaskUploads`, `UploadEnds`, `LoopEnds`, `UploadSaved`: the
callback of an upload first sets `fileSend`, which ends the task's loop and lets
the next task start, and only then writes the status (`owed`). `getView` is any
layout of the list; it makes a task for each object under way, as
`ChatListTypeAdapter` does. `saveData` writes the object and then its row, on
one thread; what happens between the two might as well happen before or after
them, so `saveData` is one step. `processPacketMsg` stores, broadcasts and
starts the thread that acknowledges; a packet that is not acknowledged comes
again. `bean[b].left` is history: the posts that writing, loading and resending
an object have asked for. `Text` stands for messages of one request, `File` for
those with an upload; both kinds of upload follow `reSendPicMsg`.

### Bridge

A call is four steps on three sides: `Call` (the page: `exec` registers the
callback and pauses the queue), `Execute` (`HjBusiness.execute` stores the
context in its field and starts the action), `Pop` and `Resume` (`jsExec`
returns what is in the queue and unpauses it). `Answer` is an asynchronous
action on its own thread, which answers through the *field*, not through the
context it was called with. `Available` runs on the UI thread and tells the
WebView a network state; only if that is a *change* does an event reach the
page, and `Poll` is its handler. `Tick` is a scheduled `processMessages`, which
handles one message and schedules the next. The batches of
`messagesFromNative` are put in a row: they are handled in the order in which
they were pushed, one message at a time.

### Router

The chain of synchronous calls from a tap to the start of an animation is an
operator on the record `view` (`Load`, `Back`, `AfterLoad`, `AfterBack`,
`HandlePopState`, `PushStateClearQueue`); the events that start a chain are the
actions. `view.shown` are the pages that are not cached, in DOM order, `on` the
class `page-on-left/center/right`, `entries` and `at` the browser's history.
`history.back()` is `pending` until `PopState`; it takes milliseconds, while
animations take 400 ms, so nothing ends and nobody taps meanwhile. The
assumptions on a document are those that hold in this repository: `domCache`,
`preloadPreviousPage`, animated pages, swipe back on, links without a cycle, no
links where the back key is left to the browser (`fee.html`, `newterminal.html`
and `index1.html` have one page, with smart selects), and no navigation of its
own while a finger moves a page. `RouterAssumption` states those about links.

### The parts of a page

Each module has one variable, a record, because its handlers call each other
and change it several times before they return; an action is one handler with
all it calls. A field that ends a record with the comment "history" is none of
the code: it marks what a property has to look back at, or a case in which the
code loses step (below, "Seen, without a run").

- `Overlays`: alerts, preloaders, sheets, the stack of modals, and what the
  documents do when a call is answered (`Papers`, one record per document).
- `Startup`: channels and `join`, from `DOMContentLoaded` to the back key. In
  `cordova.js` subscribing, firing and the handlers call each other; with these
  channels the calls nest two deep, so that `Run` is the call of a handler and
  `Call` one from within it, and `Subscribing`, `Joining` and `Firing` take the
  one they make as a parameter.
- `Taps`: `touchstart`, `touchmove`, `touchend` and `click` of `initFastClicks`
  with what the browser does between them (its own click, the click of a label
  on its input, two fingers, a cancelled touch).
- `Swipes`: swipeout and sortable, whose handlers share `allowSwipeout`, with
  rows that collapse while others are touched.
- `Panels`: the two side panels; `listeners` are the handlers that wait for the
  end of a transition, `moving` the elements that have one. A drag to the very
  edge leaves its listener without a transition to wait for.
- `VirtualList`: items, the cache of rows by index, search and scroll. Indices
  start at 0, as in the code. `ReplaceItem` is taken only while nothing is
  searched for, and `DeleteItems` takes two indices; beyond that the code does
  not keep the rows (below).
- `Calendar`: the strip of months with each month's place, `TapMonth`,
  `TapYear`, days of the neighbouring months, drags, and the end of the
  transition that mends the strip.
- `Picker`: two columns of which the second depends on the first by
  `replaceValues`, and the input.
- `Forms`: a form of class `store-data`, its copies in memory and in the local
  storage, and the ajax classes that send it.
- `Searchbar`: the bar, its 0 ms timer, and the list it searches.
- `OrderList`: the tabs of `dsaordhtml.html` with the timer and the calls of
  the infinite scroll, answered in any order.
- `PullToRefresh`: the pull by touch and that of the JavaScript scroller, and
  what ends a refresh.
- `LazyImages`: images that load in sequence or all at once.

`PageParts` is not one page in which all of these run at a time: a behaviour
picks a part and stays with it. The parts share no state but the DOM below
different elements, so that their product would show nothing that each of them
does not, and what a part suffers from another (a page that is left, a call of
the program, an answer) is an action of its own module.

## Runs

| Run | Instance | States | Shows |
|---|---|---|---|
| `pool` | 4 threads, `maxSize` 1 | 383 | exclusive use, no lost wakeup, every waiter comes back, refinement of `Lending` |
| `helper_live` | as many threads as connections | 1,006 | nobody ever waits; every query and transaction is served |
| `helper_safe` | one thread more than connections | 551 | a waiter owns the monitor, no release wakes it, no query begins or ends meanwhile; refinement of `Lending` |
| `helper_lockout` (violation) | same | | `ReleaseReturns` fails: the finding below |
| `push` | 2 listeners, 2 queued packets, triggers that keep coming | 96,353 | the flag is never FALSE without a listener; nothing is delivered between a stop and the next start once the threads in between are gone; no listener connects after a logout; a dropped connection is started again; a kick logs out and closes the connection |
| `push_two_listeners` (violation) | 2 listeners | | two `start()` in a row make two listeners |
| `push_no_retry` (violation) | 1 listener | | without a new broadcast nothing reconnects |
| `contacts` | 1 peer, 1 packet, every request | 460,912 | `StrangersStayOut`; a waiting consent and a waiting removal arrive |
| `contacts_shift` (violation) | 2 peers | | accepting one request makes contacts of all |
| `chats` | two texts, a text and a message of the friend, or an attachment | 265,315 | a row that says sent is at the server; nothing is posted more often than asked for; what was acknowledged is kept, what is stored is shown; no message stays under way |
| `bridge` | 2 calls of any kind, 2 events | 380,990 | results reach the page in order and once, and all of them; an answer is its own call's while calls do not overlap |
| `page_parts` | see `MCPageParts.cfg` | 155,380 | one property or two for each part of a page (below) |

What `page_parts` checks, part by part: `OneModal` and `PreloaderGoes`
(`Overlays`); `ReadyOnce` and `ReadyComes` (`Startup`); `TouchesAgree`, which is
`TapOnce` of `Taps`, `OneRowOpen` of `Swipes` and `PanelsAgree` of `Panels`;
`FieldsFollow`, which is `MonthShown` of `Calendar`, `FieldFollows` of `Picker`,
`FormKept` of `Forms` and `ListMatches` of `Searchbar`; `ListsComplete`, which
is `RightRows` of `VirtualList`, `ListComplete` of `OrderList`, `PullSettles` of
`PullToRefresh` and `NoneLeftOver` of `LazyImages`; `PagesAgree`, which is
`ShownIsTop`, `PagesKept` and `BrowserInStep` of `Router` (three documents with
views of four pages), and `NavigationGoesOn`, its lock. A property
of several parts has a mutant in each of them.

Bounds. Two listeners let one that was stopped but still blocks in `read` meet
one that is being started; the invariants are proved for any number. Two packets
in the handler make an older one come before a newer one. One peer is enough
for `contacts`, because the only op that touches several rows is the shift:
that one is what `contacts_shift` needs two peers for, and `NoStrangers` is
proved for any number. `MaxOps` is the number of queued ops at which nothing
more is posted (a post may then exceed it by its own length); the user has one
request under way at a time; `MaxPush` limits what peers may send. One login runs
at a time. In `bridge` two calls
overlap in every way and two events come between them; order and own answers
are proved for any number. The scenes of `chats` are two texts whose
tasks queue up, a message that arrives while one is sent, and an attachment
whose tasks queue behind its own upload (larger scenes only interleave these,
and the safety properties are proved for any);
`MaxTasks` 2 lets a second task of an object wait behind the first, or behind
one that hangs; `MaxCopies` 2 is a row on the screen beside the object that a
task keeps, and what would need a third is cut off by `AllFresh`; `MaxCasts` 1
is a broadcast on its way. In `page_parts` four pages in a view give one on screen,
one to its left, one further back and a smart select on top, and a queued
navigation behind a running one; a fifth only makes the history longer;
there are three items with two rendered (the cache holds what the
page does not), three rows (one open, one swiped, one that goes), modals up to
four (one shown, one leaving, two that wait), fifteen months (a bound on either
side and a turn of the year), two columns, one field of each kind, two queries
of which one narrows the other, four orders in answers of two (three answers),
two calls at a time, and three images of which one has nothing to load.

Fairness. `Pool`, `SQLiteHelper`: a thread that can go on does, which is what
the Java scheduler gives; wakeups without a notify are possible and never
relied on; strong fairness where a monitor or SQLite's writer lock is contended.
`PushConnection`: `FairSpec` has weak fairness for the threads (`Goes`) and for
the handler's queue. It is strong in three places: for posts, because only the
bound `MaxInbox` makes them wait; for `onDestroy`, which the main thread takes in
its turn though other callbacks come between; and for a thread's way to its
connection, which says that `initHttpClient` does not fail for ever. Nothing is
assumed of the server, of the user or of the life of the process. `TriggeredSpec`
adds that reconnect broadcasts keep coming, which the system alone decides, and
is what `push` is checked under; `push_no_retry` is the same system without it.
`Contacts`: the threads go on, an answer reaches the server every now and then
(strong fairness of `Acknowledge`), and the process does not die for ever;
nothing is assumed of the user, his logins and the server's lists. `Chat`: the user comes back to the chat, tasks go on, requests are
answered or time out, and a list on the screen is laid out some time (strong
fairness, as the screen may be left before); uploads need not call back. `Bridge`: the thread of the
page, the UI thread and the thread that executes go on; nothing makes an
asynchronous action answer. `PageParts`: animations end and the browser goes
back, a finger that is on the screen is lifted some time, an alert is read and dismissed,
transitions end, the documents' scripts load or fail, a message for the back
key arrives, and calls are answered, with success or an error. The last is
what a document relies on and not what the native side guarantees: a request
made while the device is offline is dropped without an answer (below), and its
preloader stays. `PreloaderGoes` shows that nothing on the page's side keeps it.
No user is obliged to tap, swipe or type.

Four liveness properties have a premise on the behaviour. `ReadyComes` assumes
that the plugins' scripts define their modules and that the page is not left. `PreloaderGoes`
assumes that the overlay covers the page while a modal is shown, because
closing a sheet may hide it (below) and then the user can start calls for
ever. `ResultsArrive` assumes that no result is announced before the page has
had the first event of the reset mode: the code's own race at page start,
described below. `UnderWayEnds` assumes that no upload hangs for ever, since one
that does holds up every task behind it.

## Findings

- `helper_lockout`: `SQLiteHelper.java:178` asks callers to call
  `releaseReadableDatabase()` when done. Once one thread waits in `Pool.use`
  (line 261) it owns the monitor that this method needs (line 273): all
  database access of the process stops. It takes ten simultaneous readers in
  the app (`maxSize` is 8), and `EnoughConnections` proves that nine are safe.
- `push_two_listeners`: `start()` tests `stoped`, which the new thread writes
  only when it reaches `connectServer`; the log line "connection is normal, no
  need create again" is about a flag that is still TRUE.
- `push_no_retry`: the comment at `IMChatService.java:756` promises to
  reconnect until connected; the method starts once.
- `contacts_shift`: `shiftTempContactInfoById` (`QiXinBaseDao.java:1652`) has
  no `where`, so requests that nobody answered become friends.

### Seen, without a run

What reading the code for the models showed, and the models either allow
(some marked by a history field, named here in brackets), exclude by an
assumption or leave out.

Client. The pool's size (above). A kick whose process dies between
`IMChatService.java:352` and `355` leaves a started service that the system
starts again with nobody logged in. A service that was started before the login,
and not again since, has no `notificationManager` and does not stop the
connection when it is stopped. A broadcast that makes a listener in a process in
which the manager has no URL yet ends the process. "清除联系人" (clear the
contacts) at `LoginTask.java:133`: `replaceFriendInfos` only replaces the listed
rows, so a friend whose removal was missed keeps flag `Y`. The members of groups
are written with flag `N` without a look at the row, friends included, at a login
(`LoginTask.java:182`) and by a packet about a group (`IMChatService.java:372,
505`): that a friend stays one is up to the server's lists. A consent that is
read before the worker has filed the request is ignored, and only a later login
shows that friend.
`PollingUtils.stopPollingService` (line 38) cancels `PendingIntent.getService`,
the alarm was set with `getBroadcast` (line 32): it is never cancelled, and
nobody receives it. `FriendsActivity.java:401` reads the row of the table of
requests, asks the server and posts a new row: a request of the other side that
is filed in between is overwritten.

Chat. `HttpClientManager.open` drops a request while the device is offline, so an
upload that is started then never calls back: `reSendPicMsg` spins on `fileSend`
(line 136, a field that is not `volatile`), and no later task of the app runs.
A second task of the same object that starts after `fileSend` is set (line 219)
and before the status is written (line 220) uploads the file once more.
`queryChatHisBeansBySingleChatNoRead` (`QiXinBaseDao.java:839`, "all unread")
puts `or` before `and` without parentheses: every row of this user matches, so
`refalshContent` shows them once more, and sends those under way again; the
friend's unread rows are shown twice too. A message under way when the screen
is left is loaded by `onResume` as a second object and posted a second time.
`onNewIntent` replaces the receiver's filter by one without removals
(`ChatActivity.java:179`). A message of somebody who is no friend is
acknowledged and not stored (`IMChatService.java:164`), but an open chat shows
it; one that comes again is stored under a fresh UUID and appears twice (the
model does not tell copies of it apart). More than ten unread messages are
marked as read and only ten loaded. A resend dialog does nothing for a location
(`ChatActivity.java:1576`); that of a text marks it as under way without a look at
its status, which a task may have changed since (line 1537); a failed upload of an audio message is not marked,
and a second task of one leaves the mark of a failure, because the adapter and
`reSendAudioMsg` differ from those of pictures; a view that is recycled while
its task runs shows the mark of another message.

Bridge. The single field `callbackContext` makes answers cross when calls
overlap [`overlap`]; `reset` may leave the WebView offline, and then a first
result that is announced before the first event waits for the next one;
`HttpClientManager` drops a request without calling back when the device is
offline; `imgalbum`, failed uploads, `backhome` and `f4scan` never answer; the
actions `delete1347` and `update1347` do each other's work compared with their
comments; `BussinessHtmlActivity.onResume` registers a receiver each time and
`onDestroy` unregisters only the last.

Start. The list of plugins in the repository is empty. A plugin whose script
does not define its module makes the mapper throw, and `deviceready` never
comes; a back key on its way when its handler is removed is lost;
`waitForInitialization` of one channel twice never fires.

Router. A swipe that is taken back does not call `pushStateClearQueue`
(`framework7.js:2732`), so what was queued waits for the next animation; a
queued `back` calls `router.back` without `pushState: false` (line 9091), and
with pages behind pages in a document that leaves the back key to the browser,
`afterBack` would preload the page before while such a `back` moves it, so that
after a swipe the url names another page than the one shown; with
cyclic links `handlePopState` mistakes one visit of a page for another; a
document that navigates while a finger moves a page (line 2733) is not modelled.

Overlays. Closing a popover hides the overlay under a preloader that was shown
just before (`index.html:297`), so that `Covered` does not hold; a call without
a preloader closes whatever modal is shown when it is answered
(`dsaordhtml.html:706`), an unread alert included; modals that are fading out
can still be tapped.

Gestures. `touchcancel` is not handled by swipeout and does not clear the timer
of the highlight; `swipeoutOpen` called by a program does not close another
row; a tap on a sort handle without a move leaves the JavaScript scroller off
(line 6694); a short drag of a panel leaves a listener that hides whatever
panel is opened or dragged within its 400 ms [`late`].

Fields. Calendar: a change of month in the other direction within one
transition, or of the year after one of the month, makes the toolbar name
another month than the one shown until it is opened again [`astray`]; a quick
double tap goes one month beyond `minDate` or `maxDate` (line 10920). Forms: a
text that was emptied shows its default again, because `formFromJSON` skips
empty values (line 8975); requests of `ajax-submit-onchange` may overtake each
other. Search bar: a query that is cancelled and typed again before the timer
runs leaves the classes off [`again`]; rows that come or go during a search are
not searched until the query changes [`astray`]; destroying it with the timer
pending throws.

Lists. Virtual list: `moveItem` upwards renumbers the cache as if it moved down
(line 7433) [`astray`]; `replaceItem` while filtered works on index −1;
`deleteItems` of three or more unsorted indices removes others. Order list: a
late answer is appended to the list of another tab or page [`astray`];
`loading` is reset before the request (`dsaordhtml.html:287`); rows are asked
for from the last date on, that date included, so that rows repeat, and a date
with more rows than an answer stops the list. Pull to refresh: a finger may
start a second refresh while the first runs [`twice`]; `Scroller.on` wraps
callbacks, so `off` does not detach them; `app.destroyToRefresh` (line 2271) is
not the name of the function. Lazy images: an image that loads may be queued
and loaded once more; `detach` adds the scroll handler again;
`destroyImagesLazyLoad` calls a function that does not exist.

## Proofs

All theorems hold for every value of the constants under the named assumptions
(`PoolAssumption`, `HelperAssumption`, `PushAssumption`, `ContactsAssumption`,
`ChatAssumption`, `BridgeAssumption`, and those of the parts of a page, which
`DocumentPartsAssumption` and `PagePartsAssumption` gather: bounds are natural numbers,
sets are what they are declared to be, and those that are counted, rows, items,
images and groups, are finite).

- `PoolProof`. `IInv` adds to types, `ExclusiveUse` and `WaitsOnlyWhenExhausted`
  that a thread outside a query holds nothing (`HoldsOnlyWhileUsing`); without
  it `Hand` could overwrite an object that a thread still has.
  `PoolImplementsLending` maps each step to a loan, a return or a stutter.
- `SQLiteHelperProof`. Every step of the helper is a step of the pool or leaves
  it alone, so the pool's invariant carries over; `HInv` adds that a waiter owns
  the monitor and that connections are out only during queries. From it follow
  `NoReleaseWakes`, `LockoutFreezes`, `ExclusiveQueries` (two queries never
  share a connection) and, by counting, `EnoughConnections`.
- `PushConnectionProof`. `IInv` adds to types and `FlagHasListener` that only
  valid packets are on their way (a listener about to deliver has one, and the
  queue holds no other); without it a delivery would break the types. The action
  properties `StopIsQuiet` and `LogoutIsFinal` are proved from it.
- `ContactsProof`. `FriendFiled` is the heart: in the worker's queue the making
  of a contact directly follows the filing of his request, and once that has
  run the row stays, since only the worker deletes rows. With `AnswerIsLast`
  (the answer is the last op of a packet) and the set of ops the main thread
  writes it is inductive; `NoStrangers` and `ContactsTypes` follow.
- `ChatProof`. `SentIsSent` needs to be known of the objects and of a task that
  was answered as well, and of a callback that has yet to write (`SentInv`),
  because tasks write rows from objects.
  `PostedOnce` needs that an object under way that is not being posted has a
  post left (`PostInv`); that only the head of the queue runs is part of the
  types. `ReadFrom` says what all actions that load the list have in common,
  `TaskContinues` and `TaskFinishes` what all steps of a task have.
  `FriendIsHeard` is inductive with the same of what is about to be
  acknowledged.
- `BridgeProof`. `IInv` is `Places` (everything on the way is a sequence of
  messages), `Names` (fields, tasks and calls name calls), `InOrder`, and
  `OneTask`: without an overlap the only actions that have to answer are the
  one whose context the field holds, and what was sent went to its own call.
  `InOrder` is inductive given the types, by associativity of concatenation;
  `OwnAnswer` needs `OneTask`, and that what is heard is a prefix of what was
  sent.
- `DocumentPartsProof` and `PagePartsProof`. Each part of a page has an
  invariant of its own (`OverlaysIInv`, `StartIInv`, `TapsIInv`, …), three lemmas
  (it holds at first, a step keeps it, the property follows) and those about the
  operators of its module. `PartIInv` joins them, `PartsInvariant` proves it of
  `PageParts`' specification, and `OneModalAlways`, `ReadyOnceAlways`,
  `TouchesAgreeAlways`, `FieldsFollowAlways`, `ListsCompleteAlways` and
  `PagesAgreeAlways` are the invariants that `page_parts` checks. The proofs of
  ten parts are in `DocumentPartsProof`; those of the picker, the virtual list,
  the images and the router are with the theorems. What makes the invariants inductive:
  - overlays: an action composes operators (`Alert(HidePreloader(ShowPreloader(o)))`),
    so each keeps `Good` and takes at most one element from `Free`; there is
    room for the alerts that unanswered calls may still show;
  - start: the plugins are to come, or the document is, or both are there
    (`StartBefore`, `StartParsing`, `StartReady`), and each tells what the joins
    still count and what waits in a timer;
  - taps: nothing has come of a touch that is tracked, and the browser's click is
    to come only where framework7.js sends none;
  - swipes: a row that is open while a finger is down is the one under it, and
    the row that moves was not open;
  - panels: what is displayed and not active has a listener that will hide it;
  - calendar: at rest the strip has three months, while it moves the current one
    is at the end it moves to, and the classes of all are those of that move;
  - picker: the rows that the two columns are at determine their values, the
    input and the rows marked in the page;
  - forms: memory, local storage and the last form that was stored agree as far
    as `Reload` and `Delete` let them, and a choice is never taken back;
  - search bar: what the last search left is what its query matches, unless
    rows came or went;
  - order list: the calls on the way for this tab ask for what comes after one of
    the rows shown;
  - pull to refresh: a mark outlives the finger only until the refresh is done and
    its transition is over;
  - virtual list: no item is there twice, a row in the cache is that of the item
    with its index, and a search finds items only. Each way of renumbering
    (`ShiftFrom`, `DeleteAt`, `Moved`) is a lemma; `Moved` keeps it downwards only,
    which is why rows that moved up are `astray`;
  - images: `imageIsLoading` tells whether one loads, and none waits otherwise;
  - router: the history is a way along links that visits no page twice
    (`RouterPath`, which needs that links have no cycle), the DOM is what the
    history says (`RouterPages`), and the view is in one of six modes, at rest,
    under a finger, taken back, swiped, loading or going back. A mode tells
    whether url and active page are already those of the page below, what
    animation is under way, and how far the browser is from the view: even, one
    entry ahead or about to leave one, one behind, or behind with a `back` in
    the queue (`RouterEven` to `RouterWaiting`). One lemma for each chain of
    calls gives its fields (`RouterBackFields`, `RouterLoadFields`,
    `RouterBackDone`), one for each event the mode it leads to.

Only model-checked: everything with `~>` (liveness is out of the prover's
reach), that is `WaiterReturns`, `QueryServed`, `TransactionServed`,
`KickStops`, `Reconnects`, `KickTakesEffect`, `AgreedArrives`, `RemovalArrives`,
`UnderWayEnds`, `ResultsArrive`, `PreloaderGoes`, `ReadyComes` and `NavigationGoesOn`. No module
declares a `RECURSIVE` operator.

## Not modelled

Groups and push framing are planned (below). Of the chat: the pull-down to older
messages, unread counts, a group's chat, removal of a friend by this user (for
the rows it is `DeleteChat`), and who a message is from once it is shown. The
Lua forms and base data updates (`java/business/**` other than `HjBusiness`),
the user interface, attachments and downloads are formatting and I/O with one
request per screen. `java/db/DBManager.java` with
`java/manager/ContactManager.java` is an older design next to `SQLiteHelper`.
`HjHttpConnection`, `PacketReader`, `PacketWriter`, `WebSocketService`,
`ReConnectService` are not reached by the running program, nor is
`CrashHandler` installed.

Of `framework7.js`: pages by Ajax or templates, navbars and the option
`reload`; messages, the photo browser, accordions, notifications and hidden
toolbars, which no document of the repository uses; the libraries that the file
contains (Dom7, Template7, Swiper, IScroll). Of `cordova.js`: the prompt and
polling fallbacks of the bridge, array buffers. Third-party or unused:
`pgsqliteplugin.js`, `statusbar.js`, jqwidgets, globalize, `json2.js`, the QR
code and photo view packages, and the rest of `librarys/**`.

## Plan

1. Groups on top of `Contacts`: the group and membership tables,
   `insertGroup` in two transactions, `DropGroup`, the push packets.
2. The rest of the chat: the pull-down, unread counts, redelivery under a fresh
   id; composed with `PushConnection`: delivery at least once across reconnects.
3. Push framing: the JSON validator as a function, against a reference
   definition over bounded input; several packets in one chunk.
4. Proofs: what the liveness properties rest on that is safety, in that whatever
   waits or is locked has something under way that ends it (the page that moves
   while `allowPageChange` is off, the call behind a preloader), stated on its own.
