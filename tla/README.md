# Vivarium firmware: a TLA+ model

The device is a small computer in an animal laboratory. A USB counter reports
the turns of running wheels; `logger.py` records them in files; `weblogger.py`,
under Apache, starts and stops the recording; a vendored `hostapd` provides the
wireless network over which all this is reached. This directory models the
parts of the repository in which order, timing and failure matter, checks them
with TLC on small instances, and proves the main properties with TLAPS.

Line numbers without a file name refer to the source file a module names in its
head comment. `PROJECT.json` maps every definition to the lines it models.

## 1. Inventory

| Component | State | Operations | Interacts with |
|---|---|---|---|
| Logger daemon, `logger.py` | serial port, last reply, number of columns, previous values, output file | connect, poll, parse, record, sleep, SIGTERM | device (serial), front end (pid file, signal), files |
| Serial counter (firmware submodule, absent) | counters, a line on its way | answer `cnt`, count, be unplugged | logger |
| Sampling schedule, `logger.py:143-150` | start, last row, sleep | stamp a row, compute the next sample | wall clock |
| Web front end, `weblogger.py` | one request per Apache worker | index, start, stop, view, delete | pid file, `/proc`, data files, daemons |
| Daemon start-up, `logger.py:70-98` | pid file, output file | fork, write pid, open output | front end |
| hostapd authenticator, `ap/wpa_auth.c` | two machines per station, one per network, `GKeyDoneStations`, replay counters, timers | 4-way handshake, group key handshake, rekeying | stations, driver, event loop |
| hostapd stations, `ap/sta_info.c`, `drv_callbacks.c`, `ieee802_1x.c` | list of stations, flags, inactivity | associate, leave, remove, time out | authenticator |
| hostapd event loop, `utils/eloop.c` | sorted timeouts, three tables of sockets, pending signals | register, cancel, sleep, dispatch, terminate | every other part of hostapd |
| station, `rsn_supp/wpa.c`, `wpa_supplicant/` | nonces, keys, replay counter, state of the connection, a pending frame | associate, answer 1/4, 3/4 and 1/2, request keys, time out | authenticator (frames), driver (events) |
| hostapd TKIP countermeasures, `ap/tkip_countermeasures.c` | time of the last Michael failure, countermeasures on | count a failure, start, stop | stations, authenticator, station events |
| hostapd, all else | 802.1X, EAP, RADIUS, WPS, P2P, beacons, drivers, crypto, control | | not modelled, see section 8 |
| `monitor.py`, `pcf8563ctl.py`, `var/www`, `etc`, `usr` | none or static | | not modelled |

What is hard, by component:

* **Logger.** A reply can be cut by the 0.5 s timeout, between two numbers or
  within one, and its rest taken for the next answer; the device can vanish in
  any step and come back with its counters at zero; a signal can arrive in any
  step, two of them inside a bare `except`; after a reconnection the reply of
  before is parsed again. Correct means: every count is in the file once, the
  file never runs ahead of the device, an established daemon survives whatever
  the device does, and rows keep coming.
* **Schedule.** Polls longer than a period; a wall clock that is set. Correct
  means: no negative sleep, no drift, no burst of rows.
* **Front end.** All tests are check-then-act on files and processes that other
  workers, daemons and programs change; the pid file outlives its process.
  Correct means: one logger, which stop() can find; no data overwritten; no
  other program killed.
* **Authenticator.** Three machines that step one another; a counter kept in
  six places; one timer shared by two handshakes; stations that leave, come
  back, time out or ask for keys in the middle. Correct means: the counter is
  exact, nothing waits without a timer, limits end in a disconnection, the key
  in use is known to every station, and a rekeying ends.
* **Event loop.** Handlers change the lists that the loop is walking; signals
  come between the test for them and select; the wall clock is set. Correct
  means: each timeout is served once, in order, not early and at last; no
  handler is called for a socket that select did not report; SIGTERM is
  answered.
* **Both ends of a handshake.** Frames are lost, repeated and reordered; frames
  and events of the driver come through different paths; either driver may
  refuse a key when the other end uses it already. Correct means: the access
  point uses no key but the one the station said last, no old frame takes a key
  back, and the two ends do not stay at odds.
* **Countermeasures.** They begin in the middle of handshakes, on the report of
  one station, and stations associate while they last. Correct means: nobody is
  served until they end, and everybody who comes back afterwards is.

`PROJECT.json` lists each hazard at its line with the properties that cover it,
or the reason why none does.

## 2. Modules

| Module | What it is |
|---|---|
| `Logger` | the daemon from `connect()` to its death, with the device it polls |
| `Tally` | abstract: what a data file promises its reader |
| `SampleClock` | the schedule of the samples against a wall clock |
| `WebLogger`, `MCWebLogger` | requests, daemons, pid file, process table; symmetry for TLC |
| `WpaAuth` | authenticator and station events of one network |
| `EventLoop` | eloop: timeouts, sockets, signals, `eloop_run` |
| `Timers` | abstract: what the event loop promises to who registers a timeout |
| `Handshake`, `MCHandshake` | authenticator and station of one association after another, with the frames between them |
| `KeyAgreement` | abstract: what the handshakes promise of the pairwise key |
| `LoggerProofs`, `SampleClockProofs`, `WebLoggerProofs`, `EventLoopProofs`, `HandshakeProofs` | theorems |
| `WpaAuthProofs`, `WpaTimerProofs`, `WpaGtkProofs` | theorems about `WpaAuth`, each module on the invariant of the one before |

`Logger` implements `Tally` (`WritesTally == File!Spec`, a refinement mapping of
the file's variables). `WebLogger` sees of the daemon only its stage, so that a
daemon that is in `connect` or `run` there is anywhere inside `Logger` here.
`SampleClock` refines the single step `Logger!Sleep`. `EventLoop` implements
`Timers` (`KeepsTimers == Promise!Spec`). `Handshake` implements `KeyAgreement`
(`KeyAgreed == Agreement!Spec`), both machines together: neither end could alone.

The authenticator is modelled twice, on purpose. `WpaAuth` has every state entry
of the machines of several stations and of the group, and takes an answer to be
possible whenever one is outstanding. `Handshake` has one station, one handler
in one step, and in exchange the other end: an answer exists only if the
station of `rsn_supp/wpa.c` has sent it because of what it received.

### Logger
`pc` is the place in the code: `find`, `open`, `nodev` inside the `try` of
`connect()`, `settle` after it, then `poll`, `recover`, `parse`, `record`,
`sleep`, and the ways to end. The action names say which lines they stand for:
`ConnectFind` is lines 15-17 with the count of tries, `ConnectRefused` the bare
except (which skips the test of `ntry`), `Settle` lines 30-32, `Poll...` one
flush, request and readline with everything it can return, `Recover` the except
branch of lines 113-118, `ParseReject` lines 126-128 with the NameError when
`s` is unbound, `Terminate` a SIGTERM at any place: swallowed inside the two
`try` blocks, the end everywhere else, their `except` handlers included, `RecordFirst`/`RecordEmpty`/`RecordRow` lines 130-145. A line is
the sequence of its numbers; `Cuts` are the ways a timeout can divide it, within
a number by `\div` and `%` of the printing base. `first` and `total` are history:
they say what the rows add up to. `late` holds at most one rest of a line.

### SampleClock
`now` is `time.time() - tstart`. `Write` is a poll of any length and the stamp
of its row, `Sleep` computes `tnext - tnow`, `SetClock` moves the clock.
`IntDiv` is Python's `int()`, which rounds towards zero.

### WebLogger
A request is a program counter per worker: `ReadPid` (7-11), `CheckProc` (12),
`ReadCmd` (13-17) with the branch each caller takes (a process that is gone by
then fails the request, or passes for no logger), `CheckFile` (51), `Launch`
(59), `Kill` (65), `Nap` (60, 66), `Delete` (151). A daemon goes through `boot`,
`lock` (pid file empty), `write`, `out`, `connect`, `run`. A `SIGTERM` is pending
until it ends the process or is swallowed by a bare except. `linked` says that
the daemon's open file still is the one of that name. Processes of other
programs start and end, and take free pids. Before a daemon installs its
handler (line 86) a SIGTERM ends it by default, which is the same step.
`Delete` is of a data file, as the pages offer it: `delete()` would unlink any
other file below its directory, `logger.pid` too, if a request named it, and
such requests are left out.

### WpaAuth
One step is one state entered by one machine, in the order in which
`wpa_sm_step` runs them: pairwise machine, group key machine, the group's, and
again while something changed. `call` is the running `wpa_sm_step`; `rekey` and
`todo` the running `wpa_rekey_gtk` and the stations it has still to visit; `next`
the rest of a handler after its `wpa_sm_step` returns. A new event is taken only
when all three are idle, as in a program of one thread. `sm[s]` keeps the
source's field names; `ask` is the set of request flags (`Init`,
`DeauthenticationRequest`, ...). Frames are abstracted to what an answer to them
could be: `key_replay` holds the last `Retries` frames whose replay counter is
valid, aged (`m3old`, `g1old`) when the group key changes, so that an answer is
possible exactly to what is outstanding. `timers` counts pending
`wpa_send_eapol_timeout`s, since a re-association adds one without cancelling.
`fresh` is history. The deployed configuration is `wpa=1` with a pre-shared key;
WPA2 stations are modelled too because the same code serves them.

### EventLoop
`pc` is the place in `eloop_run`: `while`, `select`, `signals` and `deliver`
(the test and the loop of `eloop_process_pending_signals`), `timers`,
`dispatch`, `handler`. A handler is any sequence of `RegisterTimeout`,
`CancelTimeout`, `RegisterSock`, `UnregisterSock` and `Busy` (it takes time)
before `Return`; the set-up code before the loop is the first of them. `Signal`
may come between any two steps, `SetClock` too. `left` is what select still has
to sleep and `skew` how far the clock was set since it was entered. `changed`
is the flag of the table that is dispatched, `fresh` is history. The second
`os_get_time` (line 549) is in `ServeTimeout`.

### Handshake
`ap` is the record of the station's state machine at the access point with the
field names of the source, `sta` the station's, `air` every frame ever sent:
receiving one does not remove it, and nothing makes it be received, so that
loss, delay, repetition and reordering are all there. `PtkSm` and `GroupSm` are
`SM_STEP`s, and `SmStep` nine rounds of `wpa_sm_step`, which is as many as it can
need until nothing changes (`TypeOK` says that the tenth changes nothing, and
`HandshakeProofs` proves it for any limits). A handler prepares the record and ends in
`Handled`. A key is the pair of nonces it is derived from, so that a MIC fits if
and only if both ends have the same nonces. `StaAssociates` makes the
association, `ApAssociated` and `StaAssociated` are the reports of it to either
end, at any time; `ApDisassociated` and `StaDisassociated` those of its end,
which may come when the next association has begun; `pending` is the frame the station keeps in between.
`Processed` is `wpa_sm_rx_eapol` with a set of outcomes, since a driver may
refuse a key (`SetKeyFails`). `seen`, `given` and `confirmed` are history:
`given` is the group key of the last frame whose answer the access point has
taken with a MIC that it could check (a 2/4 is taken without).
A deauthentication ends the association in the step that sends it; one that is
lost is sent again when the access point answers the station's next data frame
(driver, external). A station that is to be removed by a timer of 0 s is taken
to be removed before a frame of its next association comes (`Heard`): an answer
to a frame sent in one turn of the loop comes in a later one, and the loop
serves the timer first. Many timers due at once could delay it, since a turn
serves one; that is left out.

`mic` is what both ends keep of Michael MIC failures: `seen` and `held` at the
station (a failure within the last minute, countermeasures), `recent` and `on`
at the access point; `count` bounds the failures. The station reports a failure
in a frame (`StaMicFailure`), and the access point counts the reports it gets,
of this station (`ReceiveError`) and of others (`OtherMicFailure`), so that
either end may begin countermeasures without the other. Minutes are not
measured: `StaMinute`, `ApMinute`, `StaCalm` and `ApCalm` happen at any time
between two failures, or while countermeasures last.

## 3. Runs

| Run | Instance | Question | Result |
|---|---|---|---|
| `logger` | 2 channels, base 2, counters to 1, fairness | do the rows account for everything, does the daemon survive, does it give up without a device and keep recording with one? | holds |
| `logger_stopped` | 1 channel | "Logger stopped" is in the log: has it stopped? | **violated** |
| `sample_clock` | period 3, delays to 4, clock in -14..14 | sleeps, grid, bursts | holds |
| `web_serial` | 1 worker, 3 pids, 2 names, 5 requests, prompt start | one logger, in the pid file; data kept; no other program signalled | holds |
| `web_lock` | 2 workers, 2 requests | does the lock file lock? | **violated** |
| `web_slow_boot` | 1 worker, slow start | does "File already exists" protect data? | **violated** |
| `wpa_auth` | WPA and WPA2 station, all adverse events, no re-association while a timer of the station runs | counter, recursion, limits, 2/4 against 4/4 | holds |
| `wpa_gtk` | WPA and WPA2 station, frames tried twice, the WPA station re-associating in the middle of handshakes but not of its first group handshake, rekeyings between handshakes, no requests for keys | timers, limits with left-over timers, currency of the group key | holds |
| `wpa_live` | WPA and WPA2 station, frames tried twice (one replay counter), wrong keys, the WPA station re-associating in the middle of handshakes and of a rekeying but not of its first group handshake, fairness | wpa_sm_step and rekeyings end | holds |
| `event_loop` | 2 timeouts, 2 sockets, SIGTERM, a clock that is set once, fairness | timeouts once, in order, at last; sockets reported; SIGTERM answered | holds |
| `handshake` | 2 associations of frames tried once, 1 of frames tried twice, with 2 group keys or a request for new keys; 2 associations with Michael failures; fairness | same key at both ends, none taken back, none served during countermeasures, no lasting disagreement | holds |
| `wpa_reauth` | one WPA station, four tries, re-association in its first group handshake | "Reauthentication cancels the pending group key update" | **violated** |

Every property of a passing run has a mutant in `PROJECT.json`: a slip of the
kind the code could have had, written beside the definition it changes
("Mutant:", "a slip:"), under which TLC finds the property violated.

The four violations are disagreements between the code and what it says:

1. `StoppedIsStopped` (`logger.py:25`, `66`): `bye()` logs "Logger stopped" and
   raises SystemExit; the bare except of `connect()` catches it and the search
   for a device continues.
2. `Exclusive` (`logger.py:57`, `93`): the lock file is only written. Two
   concurrent starts run two loggers.
3. `KeepsData` (`weblogger.py:51-53`): the daemon creates the file after the
   test for it. If it takes longer than the second slept, a second start of the
   same name empties the first one's file.
4. `ReauthCancels` (`wpa_auth.c:1378`): a re-association cancels a pending group
   key handshake only if `GUpdateStationKeys` is set, which it is not in the
   first group key handshake of a WPA station. The group key machine stays in
   REKEYNEGOTIATING beside the new 4-way handshake, whose 4/4 then stops the one
   timer (`wpa_auth.c:972`): 1/2 is not sent again, and a rekeying in progress
   waits for that station until something else happens to it. `GroupRetried`
   and `RekeyEnds` are therefore checked without such re-associations
   (`"pending"` in `Adverse`).

## 4. Bounds

* *Logger.* Two channels are the least with which a cut changes the number of
  columns, and with it the plausible lines that are wrong. With counters to 1
  a cut falls between numbers only; the safety properties were checked with
  counters to 2 as well (cuts within a number), and are proved for all values.
  It is the graph with eleven fairness conditions that sets the bound. Only one
  rest of a line is in flight: the device answers one request at a time.
* *SampleClock.* Delays exceed the period and the clock moves over several
  periods, before `tstart` too. Time is in whole ticks: the rounding of doubles
  is not modelled.
* *WebLogger.* Five requests are start, stop, start, and two more in any order;
  three pids are a daemon, a stale or foreign one, and a reused one.
  `PromptBoot` and `SlowReuse` are assumptions on the machine, not bounds:
  that a daemon gets through lines 70-96 within the second of `start()`, and
  that a pid is not reused within one request.
* *WpaAuth.* Two stations are the least with which a rekeying visits one station
  while another holds it up. `UpdateCount` is 4 in the code. With 1, in the run
  with all adverse events, one try and the step after the last exercise both
  tests of the limit; but a handshake whose only try is used up is given up
  before it can lose its timer to the other one, so the runs about timers and
  rekeyings that end (`wpa_gtk`, `wpa_live`) have 2, the least with which a retry
  is due that another handshake may swallow. The safety properties are proved for
  every number of tries.
  `MaxTimers` bounds the timers left over by re-associations, and `Returning`
  names the stations that may re-associate while a timer of theirs runs, that
  is, in the middle of a handshake: neither is a test of the code. In `wpa_gtk`
  and `wpa_live` it is the WPA station, the kind the device serves, with one
  timer left over; `wpa_live` so covers the re-association of a marked station
  in its group handshake (`wpa_auth.c:1377-1382`), which counts it off. In
  `wpa_auth`, with all adverse events, it is none: a re-association comes only
  when no timer runs, or as a new association after the station has left (two
  stations with timers left over are beyond the time a run may take). What that
  run checks is proved for any `MaxTimers` and `Returning`, all stations
  included; `StepReturns` and `RekeyEnds` are only model-checked. `Adverse` names
  the events a run includes; what each run leaves out is in the table above, and
  these exclusions matter: with requests for keys, or a re-association in a
  first group key handshake, a group key handshake does lose its timer
  (`wpa_auth.c:972`), with requests for group keys a pairwise one too, a rekeying started in the middle of a 4-way
  handshake does leave a station with the earlier key, and the silent removal of
  an inactive station does leave a rekeying without its last step. They are
  listed as hazards.
* *EventLoop.* Two timeouts and delays of 0 and 1 give equal times, different
  times, and times in the past after a step of the clock; the same handler may
  be registered twice. `MaxTime` is where the clock stands still, which to the
  program is the clock being set back. Two readers are the least with which one
  handler changes the table the loop is in; the other two tables run through the
  same definitions and are empty. Both reasons for select to return early are
  in, and errors.
* *Handshake.* With frames tried once, two associations bring frames of the
  first into the second. With frames tried twice there are two frames of each
  kind in flight with different counters, and answers to either; a second
  association then is beyond the time a run may take. The second group key
  makes for a group key handshake at any moment. A request for new keys needs
  two tries: the 4-way handshake it starts counts on from the tries of the one
  before, and with one it would always end in a disconnection. A Michael
  failure that follows another within a minute starts countermeasures at any
  moment of two associations, by the station's report or another's; that a
  minute may pass between two failures is tried with one association. The code
  tries four times; two is the least that tells a try from the last.

No symmetry is used in runs with liveness properties. Deadlock is checked in
every run but `handshake`, where the system may stop: with the associations used
up and both ends apart, nothing is left to happen.

## 5. Fairness

* *Logger.* The daemon is one thread that keeps running (WF on its steps).
  Towards the device: a port that is asked for again and again opens and
  settles, a device polled again and again answers in time (SF on
  `ConnectOpened`, `Settle`, `PollComplete`); SF on `ParseAccept` says that a
  SIGTERM does not hit every single parse. SF on `ConnectFind` and
  `ConnectNoDevice` says the same of the search, which a signal restarts.
* *WpaAuth.* A handler runs to its end (WF on `Internal`), and a timer that
  stays due expires (SF on `Timeout`, `Remove`). This is what the event loop
  gives: `TimeoutServed` of `EventLoop`, whatever sockets, other handlers and
  the clock do. Nothing is assumed of the stations: they may never answer.
* *EventLoop.* The thread runs and handlers return (WF on `Loop`, `Return`),
  time passes however it is spent (SF on `Elapse \/ Busy`), the kernel delivers
  an alarm (WF). A clock set back for ever would hold every timeout for ever, so
  it is set a bounded number of times. Nothing is assumed of sockets.
* *Handshake.* Timers of both ends expire (`TimeoutServed` again; the station
  runs the same event loop), and both drivers report associations and their end
  to a station. No frame need ever arrive. `ApDisassociated` has no fairness:
  an access point that is not told finds out by its inactivity timer.

## 6. Proofs

All theorems hold for every value of the constants that the named assumptions
allow (positive periods, bases of at least 2, finitely many stations and
descriptors, delays that are natural numbers).

* **LoggerProofs.** `LoggerInv` is `TypeOK`, `Telescopes`, and three
  strengthenings. `RecordsAccepted`: what is recorded has the file's width.
  `Established`: with a header, the reply is bound and the tries unlimited;
  it is what makes the endings "no device", "unbound reply" and "empty reply"
  unreachable. `AllPlausible`: every line anywhere (the reply, the rest in
  flight, the file's last row) is either narrower than the device or nowhere
  above its counters; a cut of a plausible line gives two plausible lines
  (`CutPlausible`), which needs that neither part of a number exceeds it
  (`CutNumber`), and a turn of a wheel keeps it (`PlausibleTurn`). Theorems:
  `TypeCorrect`, `RowsTelescope`, `FileNeverAhead`, `DaemonSurvives`, and
  `ImplementsTally`, by step simulation: a `RecordFirst` is a `Header`, a
  `RecordRow` a `Row`, a step into an end an `End`, all else a stutter.
* **SampleClockProofs.** Arithmetic of `NextSample` on both sides of zero, then
  `ClockInv`: types, that the next sample is after the last row, and `OnGrid`.
  Theorems: `SamplesOnGrid`, `SleepsBounded`, `RowsApart`.
* **WebLoggerProofs.** `WebTypes` and `StrangersSpared` for any number of
  workers, the second under `SlowReuse` (a pid is not reused within a request).
  The rest is for one worker and a prompt start. `WebInv` adds to the
  properties that a daemon's name is in the pid file once it is written, that
  while a daemon boots the worker is in `Nap`, and that a pid and a file a
  request is about to use are as it found them. Theorems: `OneLogger`,
  `StopFinds`, `PageTrue`, `DataKept`. Without these assumptions `OneLogger` and
  `DataKept` are false, as runs `web_lock` and `web_slow_boot` show.
* **WpaAuthProofs.** `IInv` is `TypeOK`, `DoneCounts` and `StackOK`. The last
  says what may be on the stack together: a station being stepped is not among
  those still to visit, there are such only in the second phase of
  `wpa_rekey_gtk`, `GTKReKey` is set only in its first, in which no
  `wpa_sm_step` runs, and marked stations are known. `TypeOK` alone is not
  inductive: that `GKeyDoneStations` stays a natural number needs that it counts
  exactly the marked stations not still to be visited, so that each decrement
  has a station to its name. `CountFalls` is that fact about cardinalities;
  one lemma per machine and handler follows. Theorems: `TypeCorrect`,
  `CountExact`, `NoRecursion`.
  In the second half of the module, `SpentDisconnected` and `DoneAnswered` speak of
  a thread at rest and of one step, and neither is inductive: in the middle of a
  `wpa_sm_step` counters are past their limits and frames half consumed.
  `RetryInv` says for each place of the call (`Place`: before the pairwise
  machine, the group machine, the group's) what of requests, received frame and
  counters a station may have there: requests are served in the call they are
  made in (`AskFits`); a received frame is consumed by the first step of the
  machine it is for (`AnswerFits`, `AckFits`), and taking it emptied `key_replay`;
  past a limit the state was entered in this very call, which has still to go
  on (`TriesFit`, `GTriesFit`). One lemma per machine, kind of handler and event
  follows. Theorems: `RetriesBounded`, `EndsAnswered`.
* **WpaTimerProofs**, on `RetryInv`. `WaitInv` says at each place of the call
  what there is to wake a handshake that waits (`TimerFits`, `GTimerFits`: a
  timer, its expiry, a frame, a request, or a limit passed), and why one
  handshake does not consume what is to wake the other: while the pairwise one
  is in its second half the group machine is at rest or out of tries' reach and
  no answer to 1/2 would be taken (`KeyedFits`), an expiry is served by the
  pairwise machine if that waits (`EvtFits`), a new handshake begins without a key
  (`UnkeyedFits`), so that no frame with a good MIC can stop its timer. Theorems:
  `PairwiseWaits`, unless stations request group keys; `GroupWaits`, under
  `Quiet` (no requests, no re-association in a first group handshake), which
  needs beside that no group handshake is under way before the pairwise one has
  ended (`BeginFits`). TLC finds both properties false without these hypotheses.
* **WpaGtkProofs**, on `WaitInv`. `GtkCurrent` speaks of a thread at rest; what
  makes a key old, a rekeying or the first association, happens in the middle of
  a call. `HoldInv` says at each place of the call that no outstanding frame
  carries an earlier key and that the answer to one with a key empties
  `key_replay` (`FramesFit`); that an acknowledgement just taken is one of the
  current key, and that a station in service which no rekeying has still to
  reach holds it (`FreshFits`); how far a station that stays can have got there
  (`CourseFits`); and that before the first association no station has a
  handshake (`FirstSta`). The key changes only with the first association, or in
  a rekeying that begins when no timer runs (`GroupHolds`); by `WaitInv` a
  handshake under way has a timer, so none is, and nothing outstanding is made
  old (`NewGtkHolds`). Theorem: `KeyCurrent`, under `Still`: no requests, no
  re-association in a first group handshake, the random pool ready, rekeyings
  between handshakes. What is lost, repeated, wrong or refused by a driver,
  and stations that fall silent or leave, are all allowed.
* **EventLoopProofs.** The inductive invariant has three parts. `TimesOK`: the
  list of timeouts is sorted, and what select was given is what the first of
  them asked at that moment, less what has passed. `PlaceOK`: which history goes
  with which place of the loop. `TablesOK`: no descriptor is twice in a table,
  and what handlers have registered since select in the table that is walked
  sets its flag, which ends the walk. The promise of `Timers` is about the bag of timeouts and the program about a
  sorted list: `InsertCounts`, `TailCounts` and `CancelCounts` say what
  registering, serving and cancelling do to the number of each in the list.
  Theorems: `TypeCorrect`, `SleepsUntilFirst`, `OnlyReported`, and
  `ImplementsTimers`, by step simulation.

* **HandshakeProofs.** `HInv` has two halves, and relates the state of each end
  to the frames that may still arrive.
  `AtRest` says where the authenticator's machines are when a handler begins.
  Within `wpa_sm_step` it is `Fits`: what of requests, received frame, expired
  timer and tries goes with which state, and that a machine with a key that the
  station has not confirmed is in the middle of the 4-way handshake (`Midway`)
  and the group machine silent meanwhile. `Work` counts the steps that are still
  to come; each round lowers it or changes nothing (`PtkSmFits`, `GroupSmFits`),
  a handler begins with nine at most (`StartWork`): so `wpa_sm_step` comes to
  rest within nine rounds.
  `Holds` is about the frames, none of which ever disappears. `FramesFit`: every
  frame was caused (a 2/4 answers a 1/4, a 4/4 a 3/4, a 1/2 follows a 4/4 with
  its key), no two of one association share a counter, and of two with group
  keys the one with later nonces and counter has the later key. `NumbersFit` and
  `AnswersFit`: what the access point has sent is of associations it knows, and
  an answer it still awaits would give a key newer than any that the station has
  confirmed. `KeyFits`: its key is that of the newest nonces, and before the 4/4
  no 1/2 has been sent with it. `NoncesFit`, `ConfirmedFits`, `OffFits`,
  `GtkFits`: the station's nonces are newer than any in use, it has no key but
  the last it has confirmed, it is still associated while the association lasts
  in which it has answered, and no frame that it could still accept brings a
  group key before its own. `LinkFits` ties both ends together, and `CountFits`
  bounds the group keys by the reports of Michael failures that are still on
  their way. TLC checked `HInv` on the instance of run `handshake`.
  The steps of the machines are treated once, by what they do to the frames
  (`QuietHolds`: nothing sent; `SendHolds`: one frame; `CalcHolds`, `DoneHolds`),
  composed over the rounds (`SmStepHolds`), and each handler is then a record it
  prepares (`ApStepHolds`). For the station, `Outcome` is what any end of
  `wpa_sm_rx_eapol` leaves, one lemma for each kind of frame. Of a step follows
  that it is one of the access point, which adopts the confirmed key or none
  (`KeepsKey`), or one of the station, which says a key before it uses it
  (`StaForward`): that gives the refinement. Theorems: `TypeCorrect`,
  `AlwaysSameKey`, `AnswersMeanKeys`, `CountermeasuresSpareNone`,
  `GroupKeyNeverBack`, `ImplementsAgreement`, under the one assumption about
  the limits (`HandshakeAssumption`): nothing is assumed of the frames that
  arrive, of drivers or of timers.

  Two things came out of looking for `HInv`. `NoneServed` as it was first
  stated, of whatever record the access point has while there is an association,
  does not hold from the third association on: until the report of a new
  association comes, the record is still the one of the association before. It
  is stated of the association that the access point knows of, and there of
  every associated station, with a key or without. And a 2/4 is taken before its MIC can be
  checked, so that it says nothing about the group key; `given` leaves it out.

Only model-checked: all liveness (`GivesUpWithoutDevice`, `KeepsRecording`,
`StepReturns`, `RekeyEnds`, `TimeoutServed`, `TermAnswered`, `Settles`), which
the prover does not do under fairness. Every other property of the passing runs
is a theorem.

## 7. Plan

Done: the daemon and its file, the schedule, the front end and the pid file, the
authenticator (as far as section 2 says), the event loop, the two ends of the
handshakes with TKIP countermeasures. What is left, in order of weight:

1. `KeyReplay`: the array of replay counters (`wpa_auth.c:629-642`, `1034-1039`,
   `1196-1205`) with the counter's byte-wise increment, as an implementation of
   the set of outstanding frames that `WpaAuth` uses.
2. `SampleClock` composed with `Logger`, and the first period after a
   reconnection.

## 8. Not modelled

* `view()` and the HTML: no state. `monitor.py`, `pcf8563ctl.py`, `halt.py`,
  scripts under `etc`: static, or one call.
* `FakeSerial` (`logger.py:43-54`) is dead code. Daemonizing's descriptors, the
  log's wording and the rounding of `"%.0f"` are left out.
* A torn row on a full disk: a row is written in one step.
* `delete()` of anything but a data file, and SIGINT of hostapd, which it
  answers as it does SIGTERM.
* hostapd other than the authenticator, the events that reach it, TKIP
  countermeasures and the event loop. 802.1X, EAP and RADIUS are idle under a
  pre-shared key; WPS and P2P are not enabled; 802.11r, 802.11w and PeerKey are
  not built. Cryptography is whether a MIC fits. In `wpa_auth.c` itself,
  `INITPMK` (802.1X), VLAN groups, `wpa_rekey_ptk`, strict rekeying and
  `wpa_reconfig` are left out: none is configured on the device.
  `wpa_gtk_rekey` is in `Handshake` (`MichaelMicFailure`), not in `WpaAuth`.
* `wpa_supplicant` other than the station's end of the handshakes and of the
  association (`Handshake`): scanning, EAP, P2P, WPS, its control interface. It
  is not run on the device. `WpaAuth` takes a station for anything that can
  send what the access point will accept.
* What `Handshake` leaves out although the code allows it: a station's request
  for a new group key (the supplicant has the code and this tree never calls it
  so; by itself it would cost a 4-way handshake its timer, `wpa_auth.c:972`),
  and the delay of a report of a Michael failure
  (`CONFIG_DELAYED_MIC_ERROR_REPORT`). A request for new pairwise keys made by
  the timer of `wpa.c:499` after its association has ended, with the key of that
  association, is left out. `wpa_gtk_rekey` makes new keys without
  giving them to the driver (`wpa_auth.c:2448`), unlike `wpa_rekey_gtk`: after
  countermeasures a station holds a group key that the driver does not use
  until the next rekeying. The model has the key a station is given, not the
  driver's. That the station has the *current* group key when things settle is
  not claimed: a rekeying during its 4-way handshake passes it over
  (`wpa_auth.c:2273`).
* The tree contains `hostapd/src` several times over (copies below
  `hostapd/hostapd/src` and `hostapd/wpa_supplicant/src`, and 802.11 drivers,
  P2P and TLS that are not configured): most of its lines are not part of the
  program the device runs.
