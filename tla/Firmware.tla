------------------------------ MODULE Firmware -------------------------------
(***************************************************************************)
(* Firmware releases and their deployment: the files on disk and the rows  *)
(* that describe them (services/firmware.py), deployments and the          *)
(* assignments they create (services/deployments.py), the device endpoints *)
(* /firmware and /failsafe, and the part of a heartbeat that closes an     *)
(* assignment.  One device; the others are alike.                          *)
(*                                                                         *)
(* A release is a version in a channel.  Its file bears a name made from   *)
(* both, and names are not unique: version 1 of channel dev and version    *)
(* "1-dev" of channel stable are both uploaded as rebooter-1-dev.bin.  The *)
(* content of a file stands for its SHA-256.                               *)
(***************************************************************************)
EXTENDS Integers, Sequences, FiniteSets, FiniteSetsExt

CONSTANTS Releases,   \* the (version, channel) pairs
          Files,      \* file names
          Channels,   \* directories below the firmware directory
          FinalName,  \* release -> the name upload_release gives its file
          ChannelOf,  \* release -> its channel
          VersionOf,  \* release -> its version
          Parsed,     \* channel -> file -> the release the scan takes it for
          Contents,   \* distinct firmware images
          Workers,    \* threads of the hub
          MaxAssign,  \* bound: assignments ever created
          MaxOps,     \* bound: requests of operators and of the firmware team
          MaxFaults   \* bound: crashes and failed copies

ASSUME FirmwareAssumption ==
  /\ MaxAssign \in Nat /\ MaxOps \in Nat /\ MaxFaults \in Nat
  /\ FinalName \in [Releases -> Files] /\ ChannelOf \in [Releases -> Channels]
  /\ Parsed \in [Channels -> [Files -> Releases]]
  /\ \A ch \in Channels, f \in Files : ChannelOf[Parsed[ch][f]] = ch
  /\ "none" \notin Contents \cup Files /\ {"none", "gone"} \cap Releases = {}

VARIABLES flat,    \* file -> its content in the firmware directory
          chan,    \* channel -> file -> its content in the channel's directory
          rel,     \* release -> its row, or NoRow
          asg,     \* the assignments of the device, oldest first
          device,  \* what it runs, ran before, and has been offered
          job,     \* worker -> the request it serves
          done,    \* history: the newest assignment ever completed
          raced,   \* history: deployments or a delivery crossed a deployment
          touched, \* history: names whose files were changed behind the rows
          ops, faults

firmwareVars == <<flat, chan, rel, asg, device, job, done, raced, touched, ops, faults>>

None == "none"
NoRow == [file |-> None, sha |-> None, url |-> None]
NoOffer == [n |-> None, row |-> NoRow]
Idle == [op |-> "idle"]
Cut == "cut"   \* a copy that stopped half-way

Op == ops < MaxOps /\ ops' = ops + 1
Fault == faults < MaxFaults /\ faults' = faults + 1

\* Requests at work on name f.
Busy(f) == {w \in Workers : job[w].op \in {"replace", "copy", "insert", "hash", "scan"} /\ job[w].f = f}
\* The rows with file name f.
Namesakes(f) == {n \in Releases : rel[n].file = f}
\* Name f is in use, other than by the file of that name in channel ch.
Shared(ch, f) ==
  \/ Busy(f) # {} \/ Namesakes(f) # {}
  \/ \E d \in Channels \ {ch} : chan[d][f] # None
Touch(f, cond) == touched' = IF cond THEN touched \cup {f} ELSE touched

-----------------------------------------------------------------------------
(* Uploads: check the name, move the file into place, copy it into the     *)
(* channel's directory, insert the row.                                    *)

upload_check(w, n, c) ==
  LET f == FinalName[n]
  IN /\ job[w] = Idle /\ flat[f] = None /\ Op
     /\ job' = [job EXCEPT ![w] = [op |-> "replace", n |-> n, f |-> f, c |-> c]]
     /\ Touch(f, Shared(ChannelOf[n], f))
     /\ UNCHANGED <<flat, chan, rel, asg, device, done, raced, faults>>

upload_replace(w) ==
  LET j == job[w]
  IN /\ j.op = "replace"
     /\ flat' = [flat EXCEPT ![j.f] = j.c]
     /\ job' = [job EXCEPT ![w].op = "copy"]
     /\ UNCHANGED <<chan, rel, asg, device, done, raced, touched, ops, faults>>

upload_publish(w) ==
  LET j == job[w]
  IN /\ j.op = "copy"
     /\ chan' = [chan EXCEPT ![ChannelOf[j.n]][j.f] = j.c]
     /\ job' = [job EXCEPT ![w].op = "insert"]
     /\ UNCHANGED <<flat, rel, asg, device, done, raced, touched, ops, faults>>

\* copyfile raises: the upload goes on, over what the copy left.
upload_publish_fails(w) ==
  LET j == job[w]
      ch == ChannelOf[j.n]
  IN /\ j.op = "copy" /\ Fault
     /\ \E left \in {chan[ch][j.f], Cut} :
          /\ chan' = [chan EXCEPT ![ch][j.f] = left]
          /\ Touch(j.f, left # None)
     /\ job' = [job EXCEPT ![w].op = "insert"]
     /\ UNCHANGED <<flat, rel, asg, device, done, raced, ops>>

\* The loser of a race for the release removes the files, whoever wrote them.
upload_insert(w) ==
  LET j == job[w]
  IN /\ j.op = "insert"
     /\ IF rel[j.n] = NoRow
        THEN /\ rel' = [rel EXCEPT ![j.n] = [file |-> j.f, sha |-> j.c, url |-> "flat"]]
             /\ UNCHANGED <<flat, chan>>
        ELSE /\ flat' = [flat EXCEPT ![j.f] = None]
             /\ chan' = [chan EXCEPT ![ChannelOf[j.n]][j.f] = None]
             /\ UNCHANGED rel
     /\ job' = [job EXCEPT ![w] = Idle]
     /\ UNCHANGED <<asg, device, done, raced, touched, ops, faults>>

-----------------------------------------------------------------------------
(* The scan of the channel directories: read which names have a row, hash  *)
(* a file, write its row.  A scan of several files is several such jobs.   *)

\* `existing` is keyed by file name, whatever the channel of the row.
scan_begin(w, ch, f) ==
  /\ job[w] = Idle /\ chan[ch][f] # None /\ Op
  /\ \E to \in IF Namesakes(f) = {} THEN {None} ELSE Namesakes(f) :
       job' = [job EXCEPT ![w] = [op |-> "hash", ch |-> ch, f |-> f, to |-> to,
                                  c |-> IF to = None THEN None ELSE rel[to].sha]]
  /\ Touch(f, Busy(f) # {})
  /\ UNCHANGED <<flat, chan, rel, asg, device, done, raced, faults>>

\* A file that has gone, or has the hash of its row, is skipped.
scan_hash(w) ==
  LET j == job[w]
      found == chan[j.ch][j.f]
  IN /\ j.op = "hash"
     /\ job' = [job EXCEPT ![w] = IF found \in {None, j.c} THEN Idle
                                  ELSE [op |-> "scan", ch |-> j.ch, f |-> j.f, to |-> j.to, c |-> found]]
     /\ UNCHANGED <<flat, chan, rel, asg, device, done, raced, touched, ops, faults>>

\* Mutant: a discovered release points at the firmware directory.
DiscoveredFlat(j) == [file |-> j.f, sha |-> j.c, url |-> "flat"]

\* A discovered release points at the channel's directory.
Discovered(j) == [file |-> j.f, sha |-> j.c, url |-> "chan"]

\* A known name gets its row's hash updated, an unknown one a row of its own;
\* a row gone or come meanwhile is left.
discover_on_disk_releases(w) ==
  LET j == job[w]
      new == Parsed[j.ch][j.f]
  IN /\ j.op = "scan"
     /\ rel' = CASE j.to \in Releases -> [rel EXCEPT ![j.to].sha = j.c]
                 [] j.to = None /\ rel[new] = NoRow -> [rel EXCEPT ![new] = Discovered(j)]
                 [] OTHER -> rel
     /\ job' = [job EXCEPT ![w] = Idle]
     /\ UNCHANGED <<flat, chan, asg, device, done, raced, touched, ops, faults>>

\* The firmware team copies an image into a channel's directory.
TeamPlaces(ch, f, c) ==
  /\ chan[ch][f] # c /\ Op
  /\ chan' = [chan EXCEPT ![ch][f] = c]
  /\ Touch(f, Shared(ch, f))
  /\ UNCHANGED <<flat, rel, asg, device, job, done, raced, faults>>

\* Deleting a release unlinks the files of its name and, with the row, takes
\* the deployments and assignments of the release (ON DELETE CASCADE).
Unlinked(n) == LET f == rel[n].file
               IN /\ flat' = [flat EXCEPT ![f] = None]
                  /\ chan' = [chan EXCEPT ![ChannelOf[n]][f] = None]

\* A scan that had found the row will miss it.
delete_release(n) ==
  LET f == rel[n].file
  IN /\ rel[n] # NoRow /\ Op /\ Unlinked(n)
     /\ rel' = [rel EXCEPT ![n] = NoRow]
     /\ asg' = [i \in DOMAIN asg |->
                  IF asg[i].n = n THEN [asg[i] EXCEPT !.st = "deleted"] ELSE asg[i]]
     /\ job' = [w \in Workers |->
                  IF job[w].op \in {"hash", "scan"} /\ job[w].to = n
                  THEN [job[w] EXCEPT !.to = "gone"] ELSE job[w]]
     /\ touched' = CASE Busy(f) # {} -> touched \cup {f}
                     [] Busy(f) = {} /\ Namesakes(f) = {n}
                          /\ \A ch \in Channels \ {ChannelOf[n]} : chan[ch][f] = None -> touched \ {f}
                     [] OTHER -> touched
     /\ UNCHANGED <<device, done, raced, faults>>

\* The files are unlinked before the commit: a crash leaves the row alone.
delete_release_crashes(n) ==
  /\ rel[n] # NoRow /\ Fault /\ Unlinked(n)
  /\ Touch(rel[n].file, TRUE)
  /\ UNCHANGED <<rel, asg, device, job, done, raced, ops>>

\* The hub restarts: its requests end where they are.
restart_hub ==
  /\ Fault /\ job # [w \in Workers |-> Idle]
  /\ job' = [w \in Workers |-> Idle]
  /\ asg' = [i \in DOMAIN asg |-> IF asg[i].st = "open" THEN [asg[i] EXCEPT !.st = "deleted"] ELSE asg[i]]
  /\ UNCHANGED <<flat, chan, rel, device, done, raced, touched, ops>>

-----------------------------------------------------------------------------
(* Deployments.                                                            *)

Active == {i \in DOMAIN asg : asg[i].st \in {"pending", "delivered"}}
Current == IF Active = {} THEN 0 ELSE Max(Active)

\* Mutant: a new deployment leaves the older assignments active.
SupersedesNothing(s) == {}

\* The assignments a new deployment supersedes.
Supersedes(s) == s

\* The statement that supersedes sees only what is committed when it runs.
create_deployment(w, n) ==
  /\ job[w] = Idle /\ rel[n] # NoRow /\ Len(asg) < MaxAssign /\ Op
  /\ asg' = Append(asg, [n |-> n, st |-> "open"])
  /\ job' = [job EXCEPT ![w] = [op |-> "deploy", i |-> Len(asg) + 1, old |-> Supersedes(Active)]]
  /\ raced' = (raced \/ \E v \in Workers : job[v].op = "deploy")
  /\ UNCHANGED <<flat, chan, rel, device, done, touched, faults>>

create_deployment_commit(w) ==
  LET j == job[w]
  IN /\ j.op = "deploy"
     /\ asg' = [i \in DOMAIN asg |->
          CASE i = j.i /\ asg[i].st = "open" -> [asg[i] EXCEPT !.st = "pending"]
            [] i \in j.old /\ i \in Active -> [asg[i] EXCEPT !.st = "superseded"]
            [] OTHER -> asg[i]]
     /\ job' = [job EXCEPT ![w] = Idle]
     /\ UNCHANGED <<flat, chan, rel, device, done, raced, touched, ops, faults>>

\* GET /device/firmware: the offer is read in one transaction ...
assignment_for_device(w) ==
  /\ job[w] = Idle /\ Current # 0 /\ device.offer = NoOffer
  /\ \A v \in Workers : job[v].op \notin {"offer", "mark"}
  /\ LET n == asg[Current].n
     IN job' = [job EXCEPT ![w] = [op |-> "offer", offer |-> [n |-> n, row |-> rel[n]]]]
  /\ UNCHANGED <<flat, chan, rel, asg, device, done, raced, touched, ops, faults>>

\* ... and in another the newest pending assignment, if there is one, is
\* selected,
select_pending(w) ==
  LET pending == {i \in DOMAIN asg : asg[i].st = "pending"}
  IN /\ job[w].op = "offer"
     /\ job' = [job EXCEPT ![w] = [op |-> "mark", offer |-> job[w].offer,
                                   i |-> IF pending = {} THEN 0 ELSE Max(pending)]]
     /\ UNCHANGED <<flat, chan, rel, asg, device, done, raced, touched, ops, faults>>

\* and updated by its primary key, whatever has become of it: superseded or even
\* completed, it is delivered again.  The update waits for a deployment that is
\* superseding it; if the row has gone the request fails.
mark_assignment_delivered(w) ==
  LET i == job[w].i
  IN /\ job[w].op = "mark"
     /\ \A v \in Workers : job[v].op = "deploy" => i \notin job[v].old
     /\ IF i = 0
        THEN device' = [device EXCEPT !.offer = job[w].offer] /\ UNCHANGED <<asg, raced>>
        ELSE IF asg[i].st = "deleted" THEN UNCHANGED <<device, asg, raced>>
        ELSE /\ device' = [device EXCEPT !.offer = job[w].offer]
             /\ asg' = [asg EXCEPT ![i].st = "delivered"]
             /\ raced' = (raced \/ asg[i].st # "pending")
     /\ job' = [job EXCEPT ![w] = Idle]
     /\ UNCHANGED <<flat, chan, rel, done, touched, ops, faults>>

\* Mutant: heartbeats never close an assignment.
ReachedNever(i) == FALSE

Reached(i) == device.runs = VersionOf[asg[i].n]

\* The heartbeat reports the running version and completes the assignment.  (It
\* too updates the row it has read: one superseded meanwhile ends all the same.)
reconcile_assignment_reported_version ==
  /\ Current # 0 /\ Reached(Current)
  /\ asg' = [asg EXCEPT ![Current].st = "completed"]
  /\ done' = Max({done, Current})
  /\ UNCHANGED <<flat, chan, rel, device, job, raced, touched, ops, faults>>

-----------------------------------------------------------------------------
(* The device: it downloads what the offer points to, verifies the hash    *)
(* and boots it; an image that does not come up falls back and is reported.*)

Served(n, row) == IF row.url = "flat" THEN flat[row.file] ELSE chan[ChannelOf[n]][row.file]

Install ==
  /\ device.offer # NoOffer
  /\ device' = IF Served(device.offer.n, device.offer.row) = device.offer.row.sha
               THEN [runs |-> VersionOf[device.offer.n], before |-> device.runs, offer |-> NoOffer]
               ELSE [device EXCEPT !.offer = NoOffer]
  /\ UNCHANGED <<flat, chan, rel, asg, job, done, raced, touched, ops, faults>>

FallBack ==
  /\ device.runs # device.before
  /\ device' = [device EXCEPT !.runs = device.before]
  /\ UNCHANGED <<flat, chan, rel, asg, job, done, raced, touched, ops, faults>>

-----------------------------------------------------------------------------
(* The pages and the API: a mass deployment that is not confirmed, or a    *)
(* release that is refused, changes nothing.                               *)

firmware_upload_submit(w, n, c) == upload_check(w, n, c)

firmware_scan_submit(w, ch, f) == scan_begin(w, ch, f)

firmware_deploy_submit(w, n) == create_deployment(w, n)

-----------------------------------------------------------------------------
FirmwareInit ==
  /\ flat = [f \in Files |-> None] /\ chan = [ch \in Channels |-> [f \in Files |-> None]]
  /\ rel = [n \in Releases |-> NoRow] /\ asg = <<>>
  /\ device = [runs |-> None, before |-> None, offer |-> NoOffer]
  /\ job = [w \in Workers |-> Idle]
  /\ done = 0 /\ raced = FALSE /\ touched = {} /\ ops = 0 /\ faults = 0

WorkerNext(w) ==
  \/ upload_replace(w) \/ upload_publish(w) \/ upload_insert(w)
  \/ scan_hash(w) \/ discover_on_disk_releases(w) \/ create_deployment_commit(w)
  \/ assignment_for_device(w) \/ select_pending(w) \/ mark_assignment_delivered(w)

FirmwareNext ==
  \/ \E w \in Workers, n \in Releases :
       (\E c \in Contents : firmware_upload_submit(w, n, c)) \/ firmware_deploy_submit(w, n)
  \/ \E w \in Workers, ch \in Channels, f \in Files : firmware_scan_submit(w, ch, f)
  \/ \E n \in Releases : delete_release(n) \/ delete_release_crashes(n)
  \/ \E ch \in Channels, f \in Files, c \in Contents : TeamPlaces(ch, f, c)
  \/ \E w \in Workers : WorkerNext(w) \/ upload_publish_fails(w)
  \/ restart_hub \/ reconcile_assignment_reported_version \/ Install \/ FallBack

\* Requests finish; the device keeps asking, installing and reporting.
FirmwareFairness ==
  /\ \A w \in Workers : WF_firmwareVars(WorkerNext(w))
  /\ WF_firmwareVars(reconcile_assignment_reported_version) /\ WF_firmwareVars(Install)

FirmwareSpec == FirmwareInit /\ [][FirmwareNext]_firmwareVars /\ FirmwareFairness

-----------------------------------------------------------------------------
(* Properties.                                                             *)

\* The file a release points devices to has the hash its row tells them to
\* verify: the three steps of an upload, a failed copy into the channel's
\* directory and scans of it included.  Unless the name's files were changed
\* behind the rows: two requests overlapped on the name, an upload or the team
\* used the name of a known release or of a file in another channel (the scan
\* looks rows up by file name alone), a failed copy left another file in the
\* channel's directory, or a deletion crashed.
ReleaseServesItsHash ==
  \A n \in Releases : rel[n] # NoRow /\ rel[n].file \notin touched => Served(n, rel[n]) = rel[n].sha

\* When the device has completed a deployment, the hub never goes back to an
\* older one (create_deployment supersedes it), unless two deployments were
\* created at the same time, or one was superseded or completed between the
\* SELECT and the UPDATE of mark_assignment_delivered, which brings it back.
OlderNeverResumes == Current # 0 /\ Current < done => raced

\* A device that keeps asking gets through its assignment: it completes, is
\* superseded or deleted, unless the release's files were tampered with or the
\* image falls back for ever: the hub offers it again each time.
RolloutEnds ==
  <>[][~FallBack]_firmwareVars =>
    []<>(Current = 0 \/ rel[asg[Current].n].file \in touched)

=============================================================================
