------------------------------ MODULE BrokerLife ------------------------------
(***************************************************************************)
(* The broker over more than one run (mosquitto/src/mosquitto.c): it saves *)
(* its database, is terminated or killed, and starts from the file, while  *)
(* its clients go on.                                                      *)
(***************************************************************************)
EXTENDS MqttSystem, BrokerPersist

CONSTANTS
    MaxBackups,     \* files saved while the broker runs
    MaxStops,       \* ends of a run
    MaxCuts         \* files saved while the disk is full

(* There are numbers for a context and a new connection of every client.   *)
ASSUME LifeAssumption ==
    {MaxBackups, MaxStops, MaxCuts} \subseteq Nat /\ 2 * Cardinality(Clients) <= Cardinality(Conns)

VARIABLES
    up,         \* the broker runs
    file,       \* persistence_filepath
    kept,       \* history: what routed was when the file was saved
    lives       \* bounded events so far

lifeVars == <<vars, up, file, kept, lives>>

LifeInit ==
    /\ Init
    /\ up = TRUE
    /\ file = NoFile
    /\ kept = [id \in Persistent |-> <<>>]
    /\ lives = [backups |-> 0, stops |-> 0, cuts |-> 0]

Count(what) == lives' = [lives EXCEPT ![what] = @ + 1]

(* A run of the broker, with a reload of the security files.               *)
Run ==
    /\ up
    /\ Next
    /\ kept' = IF used'.reloads = used.reloads THEN kept
               ELSE [id \in Persistent |->
                       SelectSeq(kept[id], LAMBDA m : MayRead(db'.sec, id, m.topic))]
    /\ UNCHANGED <<up, file, lives>>

(* Nobody answers: clients find their connections closed.                  *)
Alone ==
    /\ ~up
    /\ \E id \in Clients : Call(id) \/ SendConnect(id) \/ LoopMisc(id) \/ LoopClosed(id)
    /\ UNCHANGED <<up, file, kept, lives>>

(* mosquitto_main_loop: autosave, or SIGUSR1.                              *)
Backup ==
    /\ up
    /\ lives.backups < MaxBackups /\ Count("backups")
    /\ file' = mqtt3_db_backup(db)
    /\ kept' = routed
    /\ UNCHANGED <<vars, up>>

(* The disk is full.  An error while the messages are written keeps the    *)
(* old file; one in the clients or subscriptions, or in fflush and fsync,  *)
(* is not looked at and what has been written takes the old file's place.  *)
BackupCut ==
    /\ up
    /\ lives.cuts < MaxCuts /\ Count("cuts")
    /\ LET whole == mqtt3_db_backup(db).chunks
       IN \E k \in 0..(Len(whole) - 1), torn \in BOOLEAN : file' = File(SubSeq(whole, 1, k), torn)
    /\ kept' = routed
    /\ UNCHANGED <<vars, up>>

(* What is left when the process is gone: connections are closed, nobody's *)
(* will is published.                                                      *)
Gone ==
    /\ up' = FALSE
    /\ lives.stops < MaxStops /\ Count("stops")
    /\ db' = mqtt3_db_open(Files)
    /\ UNCHANGED <<cli, wire, todo, used>>

(* SIGTERM: main saves the database.                                       *)
Terminate ==
    /\ up
    /\ Gone
    /\ file' = mqtt3_db_backup(db)
    /\ kept' = routed /\ UNCHANGED routed

(* The process is killed, also in the middle of a backup: until the rename *)
(* the old file is in place.                                               *)
Crash ==
    /\ up
    /\ Gone
    /\ routed' = kept
    /\ UNCHANGED <<file, kept>>

(* main: the database is opened, then the security files are read.  A file *)
(* that cannot be restored ends the broker.                                *)
Fresh == Conns \ {cli[id].conn : id \in Clients}
Loaded == mqtt3_db_restore([mqtt3_db_open(Files) EXCEPT !.sec = Closed], Fresh, file)
Restart ==
    /\ ~up
    /\ up' = TRUE
    /\ \E r \in {Loaded} :
           /\ r.ok
           /\ db' = [r.db EXCEPT !.sec = mosquitto_security_init(Closed, Files)]
    /\ UNCHANGED <<cli, wire, todo, used, routed, file, kept, lives>>

LifeNext == Run \/ Alone \/ Backup \/ Terminate \/ Crash \/ Restart

LifeSpec == LifeInit /\ [][LifeNext]_lifeVars
DiskFullSpec == LifeInit /\ [][LifeNext \/ BackupCut]_lifeVars
-----------------------------------------------------------------------------
(* What a run owes to the next one: the sessions of persistent clients     *)
(* with their messages, their subscriptions, and retained messages.        *)
Content(d, s) == [f \in {"source", "source_mid", "topic", "qos", "retain", "payload"} |-> d.store[s][f]]
Sessions(d) ==
    {[id |-> d.ctx[c].id, last_mid |-> d.ctx[c].last_mid,
      msgs |-> [i \in DOMAIN d.ctx[c].msgs |->
                  [what |-> Content(d, d.ctx[c].msgs[i].store), msg |-> d.ctx[c].msgs[i]]]] :
        c \in {x \in DOMAIN d.ctx : Durable(d, x)}}
Subscriptions(d) ==
    UNION {{<<d.ctx[l.ctx].id, p, l.qos>> : l \in {x \in Range(d.subs[p]) : Durable(d, x.ctx)}} :
              p \in DOMAIN d.subs}
RetainedNow(d) ==
    {<<p, Content(d, d.retained[p])>> : p \in {q \in DOMAIN d.retained : d.retained[q] # 0}}
Estate(d) == <<d.last_db_id, Sessions(d), Subscriptions(d), RetainedNow(d)>>

(* What is written now can be read back, and says the same: whatever       *)
(* take-overs, expiries and half-done deliveries have left in the database.*)
RestoreExact ==
    up => \E r \in {mqtt3_db_restore([mqtt3_db_open(Files) EXCEPT !.sec = Closed], Conns,
                                     mqtt3_db_backup(db))} : r.ok /\ Estate(r.db) = Estate(db)

(* The references counted are those that exist, also after a restart; a    *)
(* message that only clean sessions were waiting for comes back without.   *)
RefCounts == \A s \in DOMAIN db.store : db.store[s].ref = References(s)

(* What the broker has accepted and not forgotten in a crash is there,     *)
(* across the end of a run as well.                                        *)
NoLossEver == up => NoLoss

(* A client is connected only with what the password file says now, and    *)
(* with the rights the acl file gives it now.                              *)
Current(context) ==
    /\ IF context.username = NoUser THEN Files.allow_anonymous
       ELSE mosquitto_unpwd_check(mosquitto_security_init(Closed, Files),
                                  context.username, context.password)
    /\ context.acl = AclOf(mosquitto_security_init(Closed, Files), context.username)
AclCurrent == \A c \in DOMAIN db.ctx :
    (db.ctx[c].sock /\ db.ctx[c].state = "connected") => Current(db.ctx[c])

(* persist.c: the new state file does not replace the old one before its   *)
(* contents are valid.                                                     *)
FileValid ==
    file.there => mqtt3_db_restore([mqtt3_db_open(Files) EXCEPT !.sec = Closed], Conns, file).ok

(* persist.c: $SYS messages are saved when a durable client may have them  *)
(* in its queue.                                                           *)
QueuedSaved ==
    up => \A c \in {x \in DOMAIN db.ctx : Durable(db, x)} : \A i \in DOMAIN db.ctx[c].msgs :
             ~Left(db, db.ctx[c].msgs[i].store)
=============================================================================
