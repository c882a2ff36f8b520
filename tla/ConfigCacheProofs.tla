------------------------- MODULE ConfigCacheProofs -------------------------
(***************************************************************************)
(* No change of an option is missed, for any number of caches, options and *)
(* groups: ConfigCache, as the second component of MCDispatch.             *)
(***************************************************************************)
EXTENDS MCDispatch, TLAPS

(* A change that cache c still has to report.                              *)
Left(c, o) == (Config!Differs(c, o) \/ o \in due[c]) /\ o \notin raced[c]

(* Timestamps never run ahead of their sources, and a forced write that is *)
(* due is the last change of all.                                          *)
Timed ==
  /\ \A g \in Config!Groups : shadow.gts[g] <= shadow.ts
  /\ \A c \in Caches : cache[c].ts <= shadow.ts
  /\ \A c \in Caches, g \in Config!Groups : cache[c].gts[g] <= shadow.gts[g]
  /\ \A c \in Caches : \A o \in due[c] : o \in Config!Viewed(c) /\ shadow.force[o] = shadow.ts

(* An update is under way when it holds the lock, and none is between two. *)
Rests ==
  \A c \in Caches :
    /\ does[c] = "idle" => cache[c].upd = Config!Done
    /\ does[c] = "lock" => cache[c].upd # Config!Done
    /\ c \notin Stepwise => cache[c].upd = IF does[c] = "lock" THEN 0 ELSE Config!Done

(* The update under way will pass o: it looks for forced writes by the     *)
(* timestamp that it found.                                                *)
Ahead(c, o) ==
  /\ o > cache[c].upd
  /\ o \in due[c] /\ does[c] = "lock" => cache[c].ts = shadow.ts

(* The next one will, of which the cache is told.                          *)
Again(c, o) ==
  /\ cache[c].ts < shadow.ts
  /\ does[c] = "lock" => /\ c \in notified /\ cache[c].upd \in Config!Options
                       /\ Group[o] < Group[cache[c].upd]

Coming ==
  \A c \in Caches, o \in Config!Options :
    Left(c, o) => /\ cache[c].gts[Group[o]] < shadow.gts[Group[o]]
                  /\ Ahead(c, o) \/ Again(c, o)

CacheInv == Config!TypeOK /\ Timed /\ Rests /\ Coming /\ Config!Told
-----------------------------------------------------------------------------
(* Initially the caches equal the source, and nothing is under way.       *)
LEMMA CacheInit == ASSUME Config!Assumption, Config!Init PROVE CacheInv
<1>1. Config!Default \in Values
  BY DEF Config!Assumption, Config!Default
<1>2. Config!TypeOK
  BY <1>1 DEF Config!Assumption, Config!Init, Config!TypeOK, Config!Done, Config!Options
<1>3. Timed
  BY DEF Config!Init, Timed
<1>4. Rests
  BY DEF Config!Init, Rests
<1>5. Coming /\ Config!Told
  BY DEF Config!Assumption, Config!Init, Coming, Config!Told, Left, Config!Differs, Config!Viewed
<1> QED
  BY <1>2, <1>3, <1>4, <1>5 DEF CacheInv

(* Options have groups, and their numbers are below Done.                  *)
LEMMA Numbers ==
  ASSUME Config!Assumption
  PROVE  /\ Config!Done \in Nat /\ Config!Done > 0 /\ Config!Done \notin Config!Options
         /\ \A o \in Config!Options : o \in Nat /\ 0 < o /\ o < Config!Done /\ Group[o] \in Config!Groups
         /\ Config!Groups \subseteq Nat
  BY DEF Config!Assumption, Config!Done, Config!Options, Config!Groups
-----------------------------------------------------------------------------
(* A write is noted by the timestamps of its group and of all, and every   *)
(* cache that has the group is notified.                                   *)
LEMMA WriteType ==
  ASSUME Config!Assumption, Config!TypeOK, NEW c \in Caches, NEW o \in Config!Options, NEW v \in Values,
         Config!Write(c, o, v)
  PROVE  Config!TypeOK'
<1> DEFINE changed == v # shadow.value[o] \/ o \in Forced
           ts == shadow.ts + 1
           value(old) == [old EXCEPT !.value[o] = v]
<1>1. cache' \in [Caches -> [value : [Config!Options -> Values], ts : 0..MaxWrites,
                           gts : [Config!Groups -> 0..MaxWrites], upd : {0, Config!Done} \cup Config!Options]]
  <2>1. cache' = [cache EXCEPT ![c].value[o] = v]
    BY Zenon DEF Config!Write
  <2>3. cache' = [cache EXCEPT ![c] = value(cache[c])]
    BY <2>1
  <2>2. value(cache[c]) \in [value : [Config!Options -> Values], ts : 0..MaxWrites,
                           gts : [Config!Groups -> 0..MaxWrites], upd : {0, Config!Done} \cup Config!Options]
    <3>1. cache[c] \in [value : [Config!Options -> Values], ts : 0..MaxWrites,
                        gts : [Config!Groups -> 0..MaxWrites], upd : {0, Config!Done} \cup Config!Options]
      BY DEF Config!TypeOK
    <3>2. value(cache[c]) = [cache[c] EXCEPT !.value = [cache[c].value EXCEPT ![o] = v]]
      BY Zenon
    <3>3. [cache[c].value EXCEPT ![o] = v] \in [Config!Options -> Values]
      BY <3>1
    <3> HIDE DEF value
    <3> QED
      BY <3>1, <3>2, <3>3
  <2> QED
    BY <2>2, <2>3 DEF Config!TypeOK
<1>2. CASE ~changed
  BY <1>1, <1>2 DEF Config!TypeOK, Config!Write
<1>3. CASE changed
  <2>1. ts \in 0..MaxWrites
    BY DEF Config!TypeOK, Config!Write, Config!Assumption
  <2>2. /\ shadow' = [value |-> [shadow.value EXCEPT ![o] = v], ts |-> ts,
                      gts |-> [shadow.gts EXCEPT ![Group[o]] = ts],
                      force |-> [p \in Forced |-> IF p = o THEN ts ELSE shadow.force[p]]]
        /\ notified' = notified \cup Config!Listeners(o)
        /\ due' = [d \in Caches |-> {o} \cap Forced \cap (IF d = c THEN {} ELSE Config!Viewed(d))]
        /\ raced' = [d \in Caches |-> IF Config!Race(d, o) THEN raced[d] \cup {o} ELSE raced[d] \ {o}]
    BY <1>3, Zenon DEF Config!Write
  <2>3. shadow' \in [value : [Config!Options -> Values], ts : 0..MaxWrites,
                     gts : [Config!Groups -> 0..MaxWrites], force : [Forced -> 0..MaxWrites]]
    BY <2>1, <2>2 DEF Config!TypeOK
  <2>4. notified' \subseteq Caches
    BY <2>2 DEF Config!TypeOK, Config!Listeners
  <2>5. due' \in [Caches -> SUBSET Forced] /\ raced' \in [Caches -> SUBSET Config!Options]
    BY <2>2 DEF Config!TypeOK
  <2> QED
    BY <1>1, <2>3, <2>4, <2>5 DEF Config!TypeOK, Config!Write
<1> QED
  BY <1>2, <1>3

(* What a write leaves of the caches, and what it makes of the rest.       *)
Copied(c, o, v) ==
  \A d \in Caches :
    /\ cache'[d].ts = cache[d].ts /\ cache'[d].gts = cache[d].gts
    /\ cache'[d].upd = cache[d].upd
    /\ \A p \in Config!Options :
         cache'[d].value[p] = IF d = c /\ p = o THEN v ELSE cache[d].value[p]

Same(o, v) == UNCHANGED <<shadow, notified, due, raced>> /\ v = shadow.value[o]

Noted(c, o, v) ==
  /\ \A p \in Config!Options : shadow'.value[p] = IF p = o THEN v ELSE shadow.value[p]
  /\ shadow'.ts = shadow.ts + 1
  /\ \A g \in Config!Groups :
       shadow'.gts[g] = IF g = Group[o] THEN shadow.ts + 1 ELSE shadow.gts[g]
  /\ o \in Forced => shadow'.force[o] = shadow.ts + 1
  /\ notified' = notified \cup Config!Listeners(o)
  /\ \A d \in Caches :
       /\ due'[d] = {o} \cap Forced \cap (IF d = c THEN {} ELSE Config!Viewed(d))
       /\ raced'[d] = IF Config!Race(d, o) THEN raced[d] \cup {o} ELSE raced[d] \ {o}

LEMMA WriteEffect ==
  ASSUME Config!Assumption, Config!TypeOK, NEW c \in Caches, NEW o \in Config!Options, NEW v \in Values,
         Config!Write(c, o, v)
  PROVE  Copied(c, o, v) /\ (Same(o, v) \/ Noted(c, o, v))
<1> DEFINE changed == v # shadow.value[o] \/ o \in Forced
<1>1. ASSUME NEW d \in Caches
      PROVE  /\ cache'[d].ts = cache[d].ts /\ cache'[d].gts = cache[d].gts
             /\ cache'[d].upd = cache[d].upd
             /\ \A p \in Config!Options :
                  cache'[d].value[p] = IF d = c /\ p = o THEN v ELSE cache[d].value[p]
  <2> DEFINE row == [cache[c] EXCEPT !.value[o] = v]
  <2>1. cache' = [cache EXCEPT ![c].value[o] = v]
    BY Zenon DEF Config!Write
  <2>2. cache' = [cache EXCEPT ![c] = row]
    BY <2>1
  <2>3. row = [cache[c] EXCEPT !.value = [cache[c].value EXCEPT ![o] = v]]
    BY Zenon
  <2> HIDE DEF row
  <2>4. cache'[d] = IF d = c THEN row ELSE cache[d]
    BY <2>2 DEF Config!TypeOK
  <2>5. cache[c] \in [value : [Config!Options -> Values], ts : 0..MaxWrites,
                      gts : [Config!Groups -> 0..MaxWrites], upd : {0, Config!Done} \cup Config!Options]
    BY DEF Config!TypeOK
  <2>6. /\ row.ts = cache[c].ts /\ row.gts = cache[c].gts /\ row.upd = cache[c].upd
        /\ row.value = [cache[c].value EXCEPT ![o] = v]
    BY <2>3, <2>5
  <2>7. \A p \in Config!Options : row.value[p] = IF p = o THEN v ELSE cache[c].value[p]
    BY <2>5, <2>6
  <2> QED
    BY <2>4, <2>6, <2>7
<1>2. CASE ~changed
  BY <1>1, <1>2 DEF Config!Write, Copied, Same
<1>3. CASE changed
  <2>1. /\ shadow' = [value |-> [shadow.value EXCEPT ![o] = v], ts |-> shadow.ts + 1,
                      gts |-> [shadow.gts EXCEPT ![Group[o]] = shadow.ts + 1],
                      force |-> [p \in Forced |-> IF p = o THEN shadow.ts + 1
                                                  ELSE shadow.force[p]]]
        /\ notified' = notified \cup Config!Listeners(o)
        /\ due' = [d \in Caches |-> {o} \cap Forced \cap (IF d = c THEN {} ELSE Config!Viewed(d))]
        /\ raced' = [d \in Caches |-> IF Config!Race(d, o) THEN raced[d] \cup {o} ELSE raced[d] \ {o}]
    BY <1>3, Zenon DEF Config!Write
  <2>2. /\ \A p \in Config!Options : shadow'.value[p] = IF p = o THEN v ELSE shadow.value[p]
        /\ shadow'.ts = shadow.ts + 1
        /\ \A g \in Config!Groups :
             shadow'.gts[g] = IF g = Group[o] THEN shadow.ts + 1 ELSE shadow.gts[g]
        /\ o \in Forced => shadow'.force[o] = shadow.ts + 1
    BY <2>1 DEF Config!TypeOK
  <2> QED
    BY <1>1, <2>1, <2>2, Zenon DEF Copied, Noted
<1> QED
  BY <1>2, <1>3

(* The timestamps are numbers.                                             *)
LEMMA Stamps ==
  ASSUME Config!Assumption, Config!TypeOK
  PROVE  /\ shadow.ts \in Nat /\ \A g \in Config!Groups : shadow.gts[g] \in Nat
         /\ \A c \in Caches : /\ cache[c].ts \in Nat /\ cache[c].upd \in {0, Config!Done} \cup Config!Options
                              /\ \A g \in Config!Groups : cache[c].gts[g] \in Nat
<1>1. shadow.ts \in Nat /\ \A g \in Config!Groups : shadow.gts[g] \in Nat
  BY DEF Config!TypeOK, Config!Assumption
<1>2. ASSUME NEW c \in Caches
      PROVE  /\ cache[c].ts \in Nat /\ cache[c].upd \in {0, Config!Done} \cup Config!Options
             /\ \A g \in Config!Groups : cache[c].gts[g] \in Nat
  <2>1. cache[c] \in [value : [Config!Options -> Values], ts : 0..MaxWrites,
                      gts : [Config!Groups -> 0..MaxWrites], upd : {0, Config!Done} \cup Config!Options]
    BY DEF Config!TypeOK
  <2> QED
    BY <2>1 DEF Config!Assumption
<1> QED
  BY <1>1, <1>2

(* The writer has nothing to report; every other cache that has the option *)
(* passes it later, or will have to start again.                           *)
LEMMA WriteStep ==
  ASSUME Config!Assumption, CacheInv, NEW c \in Caches, NEW o \in Config!Options, NEW v \in Values,
         Config!Write(c, o, v)
  PROVE  CacheInv'
<1>0. Copied(c, o, v) /\ (Same(o, v) \/ Noted(c, o, v))
  BY WriteEffect DEF CacheInv
<1> USE DEF CacheInv, Copied, Same, Noted
<1>1. Config!TypeOK'
  BY WriteType
<1>2. does' = does /\ does[c] # "lock" /\ o \in Config!Viewed(c)
  BY DEF Config!Write
<1>3. Copied(c, o, v)
  BY <1>0
<1>4. Rests'
  BY <1>2, <1>3 DEF Rests
<1>5. CASE Same(o, v)
  <2>1. Timed'
    BY <1>3, <1>5 DEF Timed, Config!Viewed
  <2>2. \A d \in Caches, p \in Config!Options : Left(d, p)' => Left(d, p)
    BY <1>3, <1>5 DEF Left, Config!Differs, Config!Viewed
  <2>3. Coming'
    BY <1>2, <1>3, <1>5, <2>2 DEF Coming, Ahead, Again
  <2>4. Config!Told'
    BY <1>2, <1>5, <2>2 DEF Config!Told, Left
  <2> QED
    BY <1>1, <1>4, <2>1, <2>3, <2>4
<1>6. CASE Noted(c, o, v)
  <2>0. ASSUME NEW d \in Caches, NEW p \in due'[d]
        PROVE  p = o /\ o \in Forced /\ p \in Config!Viewed(d)
    <3>1. p \in {o} \cap Forced \cap (IF d = c THEN {} ELSE Config!Viewed(d))
      BY <1>6
    <3> QED
      BY <3>1, Zenon
  <2>1. Timed'
    <3>1. \A g \in Config!Groups : (shadow.gts[g] <= shadow.ts)'
      BY <1>6, Stamps, Numbers DEF Timed
    <3>2. \A d \in Caches : (cache[d].ts <= shadow.ts)'
      BY <1>3, <1>6, Stamps DEF Timed
    <3>3. \A d \in Caches, g \in Config!Groups : (cache[d].gts[g] <= shadow.gts[g])'
      BY <1>3, <1>6, Stamps DEF Timed
    <3>4. \A d \in Caches : \A p \in due'[d] : p \in Config!Viewed(d) /\ shadow'.force[p] = shadow'.ts
      BY <1>6, <2>0
    <3> QED
      BY <3>1, <3>2, <3>3, <3>4 DEF Timed, Config!Viewed
  <2>2. ASSUME NEW d \in Caches, NEW p \in Config!Options, p # o, Left(d, p)'
        PROVE  /\ (cache[d].gts[Group[p]] < shadow.gts[Group[p]])'
               /\ Ahead(d, p)' \/ Again(d, p)'
               /\ (d \in notified \/ does[d] # "idle")'
    <3>1. p \notin due'[d] /\ Left(d, p)
      <4>1. p \notin due'[d] /\ p \notin raced[d]
        BY <1>6, <2>0, <2>2, ZenonT(60) DEF Left
      <4>2. /\ cache'[d].value[p] = cache[d].value[p]
            /\ shadow'.value[p] = shadow.value[p]
        BY <1>3, <1>6, <2>2
      <4> QED
        BY <2>2, <4>1, <4>2 DEF Left, Config!Differs, Config!Viewed
    <3>2. /\ cache[d].gts[Group[p]] < shadow.gts[Group[p]]
          /\ Ahead(d, p) \/ Again(d, p)
          /\ d \in notified \/ does[d] # "idle"
      BY <3>1 DEF Coming, Config!Told, Left
    <3>3. (cache[d].gts[Group[p]] < shadow.gts[Group[p]])'
      BY <1>3, <1>6, <3>2, Numbers, Stamps DEF Timed
    <3>4. Ahead(d, p)' \/ Again(d, p)'
      BY <1>2, <1>3, <1>6, <3>1, <3>2, Stamps DEF Ahead, Again
    <3> QED
      BY <1>2, <1>6, <3>2, <3>3, <3>4
  <2>3. ASSUME NEW d \in Caches, Left(d, o)'
        PROVE  /\ (cache[d].gts[Group[o]] < shadow.gts[Group[o]])'
               /\ Ahead(d, o)' \/ Again(d, o)'
               /\ d \in notified'
    <3>1. o \in Config!Viewed(d) /\ ~Config!Race(d, o)
      BY <1>6, <2>3 DEF Left, Config!Differs, Config!Viewed
    <3>2. d \in notified'
      BY <1>6, <3>1 DEF Config!Listeners, Config!Viewed
    <3>3. (cache[d].gts[Group[o]] < shadow.gts[Group[o]])'
      <4>1. Group[o] \in Config!Groups
        BY Numbers
      <4>2. cache[d].gts[Group[o]] <= shadow.gts[Group[o]] /\ shadow.gts[Group[o]] <= shadow.ts
        BY <4>1 DEF Timed
      <4> QED
        BY <1>3, <1>6, <4>1, <4>2, Stamps
    <3>4. CASE does[d] # "lock"
      <4>1. cache[d].ts <= shadow.ts
        BY DEF Timed
      <4>2. Again(d, o)'
        BY <1>2, <1>3, <1>6, <3>4, <4>1, Stamps DEF Again
      <4> QED
        BY <3>2, <3>3, <4>2
    <3>5. CASE does[d] = "lock" /\ o > cache[d].upd
      <4>1. o \notin due'[d]
        BY <1>6, <3>1, <3>5 DEF Config!Race
      <4>2. Ahead(d, o)'
        BY <1>3, <3>5, <4>1 DEF Ahead
      <4> QED
        BY <3>2, <3>3, <4>2
    <3>6. CASE does[d] = "lock" /\ ~(o > cache[d].upd)
      <4>1. cache[d].upd \in Config!Options
        BY <3>6, Stamps, Numbers DEF Rests
      <4>2. Group[cache[d].upd] # Group[o]
        BY <3>1, <3>6, <4>1, Numbers DEF Config!Race
      <4>3. Group[o] < Group[cache[d].upd]
        BY <3>6, <4>1, <4>2, Numbers DEF Config!Assumption
      <4>4. cache[d].ts < shadow'.ts
        BY <1>6, Stamps DEF Timed
      <4>5. Again(d, o)'
        BY <1>3, <3>2, <4>1, <4>3, <4>4 DEF Again
      <4> QED
        BY <3>2, <3>3, <4>5
    <3> QED
      BY <3>4, <3>5, <3>6
  <2> QED
    BY <1>1, <1>4, <2>1, <2>2, <2>3 DEF Coming, Config!Told, Left
<1> HIDE DEF CacheInv, Copied, Same, Noted
<1> QED
  BY <1>0, <1>5, <1>6
-----------------------------------------------------------------------------
(* An update begins; nobody is left who is not told of a change.           *)
LEMMA CallStep ==
  ASSUME CacheInv, NEW c \in Caches, Config!Notified(c) \/ Config!Poll(c)
  PROVE  CacheInv'
<1> USE DEF CacheInv
<1>1. /\ does[c] = "idle" /\ does' = [does EXCEPT ![c] = "check"]
      /\ UNCHANGED <<shadow, cache, due, raced>>
      /\ notified' = notified \/ notified' = notified \ {c}
  BY DEF Config!Notified, Config!Poll, Config!Call
<1>2. \A d \in Caches : does'[d] = IF d = c THEN "check" ELSE does[d]
  BY <1>1 DEF Config!TypeOK
<1>3. Config!TypeOK'
  BY <1>1 DEF Config!TypeOK
<1>4. Timed'
  BY <1>1 DEF Timed, Config!Viewed
<1>5. Rests'
  BY <1>1, <1>2 DEF Rests
<1>6. Coming'
  BY <1>1, <1>2 DEF Coming, Left, Config!Differs, Config!Viewed, Ahead, Again
<1>7. Config!Told'
  BY <1>1, <1>2 DEF Config!Told, Config!Differs, Config!Viewed
<1> QED
  BY <1>3, <1>4, <1>5, <1>6, <1>7

(* The update starts again if there was any write since.                   *)
LEMMA CheckStep ==
  ASSUME Config!Assumption, CacheInv, NEW c \in Caches, Config!Check(c)
  PROVE  CacheInv'
<1> DEFINE newer == cache[c].ts < shadow.ts
<1> USE DEF CacheInv
<1>1. /\ does[c] = "check" /\ UNCHANGED <<shadow, notified, due, raced>>
      /\ cache' = IF newer THEN [cache EXCEPT ![c].ts = shadow.ts, ![c].upd = 0] ELSE cache
      /\ does' = [does EXCEPT ![c] = IF newer \/ (c \in Stepwise /\ cache[c].upd # Config!Done)
                                 THEN "lock" ELSE "idle"]
  BY Zenon DEF Config!Check
<1>2. \A d \in Caches :
        does'[d] = IF d # c THEN does[d]
                 ELSE IF newer \/ (c \in Stepwise /\ cache[c].upd # Config!Done) THEN "lock" ELSE "idle"
  BY <1>1 DEF Config!TypeOK
<1>3. /\ cache' \in [Caches -> [value : [Config!Options -> Values], ts : 0..MaxWrites,
                                gts : [Config!Groups -> 0..MaxWrites], upd : {0, Config!Done} \cup Config!Options]]
      /\ \A d \in Caches :
           /\ cache'[d].value = cache[d].value /\ cache'[d].gts = cache[d].gts
           /\ cache'[d].ts = IF d = c /\ newer THEN shadow.ts ELSE cache[d].ts
           /\ cache'[d].upd = IF d = c /\ newer THEN 0 ELSE cache[d].upd
  <2>1. CASE newer
    <3> DEFINE row == [cache[c] EXCEPT !.ts = shadow.ts, !.upd = 0]
    <3>1. cache' = [cache EXCEPT ![c] = row]
      BY <1>1, <2>1
    <3>2. shadow.ts \in 0..MaxWrites
      BY DEF Config!TypeOK
    <3>3. cache[c] \in [value : [Config!Options -> Values], ts : 0..MaxWrites,
                        gts : [Config!Groups -> 0..MaxWrites], upd : {0, Config!Done} \cup Config!Options]
      BY DEF Config!TypeOK
    <3>4. /\ row \in [value : [Config!Options -> Values], ts : 0..MaxWrites,
                      gts : [Config!Groups -> 0..MaxWrites], upd : {0, Config!Done} \cup Config!Options]
          /\ row.value = cache[c].value /\ row.gts = cache[c].gts
          /\ row.ts = shadow.ts /\ row.upd = 0
      BY <3>2, <3>3
    <3> HIDE DEF row
    <3> QED
      BY <2>1, <3>1, <3>4 DEF Config!TypeOK
  <2>2. CASE ~newer
    BY <1>1, <2>2 DEF Config!TypeOK
  <2> QED
    BY <2>1, <2>2
<1>4. Config!TypeOK'
  BY <1>1, <1>3 DEF Config!TypeOK
<1>5. Timed'
  BY <1>1, <1>3, Stamps DEF Timed, Config!Viewed
<1>6. Rests'
  BY <1>1, <1>2, <1>3, Numbers DEF Rests
<1>7. ASSUME NEW d \in Caches, NEW o \in Config!Options, Left(d, o)'
      PROVE  /\ (cache[d].gts[Group[o]] < shadow.gts[Group[o]])'
             /\ Ahead(d, o)' \/ Again(d, o)'
             /\ (d \in notified \/ does[d] # "idle")'
  <2>1. Left(d, o)
    BY <1>1, <1>3, <1>7 DEF Left, Config!Differs, Config!Viewed
  <2>2. /\ cache[d].gts[Group[o]] < shadow.gts[Group[o]]
        /\ Ahead(d, o) \/ Again(d, o)
        /\ d \in notified \/ does[d] # "idle"
    BY <2>1 DEF Coming, Config!Told, Left
  <2>3. CASE d # c
    BY <1>1, <1>2, <1>3, <2>2, <2>3 DEF Ahead, Again
  <2>4. CASE d = c /\ newer
    <3>1. o > 0
      BY Numbers
    <3> QED
      BY <1>1, <1>2, <1>3, <2>2, <2>4, <3>1 DEF Ahead
  <2>5. CASE d = c /\ ~newer
    <3>1. Ahead(c, o) /\ cache[c].ts = shadow.ts
      BY <2>2, <2>5, Stamps DEF Again, Timed
    <3>2. cache[c].upd # Config!Done
      BY <3>1, Numbers DEF Ahead
    <3>3. c \in Stepwise
      BY <1>1, <3>2 DEF Rests
    <3> QED
      BY <1>1, <1>2, <1>3, <2>2, <2>5, <3>1, <3>2, <3>3 DEF Ahead
  <2> QED
    BY <2>3, <2>4, <2>5
<1> QED
  BY <1>4, <1>5, <1>6, <1>7 DEF Coming, Config!Told, Left
-----------------------------------------------------------------------------
(* An option that is left to the update under way is found by it.          *)
LEMMA FoundAhead ==
  ASSUME CacheInv, NEW c \in Caches, does[c] = "lock", NEW o \in Config!Options, Left(c, o), Ahead(c, o)
  PROVE  o \in Config!Found(c)
<1>1. cache[c].gts[Group[o]] < shadow.gts[Group[o]]
  BY DEF CacheInv, Coming
<1>2. o \in Config!Viewed(c) /\ o > cache[c].upd
  BY DEF CacheInv, Timed, Left, Config!Differs, Ahead
<1>3. CASE Config!Differs(c, o)
  BY <1>1, <1>2, <1>3 DEF Config!Found, Config!Differs
<1>4. CASE o \in due[c]
  <2>1. o \in Forced
    BY <1>4 DEF CacheInv, Config!TypeOK
  <2>2. shadow.force[o] = cache[c].ts
    BY <1>4 DEF CacheInv, Timed, Ahead
  <2> QED
    BY <1>1, <1>2, <2>1, <2>2 DEF Config!Found, Config!ForcedNow
<1> QED
  BY <1>3, <1>4 DEF Left

(* What update_next_option() changes.                                      *)
Updated(c, options, next) ==
  /\ \A d \in Caches : d # c => cache'[d] = cache[d]
  /\ cache'[c].ts = cache[c].ts /\ cache'[c].upd = next
  /\ \A o \in Config!Options :
       cache'[c].value[o] = IF o \in options THEN shadow.value[o] ELSE cache[c].value[o]
  /\ \A g \in Config!Groups :
       cache'[c].gts[g] = IF g \in Config!Passed(c, next) THEN shadow.gts[g] ELSE cache[c].gts[g]

LEMMA ReportEffect ==
  ASSUME Config!Assumption, Config!TypeOK, NEW c \in Caches, NEW options \in SUBSET Config!Options,
         NEW next \in Config!Options \cup {Config!Done}, Config!Reports(c, options, next)
  PROVE  /\ cache' \in [Caches -> [value : [Config!Options -> Values], ts : 0..MaxWrites,
                                   gts : [Config!Groups -> 0..MaxWrites],
                                   upd : {0, Config!Done} \cup Config!Options]]
         /\ Updated(c, options, next)
<1> DEFINE value == [o \in Config!Options |-> IF o \in options THEN shadow.value[o]
                                                        ELSE cache[c].value[o]]
           gts == [g \in Config!Groups |-> IF g \in Config!Passed(c, next) THEN shadow.gts[g]
                                                             ELSE cache[c].gts[g]]
           row == Config!Copy(c, options, next)
<1>0. row = [cache[c] EXCEPT !.value = value, !.gts = gts, !.upd = next]
  BY Zenon DEF Config!Copy
<1>1. cache' = [cache EXCEPT ![c] = row]
  BY DEF Config!Reports
<1>2. cache[c] \in [value : [Config!Options -> Values], ts : 0..MaxWrites,
                    gts : [Config!Groups -> 0..MaxWrites], upd : {0, Config!Done} \cup Config!Options]
  BY DEF Config!TypeOK
<1>3. value \in [Config!Options -> Values]
  BY <1>2 DEF Config!TypeOK
<1>4. gts \in [Config!Groups -> 0..MaxWrites]
  BY <1>2 DEF Config!TypeOK
<1>5. /\ row \in [value : [Config!Options -> Values], ts : 0..MaxWrites,
                  gts : [Config!Groups -> 0..MaxWrites], upd : {0, Config!Done} \cup Config!Options]
      /\ row.value = value /\ row.gts = gts /\ row.ts = cache[c].ts /\ row.upd = next
  <2> HIDE DEF value, gts, row
  <2> QED
    BY <1>0, <1>2, <1>3, <1>4
<1> HIDE DEF row
<1>6. cache'[c] = row /\ \A d \in Caches : d # c => cache'[d] = cache[d]
  BY <1>1 DEF Config!TypeOK
<1>7. cache' \in [Caches -> [value : [Config!Options -> Values], ts : 0..MaxWrites,
                             gts : [Config!Groups -> 0..MaxWrites], upd : {0, Config!Done} \cup Config!Options]]
  <2> HIDE DEF value, gts
  <2> QED
    BY <1>1, <1>5 DEF Config!TypeOK
<1> QED
  BY <1>5, <1>6, <1>7 DEF Updated

(* Changes that are found are reported, and those behind stay ahead.       *)
LEMMA ReportStep ==
  ASSUME Config!Assumption, CacheInv, NEW c \in Caches, does[c] = "lock",
         NEW options \in SUBSET Config!Options, NEW next \in Config!Options \cup {Config!Done},
         Config!Reports(c, options, next), next # Config!Done => c \in Stepwise,
         \A o \in Config!Found(c) : o \in options \/ (next \in Config!Options /\ o > next),
         does' = [does EXCEPT ![c] = IF next = Config!Done THEN "idle" ELSE "check"]
  PROVE  CacheInv'
<1> USE DEF CacheInv
<1>1. \A d \in Caches : does'[d] = IF d # c THEN does[d] ELSE IF next = Config!Done THEN "idle" ELSE "check"
  BY DEF Config!TypeOK
<1>2. /\ UNCHANGED <<shadow, notified>>
      /\ \A d \in Caches : /\ due'[d] = IF d = c THEN due[c] \ options ELSE due[d]
                           /\ raced'[d] = IF d = c THEN raced[c] \ options ELSE raced[d]
  BY DEF Config!Reports, Config!TypeOK
<1>0. /\ cache' \in [Caches -> [value : [Config!Options -> Values], ts : 0..MaxWrites,
                                gts : [Config!Groups -> 0..MaxWrites], upd : {0, Config!Done} \cup Config!Options]]
      /\ Updated(c, options, next)
  BY ReportEffect
<1>3. Config!TypeOK'
  <2>1. does' \in [Caches -> {"idle", "check", "lock"}]
    BY DEF Config!TypeOK
  <2>2. due' \in [Caches -> SUBSET Forced] /\ raced' \in [Caches -> SUBSET Config!Options]
    BY DEF Config!TypeOK, Config!Reports
  <2> QED
    BY <1>2, <1>0, <2>1, <2>2 DEF Config!TypeOK
<1>4. Timed'
  <2>1. \A d \in Caches, g \in Config!Groups : (cache[d].gts[g] <= shadow.gts[g])'
    BY <1>0, <1>2, Stamps, SMTT(60) DEF Timed, Updated
  <2>2. \A d \in Caches : (cache[d].ts <= shadow.ts)'
    BY <1>0, <1>2 DEF Timed, Updated
  <2> QED
    BY <1>2, <2>1, <2>2 DEF Timed, Config!Viewed
<1>5. Rests'
  BY <1>0, <1>1 DEF Rests, Updated
<1>6. ASSUME NEW d \in Caches, NEW o \in Config!Options, Left(d, o)'
      PROVE  /\ (cache[d].gts[Group[o]] < shadow.gts[Group[o]])'
             /\ Ahead(d, o)' \/ Again(d, o)'
             /\ (d \in notified \/ does[d] # "idle")'
  <2>1. CASE d # c
    <3>1. Left(d, o)
      BY <1>0, <1>2, <1>6, <2>1 DEF Left, Config!Differs, Config!Viewed, Updated
    <3>2. /\ cache[d].gts[Group[o]] < shadow.gts[Group[o]]
          /\ Ahead(d, o) \/ Again(d, o)
          /\ d \in notified \/ does[d] # "idle"
      BY <3>1 DEF Coming, Config!Told, Left
    <3> QED
      BY <1>0, <1>1, <1>2, <2>1, <3>2 DEF Ahead, Again, Updated
  <2>2. CASE d = c
    <3>1. o \notin options
      BY <1>0, <1>2, <1>6, <2>2 DEF Left, Config!Differs, Updated
    <3>2. Left(c, o)
      BY <1>0, <1>2, <1>6, <2>2, <3>1 DEF Left, Config!Differs, Config!Viewed, Updated
    <3>3. cache[c].gts[Group[o]] < shadow.gts[Group[o]] /\ (Ahead(c, o) \/ Again(c, o))
      BY <3>2 DEF Coming
    <3>4. Group[o] \notin Config!Passed(c, next) => (cache[c].gts[Group[o]] < shadow.gts[Group[o]])'
      BY <1>0, <1>2, <3>3, Numbers DEF Updated
    <3>5. CASE Ahead(c, o)
      <4>1. next \in Config!Options /\ o > next
        BY <3>1, <3>2, <3>5, FoundAhead
      <4>2. Group[o] \notin Config!Passed(c, next)
        BY <4>1, Numbers DEF Config!Passed, Config!Assumption
      <4>3. next # Config!Done
        BY <4>1, Numbers
      <4>4. Ahead(c, o)' /\ (does[c] # "idle")'
        BY <1>0, <1>1, <4>1, <4>3 DEF Ahead, Updated
      <4> QED
        BY <2>2, <3>4, <4>2, <4>4
    <3>6. CASE Again(c, o)
      <4>1. Group[o] \notin Config!Passed(c, next)
        BY <3>6, Numbers DEF Again, Config!Passed
      <4>2. Again(c, o)' /\ (c \in notified)'
        BY <1>0, <1>1, <1>2, <3>6 DEF Again, Updated
      <4> QED
        BY <2>2, <3>4, <4>1, <4>2
    <3> QED
      BY <3>3, <3>5, <3>6
  <2> QED
    BY <2>1, <2>2
<1> QED
  BY <1>3, <1>4, <1>5, <1>6 DEF Coming, Config!Told, Left
-----------------------------------------------------------------------------
(* Every step keeps the invariant: m_config_cache_write_opt() and the two  *)
(* ways to read changes, m_config_cache_update() and _get_next_changed().  *)
LEMMA CacheStep ==
  ASSUME Config!Assumption, CacheInv, [Config!Next]_(Config!vars)
  PROVE  CacheInv'
<1>1. CASE UNCHANGED Config!vars
  BY <1>1 DEF Config!vars, CacheInv, Config!TypeOK, Timed, Rests, Coming, Config!Told, Left, Config!Differs, Config!Viewed, Ahead, Again
<1>2. ASSUME NEW c \in Caches, Config!Update(c)
      PROVE  CacheInv'
  <2>1. /\ does[c] = "lock" /\ Config!Reports(c, Config!Found(c), Config!Done)
        /\ does' = [does EXCEPT ![c] = IF Config!Done = Config!Done THEN "idle" ELSE "check"]
        /\ Config!Found(c) \in SUBSET Config!Options
    BY <1>2 DEF Config!Update, Config!Found, Config!Viewed
  <2> QED
    BY <2>1, ReportStep
<1>3. ASSUME NEW c \in Caches, Config!NextChanged(c)
      PROVE  CacheInv'
  <2>1. PICK next \in Config!Found(c) \cup {Config!Done} :
          /\ does[c] = "lock" /\ c \in Stepwise
          /\ \A o \in Config!Found(c) : next <= o
          /\ Config!Reports(c, {next} \cap Config!Options, next)
          /\ does' = [does EXCEPT ![c] = IF next = Config!Done THEN "idle" ELSE "check"]
    BY <1>3 DEF Config!NextChanged
  <2>2. next \in Config!Options \cup {Config!Done} /\ Config!Found(c) \subseteq Config!Options
    BY DEF Config!Found, Config!Viewed
  <2>3. \A o \in Config!Found(c) : o \in {next} \cap Config!Options \/ (next \in Config!Options /\ o > next)
    BY <2>1, <2>2, Numbers
  <2> QED
    BY <2>1, <2>2, <2>3, ReportStep
<1>4. ASSUME NEW c \in Caches, NEW o \in Config!Options, NEW v \in Values, Config!Write(c, o, v)
      PROVE  CacheInv'
  BY <1>4, WriteStep
<1>5. ASSUME NEW c \in Caches, Config!Notified(c) \/ Config!Poll(c)
      PROVE  CacheInv'
  BY <1>5, CallStep
<1>6. ASSUME NEW c \in Caches, Config!Check(c)
      PROVE  CacheInv'
  BY <1>6, CheckStep
<1> QED
  BY <1>1, <1>2, <1>3, <1>4, <1>5, <1>6, Zenon DEF Config!Next, Config!Thread

(* The invariant behind Told: what a cache has to report lies ahead of its *)
(* update, or the timestamps make it start again.                          *)
THEOREM Invariance == AllSpec => []CacheInv
<1>1. AllInit => CacheInv
  BY CacheInit, ConfigAssumption DEF AllInit
<1>2. CacheInv /\ [AllNext]_allvars => CacheInv'
  <2>1. UNCHANGED config => UNCHANGED Config!vars
    BY DEF config, Config!vars
  <2>2. [AllNext]_allvars => [Config!Next]_(Config!vars)
    BY <2>1 DEF AllNext, InDispatch, InConfig, allvars
  <2> QED
    BY <2>2, CacheStep, ConfigAssumption
<1> QED
  BY <1>1, <1>2, PTL DEF AllSpec

(* No change of an option is missed by a cache that has it, for any number *)
(* of caches, options, groups and writes (m_config_core.c:638-822).        *)
THEOREM NothingMissed == AllSpec => []Told
<1>1. CacheInv => Told
  BY DEF CacheInv, Told
<1> QED
  BY <1>1, Invariance, PTL
=============================================================================
