---------------------------- MODULE Fleet_proofs ----------------------------
(***************************************************************************)
(* Placement on the fleet, for any number of hosts, VMs, environments,     *)
(* faults and observations: no host is promised more than it has, and an   *)
(* agent admits what the controller planned by what the agent still finds. *)
(***************************************************************************)
EXTENDS Fleet, Sums_proofs

-----------------------------------------------------------------------------
(* Needs and reservations *)

LEMMA ReservationIs ==
  ASSUME NEW spec \in Specs, NEW view, IsFact(view)
  PROVE  /\ Reservation(spec, view) \subseteq Nat
         /\ \A d \in Reservation(spec, view) : Reservation(spec, view) = {d} /\ Reserves(spec, view) = d
<1>1. /\ spec.disk \in Nat /\ spec.engine \in Engines
      /\ spec.image \in DOMAIN view.images => view.images[spec.image] \in Nat
  BY FleetAssumption DEF Spec1Type, IsFact
<1>2. ConfigDrive(spec) \in Nat
  BY FleetAssumption DEF ConfigDrive
<1>3. \A n \in Nat : Fitting(n) \subseteq {n}
  BY DEF Fitting
<1>4. \E n \in Nat : Reservation(spec, view) \subseteq {n}
  <2> DEFINE base == IF spec.image \in DOMAIN view.images THEN view.images[spec.image] ELSE 0
             disk == IF spec.disk > 0 THEN spec.disk
                     ELSE IF spec.engine = "qemu" THEN DefaultDisk ELSE base
             n == disk + ConfigDrive(spec)
  <2>1. n \in Nat
    BY <1>1, <1>2, FleetAssumption
  <2>2. Reservation(spec, view) \in {{0}, {}, Fitting(n)}
    BY DEF Reservation
  <2>3. Fitting(n) \subseteq {n}
    <3> HIDE DEF n
    <3> QED BY <1>3, <2>1
  <2> HIDE DEF n
  <2> QED BY <2>1, <2>2, <2>3
<1> QED BY <1>4 DEF Reserves

LEMMA RequestIs ==
  ASSUME NEW spec \in Specs
  PROVE  /\ Needs(Request(spec)) = Needs(spec)
         /\ Request(spec).engine = spec.engine /\ Request(spec).image = spec.image
         /\ ConfigDrive(Request(spec)) = ConfigDrive(spec)
         /\ Request(spec).disk = IF spec.engine = "qemu" /\ spec.disk = 0 THEN DefaultDisk ELSE spec.disk
         /\ Request(spec).disk \in Nat
<1> DEFINE r == Request(spec)
<1>1. /\ r.engine = spec.engine /\ r.image = spec.image /\ r.keys = spec.keys /\ r.config = spec.config
      /\ r.ports = spec.ports /\ r.egress = spec.egress /\ r.isolated = spec.isolated
      /\ r.disk = IF spec.engine = "qemu" /\ spec.disk = 0 THEN DefaultDisk ELSE spec.disk
      /\ r.disk \in Nat /\ spec.disk \in Nat
  BY FleetAssumption DEF Spec1Type, Request
<1>2. r.disk > 0 \/ r.engine = "qemu" <=> spec.disk > 0 \/ spec.engine = "qemu"
  BY <1>1
<1>3. Ssh(r) = Ssh(spec)
  BY <1>1, Zenon DEF Ssh
<1> HIDE DEF r
<1>4. Needs(r) = Needs(spec)
  BY <1>1, <1>2, <1>3, Zenon DEF Needs
<1>5. ConfigDrive(r) = ConfigDrive(spec)
  BY <1>1, <1>3, Zenon DEF ConfigDrive
<1> QED BY <1>1, <1>4, <1>5 DEF r

\* What the agent reserves is a number, and what the controller planned when the image is as large
\* as the controller was told.
LEMMA ReservedIs ==
  ASSUME NEW spec \in Specs
  PROVE  /\ Reserved(Request(spec)) \subseteq Nat
         /\ \A d \in Reserved(Request(spec)) : Reserved(Request(spec)) = {d}
<1>1. /\ Request(spec).disk \in Nat /\ Sizes[Request(spec).image] \in Nat /\ ConfigDrive(Request(spec)) \in Nat
  BY RequestIs, FleetAssumption DEF Spec1Type, ConfigDrive
<1>2. \A n \in Nat : Fitting(n) \subseteq {n}
  BY DEF Fitting
<1> DEFINE r == Request(spec)
           size == Sizes[r.image]
           n == (IF r.disk = 0 THEN size ELSE r.disk) + ConfigDrive(r)
<1>3. Reserved(r) \in {{0}, {}, {r.disk}, Fitting(size), Fitting(n)}
  BY DEF Reserved
<1>4. size \in Nat /\ n \in Nat /\ r.disk \in Nat
  BY <1>1
<1> HIDE DEF r, size, n
<1> QED BY <1>2, <1>3, <1>4 DEF r

LEMMA Agreement ==
  ASSUME NEW spec \in Specs, NEW view, IsFact(view), Facing(spec, view), view.report = "known",
         NEW d \in Reservation(spec, view),
         spec.engine \in {"docker", "jail"} \/ view.images[spec.image] # 0
  PROVE  /\ \A feature \in Needs(Request(spec)) : Enabled(view, feature, spec.engine)
         /\ spec.engine # "docker" => spec.image \in DOMAIN view.images
         /\ Reserved(Request(spec)) = {d}
<1>1. \A feature \in Needs(Request(spec)) : Enabled(view, feature, spec.engine)
  BY RequestIs DEF Facing, RequireHost, Capable, Reported
<1>2. spec.engine # "docker" => spec.image \in DOMAIN view.images
  BY DEF Facing
<1> DEFINE r == Request(spec)
           size == Sizes[spec.image]
<1>3. /\ spec.engine \in {"qemu", "firecracker", "docker", "bhyve", "jail"}
      /\ spec.disk \in Nat /\ size \in Nat \ {0}
  BY FleetAssumption DEF Spec1Type, Engines
<1>4. /\ r.engine = spec.engine /\ r.image = spec.image /\ ConfigDrive(r) = ConfigDrive(spec)
      /\ r.disk = IF spec.engine = "qemu" /\ spec.disk = 0 THEN DefaultDisk ELSE spec.disk
  BY RequestIs
<1>5. spec.engine # "firecracker" => ConfigDrive(spec) = 0
  BY DEF ConfigDrive
<1>6. spec.engine \notin {"docker", "jail"} => view.images[spec.image] = size /\ spec.image \in DOMAIN view.images
  BY <1>2, <1>3 DEF IsFact
<1>7. spec.engine = "bhyve" => spec.disk = 0
  <2>1. spec.disk > 0 => Supported("disk", spec.engine, "file")
    BY DEF Facing, Valid
  <2>2. spec.engine = "bhyve" => ~Supported("disk", spec.engine, "file")
    BY DEF Supported, Design, Linux
  <2> QED BY <1>3, <2>1, <2>2
<1>8. ConfigDrive(spec) \in Nat /\ DefaultDisk \in Nat \ {0} /\ MaxDisk \in Nat
  BY FleetAssumption DEF ConfigDrive
<1>9. Reserved(r) = {d}
  <2>1. CASE spec.engine \in {"docker", "jail"}
    <3>1. d = 0
      BY <2>1 DEF Reservation
    <3>2. Reserved(r) = {0}
      BY <1>4, <2>1 DEF Reserved
    <3> QED BY <3>1, <3>2
  <2>2. CASE spec.engine \notin {"docker", "jail"}
    <3> DEFINE disk == IF spec.disk > 0 THEN spec.disk
                       ELSE IF spec.engine = "qemu" THEN DefaultDisk ELSE size
    <3>1. disk # 0 /\ ~(disk < size) /\ d \in Fitting(disk + ConfigDrive(spec))
      BY <1>6, <2>2 DEF Reservation
    <3>2. d = disk + ConfigDrive(spec) /\ d <= MaxDisk
      BY <3>1 DEF Fitting
    <3>3. disk \in Nat
      BY <1>3, <1>8
    <3>4. CASE spec.engine = "bhyve"
      BY <1>3, <1>4, <1>5, <1>7, <1>8, <3>1, <3>2, <3>4 DEF Reserved, Fitting
    <3>5. CASE spec.engine = "qemu"
      BY <1>3, <1>4, <1>5, <1>8, <3>1, <3>2, <3>5 DEF Reserved, Fitting
    <3>6. CASE spec.engine = "firecracker"
      BY <1>3, <1>4, <1>8, <3>1, <3>2, <3>6 DEF Reserved, Fitting
    <3> QED BY <1>3, <2>2, <3>4, <3>5, <3>6
  <2> QED BY <2>1, <2>2
<1> QED BY <1>1, <1>2, <1>9

-----------------------------------------------------------------------------
(* The sums of disk and memory over rows *)

Accounted(rows) == \A v \in Vms : rows[v].host # "none" => rows[v].disk \in Nat

LEMMA SumsAre ==
  ASSUME NEW rows, Accounted(rows)
  PROVE  DiskIn(rows) \in Nat /\ MemIn(rows) \in Nat
<1> DEFINE f == [v \in Vms |-> IF rows[v].host = "none" THEN 0 ELSE rows[v].disk]
           g == [v \in Vms |-> IF rows[v].host = "none" THEN 0 ELSE Memory(rows[v].spec)]
<1>1. IsFiniteSet(Vms) /\ \A v \in Vms : f[v] \in Nat /\ g[v] \in Nat
  BY FleetAssumption DEF Accounted, Memory
<1>2. SumOf(f, Vms) \in Nat /\ SumOf(g, Vms) \in Nat
  <2> HIDE DEF f, g
  <2> QED BY <1>1, SumIsNat
<1> QED BY <1>2 DEF DiskIn, MemIn

\* Fewer rows take less.
LEMMA FewerLess ==
  ASSUME NEW a, NEW b, Accounted(b), \A v \in Vms : a[v] = b[v] \/ a[v].host = "none"
  PROVE  DiskIn(a) <= DiskIn(b) /\ MemIn(a) <= MemIn(b)
<1> DEFINE fa == [v \in Vms |-> IF a[v].host = "none" THEN 0 ELSE a[v].disk]
           fb == [v \in Vms |-> IF b[v].host = "none" THEN 0 ELSE b[v].disk]
           ga == [v \in Vms |-> IF a[v].host = "none" THEN 0 ELSE Memory(a[v].spec)]
           gb == [v \in Vms |-> IF b[v].host = "none" THEN 0 ELSE Memory(b[v].spec)]
<1>1. IsFiniteSet(Vms) /\ \A v \in Vms : /\ fa[v] \in Nat /\ fb[v] \in Nat /\ fa[v] <= fb[v]
                                         /\ ga[v] \in Nat /\ gb[v] \in Nat /\ ga[v] <= gb[v]
  BY FleetAssumption DEF Accounted, Memory
<1>2. SumOf(fa, Vms) <= SumOf(fb, Vms) /\ SumOf(ga, Vms) <= SumOf(gb, Vms)
  <2> HIDE DEF fa, fb, ga, gb
  <2> QED BY <1>1, SumOfMore
<1> QED BY <1>2 DEF DiskIn, MemIn

LEMMA SameSums ==
  ASSUME NEW a, NEW b, Accounted(b), \A v \in Vms : a[v] = b[v] \/ (a[v].host = "none" /\ b[v].host = "none")
  PROVE  DiskIn(a) = DiskIn(b) /\ MemIn(a) = MemIn(b)
<1>1. Accounted(a)
  BY DEF Accounted
<1>2. DiskIn(a) \in Nat /\ MemIn(a) \in Nat /\ DiskIn(b) \in Nat /\ MemIn(b) \in Nat
  BY <1>1, SumsAre
<1>3. DiskIn(a) <= DiskIn(b) /\ MemIn(a) <= MemIn(b)
  BY FewerLess
<1>4. DiskIn(b) <= DiskIn(a) /\ MemIn(b) <= MemIn(a)
  BY <1>1, FewerLess
<1> QED BY <1>2, <1>3, <1>4

\* Rows that are some of these and some of those, and nothing twice.
LEMMA SumsOfBoth ==
  ASSUME NEW a, NEW b, NEW c, Accounted(a), Accounted(b),
         \A v \in Vms : (c[v] = a[v] /\ b[v].host = "none") \/ (c[v] = b[v] /\ a[v].host = "none")
  PROVE  DiskIn(c) = DiskIn(a) + DiskIn(b) /\ MemIn(c) = MemIn(a) + MemIn(b)
<1> DEFINE fa == [v \in Vms |-> IF a[v].host = "none" THEN 0 ELSE a[v].disk]
           fb == [v \in Vms |-> IF b[v].host = "none" THEN 0 ELSE b[v].disk]
           fc == [v \in Vms |-> IF c[v].host = "none" THEN 0 ELSE c[v].disk]
           ga == [v \in Vms |-> IF a[v].host = "none" THEN 0 ELSE Memory(a[v].spec)]
           gb == [v \in Vms |-> IF b[v].host = "none" THEN 0 ELSE Memory(b[v].spec)]
           gc == [v \in Vms |-> IF c[v].host = "none" THEN 0 ELSE Memory(c[v].spec)]
<1>1. IsFiniteSet(Vms) /\ \A v \in Vms : /\ fa[v] \in Nat /\ fb[v] \in Nat /\ fc[v] = fa[v] + fb[v]
                                         /\ ga[v] \in Nat /\ gb[v] \in Nat /\ gc[v] = ga[v] + gb[v]
  BY FleetAssumption DEF Accounted, Memory
<1>2. SumOf(fc, Vms) = SumOf(fa, Vms) + SumOf(fb, Vms) /\ SumOf(gc, Vms) = SumOf(ga, Vms) + SumOf(gb, Vms)
  <2> HIDE DEF fa, fb, fc, ga, gb, gc
  <2> QED BY <1>1, SumOfBoth
<1> QED BY <1>2 DEF DiskIn, MemIn

LEMMA SumsOfNone ==
  ASSUME NEW rows, \A v \in Vms : rows[v].host = "none"
  PROVE  DiskIn(rows) = 0 /\ MemIn(rows) = 0
<1> DEFINE f == [v \in Vms |-> IF rows[v].host = "none" THEN 0 ELSE rows[v].disk]
           g == [v \in Vms |-> IF rows[v].host = "none" THEN 0 ELSE Memory(rows[v].spec)]
<1>1. IsFiniteSet(Vms) /\ \A v \in Vms : f[v] = 0 /\ g[v] = 0
  BY FleetAssumption
<1>2. SumOf(f, Vms) = SumOf(f, {}) /\ SumOf(g, Vms) = SumOf(g, {})
  <2> HIDE DEF f, g
  <2> QED BY <1>1, SumOfSupport
<1> QED BY <1>2, SumOfNone DEF DiskIn, MemIn

LEMMA SumsOfOne ==
  ASSUME NEW rows, NEW v \in Vms, rows[v].host # "none", rows[v].disk \in Nat,
         \A w \in Vms \ {v} : rows[w].host = "none"
  PROVE  DiskIn(rows) = rows[v].disk /\ MemIn(rows) = Memory(rows[v].spec)
<1> DEFINE f == [w \in Vms |-> IF rows[w].host = "none" THEN 0 ELSE rows[w].disk]
           g == [w \in Vms |-> IF rows[w].host = "none" THEN 0 ELSE Memory(rows[w].spec)]
<1>1. /\ IsFiniteSet(Vms) /\ f[v] = rows[v].disk /\ g[v] = Memory(rows[v].spec)
      /\ f[v] \in Nat /\ g[v] \in Nat /\ \A w \in Vms \ {v} : f[w] = 0 /\ g[w] = 0
  BY FleetAssumption DEF Memory
<1>2. SumOf(f, Vms) = f[v] /\ SumOf(g, Vms) = g[v]
  <2> HIDE DEF f, g
  <2> QED BY <1>1, SumOfOne
<1> QED BY <1>1, <1>2 DEF DiskIn, MemIn

\* What rows take is at most what the indices they have in a plan take.
Indexed(rows, I, disk, mem, index) ==
  /\ \A v \in Vms : rows[v].host # "none" =>
       index[v] \in I /\ rows[v].disk = disk[index[v]] /\ Memory(rows[v].spec) = mem[index[v]]
  /\ \A v, w \in Vms : rows[v].host # "none" /\ rows[w].host # "none" /\ index[v] = index[w] => v = w

LEMMA SumsOfIndexed ==
  ASSUME NEW rows, Accounted(rows), NEW I, IsFiniteSet(I), NEW disk, NEW mem,
         \A i \in I : disk[i] \in Nat /\ mem[i] \in Nat,
         \E index : Indexed(rows, I, disk, mem, index)
  PROVE  DiskIn(rows) <= SumOf(disk, I) /\ MemIn(rows) <= SumOf(mem, I)
<1> PICK index : Indexed(rows, I, disk, mem, index)
  OBVIOUS
<1> USE DEF Indexed
<1> DEFINE f == [v \in Vms |-> IF rows[v].host = "none" THEN 0 ELSE rows[v].disk]
           g == [v \in Vms |-> IF rows[v].host = "none" THEN 0 ELSE Memory(rows[v].spec)]
           P == {v \in Vms : rows[v].host # "none"}
<1>1. IsFiniteSet(Vms) /\ IsFiniteSet(P) /\ P \subseteq Vms
  BY FleetAssumption, FS_Subset
<1>2. \A v \in Vms : f[v] \in Nat /\ g[v] \in Nat
  BY DEF Accounted, Memory
<1>3. \A v \in Vms \ P : f[v] = 0 /\ g[v] = 0
  OBVIOUS
<1>4. \A v \in P : index[v] \in I /\ f[v] = disk[index[v]] /\ g[v] = mem[index[v]]
  OBVIOUS
<1>5. \A v, w \in P : index[v] = index[w] => v = w
  OBVIOUS
<1>6. \A v \in P : f[v] \in Nat /\ g[v] \in Nat /\ f[v] <= disk[index[v]] /\ g[v] <= mem[index[v]] /\ index[v] \in I
  <2> HIDE DEF f, g, P
  <2> QED BY <1>1, <1>2, <1>4
<1>7. SumOf(f, Vms) = SumOf(f, P) /\ SumOf(g, Vms) = SumOf(g, P)
  <2> HIDE DEF f, g, P
  <2> QED BY <1>1, <1>2, <1>3, SumOfSupport
<1>8. SumOf(f, P) <= SumOf(disk, I)
  <2> HIDE DEF f, g, P
  <2> QED BY <1>1, <1>5, <1>6, SumOfMatched
<1>9. SumOf(g, P) <= SumOf(mem, I)
  <2> HIDE DEF f, g, P
  <2> QED BY <1>1, <1>5, <1>6, SumOfMatched
<1> QED BY <1>7, <1>8, <1>9 DEF DiskIn, MemIn

-----------------------------------------------------------------------------
(* What is on record *)

PlanRows(rows) == \A v \in Vms : rows[v] = NoVm \/ IsPlanned(rows[v])

LEMMA GuestsCount ==
  ASSUME NEW rows \in GuestRows, NEW S
  PROVE  Among(rows, S) \in GuestRows /\ Accounted(rows) /\ Accounted(Among(rows, S))
<1>1. \A v \in Vms : rows[v] = NoVm \/ rows[v] \in [host : Hosts, spec : Specs, disk : Nat]
  BY DEF GuestRows
<1>2. Accounted(rows) /\ Accounted(Among(rows, S))
  BY <1>1 DEF Accounted, Among, NoVm
<1>3. Among(rows, S) \in GuestRows
  BY DEF Among, GuestRows
<1> QED BY <1>2, <1>3

LEMMA PlanCounts ==
  ASSUME NEW x, IsPlanned(x)
  PROVE  x.disk \in Nat /\ IsFact(x.view) /\ x.host # "none" /\ x.disk = Reserves(x.spec, x.view)
BY ReservationIs, FleetAssumption DEF IsPlanned

LEMMA PlansCount ==
  ASSUME NEW rows, PlanRows(rows), NEW S
  PROVE  Accounted(rows) /\ Accounted(Among(rows, S)) /\ PlanRows(Among(rows, S))
<1>1. \A v \in Vms : rows[v].host # "none" => rows[v].disk \in Nat
  BY PlanCounts DEF PlanRows, NoVm
<1> QED BY <1>1 DEF Accounted, Among, NoVm, PlanRows

\* Where and for what a plan puts a VM.
LEMMA PlanPlaces ==
  ASSUME FleetType, NEW e \in Envs,
         NEW specs \in [DOMAIN Members[e] -> {spec \in Specs : Valid(spec)}],
         NEW places \in Schedules(specs), NEW i \in DOMAIN Members[e]
  PROVE  LET v == Members[e][i] x == Planned(e, specs, places)[v]
         IN /\ v \in Vms /\ specs[i] \in Specs /\ places[i] \in Known /\ places[i] \in Candidates(specs, places, i)
            /\ x.host = places[i] /\ x.spec = specs[i] /\ x.view = table[places[i]].view
            /\ x.disk = Reserves(specs[i], table[places[i]].view)
            /\ IsPlanned(x)
<1> DEFINE v == Members[e][i]
           h == places[i]
           x == Planned(e, specs, places)[v]
<1>1. v \in Vms /\ v \in VmsOf(e)
  BY FleetAssumption DEF VmsOf
<1>2. (CHOOSE k \in DOMAIN Members[e] : Members[e][k] = v) = i
  BY FleetAssumption
<1>3. x = [host |-> h, spec |-> specs[i], view |-> table[h].view, disk |-> Reserves(specs[i], table[h].view)]
  BY <1>1, <1>2 DEF Planned
<1>4. h \in Known /\ h \in Candidates(specs, places, i) /\ specs[i] \in Specs /\ Valid(specs[i]) /\ h \in Hosts
  BY DEF Schedules, Known
<1>5. IsEntry(table[h], h)
  BY <1>4 DEF FleetType, Known, NoHost
<1>6. table[h].view \in Facts[h] /\ IsFact(table[h].view)
  BY <1>4, <1>5, FleetAssumption DEF IsEntry
<1>7. /\ RequireHost(table[h].view, specs[i].engine, Needs(specs[i]))
      /\ Reservation(specs[i], table[h].view) # {}
      /\ specs[i].engine # "docker" => specs[i].image \in DOMAIN table[h].view.images
  BY <1>4 DEF Candidates
<1>8. Reserves(specs[i], table[h].view) \in Reservation(specs[i], table[h].view)
  BY <1>7 DEF Reserves
<1> HIDE DEF v, h, x
<1>9. IsPlanned(x)
  BY <1>3, <1>4, <1>6, <1>7, <1>8 DEF IsPlanned, Facing
<1> QED BY <1>1, <1>3, <1>4, <1>9 DEF v, h, x

LEMMA PlanKept ==
  ASSUME FleetType, NEW e \in Envs,
         NEW specs \in [DOMAIN Members[e] -> {spec \in Specs : Valid(spec)}],
         NEW places \in Schedules(specs)
  PROVE  /\ DOMAIN Planned(e, specs, places) = Vms /\ PlanRows(Planned(e, specs, places))
         /\ \A v \in Vms \ VmsOf(e) : Planned(e, specs, places)[v] = vms[v]
<1>1. \A v \in VmsOf(e) : IsPlanned(Planned(e, specs, places)[v])
  <2> SUFFICES ASSUME NEW v \in VmsOf(e) PROVE IsPlanned(Planned(e, specs, places)[v])
    OBVIOUS
  <2>1. PICK i \in DOMAIN Members[e] : v = Members[e][i]
    BY DEF VmsOf
  <2> QED BY <2>1, PlanPlaces
<1>2. DOMAIN Planned(e, specs, places) = Vms /\ \A v \in Vms \ VmsOf(e) : Planned(e, specs, places)[v] = vms[v]
  BY DEF Planned
<1>3. \A v \in Vms : vms[v] = NoVm \/ IsPlanned(vms[v])
  BY DEF FleetType
<1> QED BY <1>1, <1>2, <1>3 DEF PlanRows

LEMMA EntryIs ==
  ASSUME NEW h, NEW view \in Facts[h], NEW is \in {"online", "offline"}, NEW disk \in Nat, NEW mem \in Nat
  PROVE  IsEntry(Entry(is, view, disk, mem), h)
BY DEF IsEntry, Entry

LEMMA KnownEntry ==
  ASSUME FleetType, NEW h \in Known
  PROVE  h \in Hosts /\ IsEntry(table[h], h) /\ table[h].disk \in Nat /\ table[h].mem \in Nat
BY DEF FleetType, Known, NoHost, IsEntry

LEMMA UsedIs ==
  ASSUME FleetType, NEW h \in Known
  PROVE  UsedDisk(h) \in Nat /\ UsedMem(h) \in Nat
<1>1. PlanRows(vms)
  BY DEF FleetType, PlanRows
<1>2. DiskIn(Among(vms, On(h))) \in Nat /\ MemIn(Among(vms, On(h))) \in Nat
  BY <1>1, PlansCount, SumsAre
<1> QED BY <1>2, KnownEntry DEF UsedDisk, UsedMem, More

LEMMA StaleRead ==
  ASSUME NEW x, NEW h, IsRead(x, h), x.is # "none"
  PROVE  LET y == [x EXCEPT !.current = FALSE] IN IsRead(y, h) /\ ~y.current
<1>1. CASE x \in [is : {"down"}, current : BOOLEAN]
  BY <1>1 DEF IsRead
<1>2. CASE x \in [is : {"up"}, view : Facts[h], rows : GuestRows, current : BOOLEAN]
  <2>1. [x EXCEPT !.current = FALSE] \in [is : {"up"}, view : Facts[h], rows : GuestRows, current : BOOLEAN]
    BY <1>2
  <2>2. ~[x EXCEPT !.current = FALSE].current
    BY <1>2
  <2> QED BY <2>1, <2>2 DEF IsRead
<1> QED BY <1>1, <1>2 DEF IsRead, NoRead

LEMMA TypeStart == FleetInit => FleetType
<1> SUFFICES ASSUME FleetInit PROVE FleetType
  OBVIOUS
<1>1. guest \in GuestRows /\ sent \in [Vms -> {NoVm} \union [host : Hosts, spec : Specs]]
  BY DEF FleetInit, GuestRows
<1>2. DOMAIN host = Hosts /\ \A h \in Hosts : host[h] \in Facts[h]
  BY DEF FleetInit
<1> QED BY <1>1, <1>2 DEF FleetInit, FleetType, IsRead

\* The record of hosts, VMs, requests and observations stays one.
LEMMA TypeKept ==
  ASSUME FleetType, FleetLinks, [FleetNext]_fleetVars
  PROVE  FleetType'
<1> USE DEF FleetType
<1>0. PlanRows(vms)
  BY DEF PlanRows
<1>r. \A S : /\ DiskIn(Among(guest, S)) \in Nat /\ MemIn(Among(guest, S)) \in Nat
             /\ Among(guest, S) \in GuestRows
  BY GuestsCount, SumsAre
<1>1. ASSUME NEW h \in Hosts, Register(h) PROVE FleetType'
  <2> DEFINE disk == DiskIn(Info(h).rows)
             mem == MemIn(Info(h).rows)
  <2>1. disk \in Nat /\ mem \in Nat
    BY <1>r DEF Info
  <2>2. h \in Known => table[h].disk \in Nat /\ table[h].mem \in Nat
    BY KnownEntry
  <2>3. PICK d \in Nat, m \in Nat : table' = [table EXCEPT ![h] = Entry("online", host[h], d, m)]
    <3> HIDE DEF disk, mem
    <3>1. CASE h \in Known
      <4>1. More(disk, table[h].disk) \in Nat /\ More(mem, table[h].mem) \in Nat
        BY <2>1, <2>2, <3>1 DEF More
      <4>2. table' = [table EXCEPT ![h] = Entry("online", host[h], More(disk, table[h].disk), More(mem, table[h].mem))]
        BY <1>1, <3>1 DEF Register, disk, mem
      <4> QED BY <4>1, <4>2
    <3>2. CASE h \notin Known
      <4>1. table' = [table EXCEPT ![h] = Entry("online", host[h], disk, mem)]
        BY <1>1, <3>2 DEF Register, disk, mem
      <4> QED BY <2>1, <4>1
    <3> QED BY <3>1, <3>2
  <2>4. IsEntry(Entry("online", host[h], d, m), h)
    BY EntryIs
  <2>5. DOMAIN table' = Hosts /\ \A g \in Hosts : table'[g] = NoHost \/ IsEntry(table'[g], g)
    BY <2>3, <2>4
  <2> QED BY <1>1, <2>5 DEF Register
<1>2. ASSUME NEW h \in Hosts, Unregister(h) PROVE FleetType'
  BY <1>2 DEF Unregister
<1>o. ASSUME Outdated PROVE DOMAIN reads' = Hosts /\ \A h \in Hosts : IsRead(reads'[h], h)
  <2> SUFFICES ASSUME NEW h \in Hosts PROVE IsRead(reads'[h], h)
    BY <1>o DEF Outdated
  <2>1. CASE reads[h].is = "none"
    BY <1>o, <2>1 DEF Outdated, IsRead
  <2>2. CASE reads[h].is # "none"
    <3>1. IsRead(reads[h], h) /\ reads'[h] = [reads[h] EXCEPT !.current = FALSE]
      BY <1>o, <2>2 DEF Outdated
    <3> QED BY <2>2, <3>1, StaleRead
  <2> QED BY <2>1, <2>2
<1>3. ASSUME NEW h \in Hosts, Detach(h) PROVE FleetType'
  <2>1. DOMAIN vms' = Vms /\ \A v \in Vms : vms'[v] = NoVm \/ IsPlanned(vms'[v])
    BY <1>3 DEF Detach
  <2>2. DOMAIN table' = Hosts /\ \A g \in Hosts : table'[g] = NoHost \/ IsEntry(table'[g], g)
    BY <1>3 DEF Detach
  <2> QED BY <1>3, <1>o, <2>1, <2>2 DEF Detach, Sent
<1>4. ASSUME NEW h \in Hosts, Observe(h) PROVE FleetType'
  <2>1. IsRead(Info(h), h)
    BY <1>r DEF IsRead, Info
  <2>2. IsRead([is |-> "down", current |-> TRUE], h)
    BY DEF IsRead
  <2>3. DOMAIN reads' = Hosts /\ \A g \in Hosts : IsRead(reads'[g], g)
    BY <1>4, <2>1, <2>2 DEF Observe
  <2> QED BY <1>4, <2>3 DEF Observe
<1>5. ASSUME NEW h \in Hosts, Apply(h) PROVE FleetType'
  <2>1. DOMAIN reads' = Hosts /\ \A g \in Hosts : IsRead(reads'[g], g)
    BY <1>5 DEF Apply, IsRead
  <2>2. ASSUME reads[h].is = "up" PROVE IsEntry(Observed(h, reads[h]), h)
    <3>1. reads[h].view \in Facts[h] /\ reads[h].rows \in GuestRows
      BY <2>2 DEF IsRead, NoRead
    <3> DEFINE all == [v \in Vms |-> IF v \in On(h) THEN vms[v] ELSE reads[h].rows[v]]
    <3>2. Accounted(vms) /\ Accounted(reads[h].rows)
      BY <1>0, <3>1, PlansCount, GuestsCount
    <3>3. Accounted(all)
      BY <3>2 DEF Accounted
    <3> HIDE DEF all
    <3>4. DiskIn(all) \in Nat /\ MemIn(all) \in Nat /\ DiskIn(reads[h].rows) \in Nat /\ MemIn(reads[h].rows) \in Nat
      BY <3>2, <3>3, SumsAre
    <3>5. More(DiskIn(all), DiskIn(reads[h].rows)) \in Nat /\ More(MemIn(all), MemIn(reads[h].rows)) \in Nat
      BY <3>4 DEF More
    <3> QED BY <3>1, <3>5, EntryIs DEF Observed, all
  <2>3. ASSUME h \in Known PROVE IsEntry([table[h] EXCEPT !.is = "offline"], h)
    <3>1. IsEntry(table[h], h)
      BY <2>3, KnownEntry
    <3>2. [table[h] EXCEPT !.is = "offline"] = Entry("offline", table[h].view, table[h].disk, table[h].mem)
      BY <3>1 DEF IsEntry, Entry
    <3> QED BY <3>1, <3>2, EntryIs DEF IsEntry
  <2>4. reads[h].is \in {"up", "down"}
    BY <1>5 DEF Apply, IsRead, NoRead
  <2>5. DOMAIN table' = Hosts /\ \A g \in Hosts : table'[g] = NoHost \/ IsEntry(table'[g], g)
    <3>1. CASE table' = table
      BY <3>1
    <3>2. CASE h \in Known /\ reads[h].is = "down" /\ table' = [table EXCEPT ![h].is = "offline"]
      BY <2>3, <3>2
    <3>3. CASE h \in Known /\ reads[h].is = "up" /\ table' = [table EXCEPT ![h] = Observed(h, reads[h])]
      BY <2>2, <3>3
    <3> QED BY <1>5, <2>4, <3>1, <3>2, <3>3 DEF Apply
  <2> QED BY <1>5, <2>1, <2>5 DEF Apply
<1>6. ASSUME NEW e \in Envs, Plan(e) PROVE FleetType'
  <2>1. PICK specs \in [DOMAIN Members[e] -> {spec \in Specs : Valid(spec)}] :
          \E places \in Schedules(specs) : vms' = Planned(e, specs, places)
    BY <1>6 DEF Plan
  <2>2. DOMAIN vms' = Vms /\ PlanRows(vms')
    BY <2>1, PlanKept
  <2>3. ASSUME NEW h \in Known PROVE IsEntry(table'[h], h)
    <3> DEFINE disk == UsedDisk(h) + DiskIn(Joining(vms', e, h))
               mem == UsedMem(h) + MemIn(Joining(vms', e, h))
    <3>1. disk \in Nat /\ mem \in Nat
      <4>1. DiskIn(Joining(vms', e, h)) \in Nat /\ MemIn(Joining(vms', e, h)) \in Nat
        BY <2>2, PlansCount, SumsAre DEF Joining
      <4> QED BY <4>1, UsedIs
    <3>2. table'[h] = [table[h] EXCEPT !.disk = disk, !.mem = mem]
      BY <1>6, <2>3 DEF Plan, Known
    <3> HIDE DEF disk, mem
    <3>3. IsEntry(table[h], h)
      BY KnownEntry
    <3>4. table'[h] = Entry(table[h].is, table[h].view, disk, mem)
      BY <3>2, <3>3 DEF IsEntry, Entry
    <3>5. table[h].view \in Facts[h] /\ table[h].is \in {"online", "offline"}
      BY <3>3 DEF IsEntry
    <3> QED BY <3>1, <3>4, <3>5, EntryIs
  <2>4. DOMAIN table' = Hosts /\ \A g \in Hosts : table'[g] = NoHost \/ IsEntry(table'[g], g)
    BY <1>6, <2>3 DEF Plan
  <2>5. Outdated /\ step' \in [Envs -> Nat] /\ strays' \subseteq Vms
    BY <1>6 DEF Plan
  <2> QED BY <1>6, <1>o, <2>2, <2>4, <2>5 DEF Plan, PlanRows
<1>n. ASSUME NEW e \in Envs, Next1(e) PROVE step' \in [Envs -> Nat]
  BY <1>n DEF Next1
<1>7. ASSUME NEW e \in Envs, Send(e) PROVE FleetType'
  <2> DEFINE v == Turn(e)
             row == [host |-> vms[v].host, spec |-> vms[v].spec]
  <2>1. v \in Tracked
    BY <1>7 DEF Send, FleetLinks, VmsOf, Turn
  <2>2. row \in [host : Hosts, spec : Specs]
    BY <2>1 DEF Tracked, NoVm, IsPlanned
  <2>3. sent' = [sent EXCEPT ![v] = row]
    BY <1>7 DEF Send
  <2> HIDE DEF v, row
  <2>4. sent' \in [Vms -> {NoVm} \union [host : Hosts, spec : Specs]]
    BY <2>2, <2>3
  <2> QED BY <1>7, <2>4 DEF Send
<1>8. ASSUME NEW e \in Envs, Timeout(e) PROVE FleetType'
  BY <1>8, <1>n DEF Timeout
<1>9. ASSUME NEW e \in Envs, Doom(e) PROVE FleetType'
  BY <1>9 DEF Doom
<1>10. ASSUME NEW e \in Envs, NEW v \in Vms, Erase(e, v) PROVE FleetType'
  <2>1. guest' \in GuestRows
    BY <1>10 DEF Erase, GuestRows
  <2>2. DOMAIN vms' = Vms /\ \A w \in Vms : vms'[w] = NoVm \/ IsPlanned(vms'[w])
    BY <1>10 DEF Erase
  <2> QED BY <1>10, <2>1, <2>2 DEF Erase
<1>11. ASSUME NEW v \in Vms, Arrive(v) PROVE FleetType'
  <2> DEFINE h == sent[v].host
             spec == sent[v].spec
  <2>1. h \in Hosts /\ spec \in Specs
    BY <1>11 DEF Arrive, Sent, NoVm
  <2>2. guest' \in GuestRows
    <3>1. CASE guest' = guest
      BY <3>1
    <3>2. CASE /\ guest' = [guest EXCEPT ![v] = [host |-> h, spec |-> spec,
                                               disk |-> CHOOSE d \in Reserved(Request(spec)) : TRUE]]
               /\ Reserved(Request(spec)) # {}
      <4>1. (CHOOSE d \in Reserved(Request(spec)) : TRUE) \in Nat
        BY <2>1, <3>2, ReservedIs
      <4> QED BY <2>1, <3>2, <4>1 DEF GuestRows
    <3> QED BY <1>11, <3>1, <3>2 DEF Arrive, Decides, Admits
  <2>3. step' \in [Envs -> Nat]
    BY <1>11, <1>n DEF Arrive
  <2>4. sent' \in [Vms -> {NoVm} \union [host : Hosts, spec : Specs]]
    BY <1>11 DEF Arrive
  <2> QED BY <1>11, <2>2, <2>3, <2>4 DEF Arrive
<1>12. ASSUME NEW h \in Hosts, Restart(h) PROVE FleetType'
  BY <1>12 DEF Restart
<1>13. ASSUME CtlCrash PROVE FleetType'
  BY <1>13 DEF CtlCrash, IsRead
<1>14. CASE UNCHANGED fleetVars
  BY <1>14 DEF fleetVars
<1> QED BY <1>1, <1>2, <1>3, <1>4, <1>5, <1>6, <1>7, <1>8, <1>9, <1>10, <1>11, <1>12, <1>13, <1>14 DEF FleetNext

-----------------------------------------------------------------------------
(* A VM is known where it is planned *)

LEMMA LinksStart == FleetInit => FleetLinks
BY DEF FleetInit, FleetLinks, Tracked, Sent, NoVm, Creating

LEMMA OwnVms ==
  ASSUME NEW d \in Envs, NEW e \in Envs, NEW v \in VmsOf(d), v \in VmsOf(e)
  PROVE  d = e
BY FleetAssumption DEF VmsOf

LEMMA TrackedHost ==
  ASSUME FleetType
  PROVE  /\ \A v \in Tracked : vms[v].host \in Hosts /\ vms[v].spec \in Specs
         /\ \A v \in Sent : sent[v].host \in Hosts
         /\ "none" \notin Hosts
         /\ \A v \in Vms : guest[v].host \in Hosts \union {"none"}
BY FleetAssumption DEF FleetType, Tracked, Sent, NoVm, IsPlanned, GuestRows

LEMMA LinksKept ==
  ASSUME FleetType, FleetLinks, [FleetNext]_fleetVars
  PROVE  FleetLinks'
<1> USE DEF FleetLinks
<1>t. /\ \A v \in Tracked : vms[v].host \in Hosts
      /\ \A v \in Sent : sent[v].host \in Hosts
      /\ "none" \notin Hosts /\ DOMAIN table = Hosts /\ DOMAIN vms = Vms /\ DOMAIN sent = Vms
      /\ DOMAIN guest = Vms /\ DOMAIN step = Envs
  BY TrackedHost DEF FleetType, GuestRows
<1>1. ASSUME NEW h \in Hosts, Register(h) PROVE FleetLinks'
  <2>1. Known \subseteq Known'
    <3> DEFINE disk == DiskIn(Info(h).rows)
               mem == MemIn(Info(h).rows)
    <3>1. table' = [table EXCEPT ![h] =
            IF h \in Known THEN Entry("online", host[h], More(disk, table[h].disk), More(mem, table[h].mem))
            ELSE Entry("online", host[h], disk, mem)]
      BY <1>1 DEF Register
    <3> HIDE DEF disk, mem
    <3>2. table'[h].is = "online" /\ \A g \in Hosts \ {h} : table'[g] = table[g]
      BY <3>1, <1>t DEF Entry
    <3> QED BY <3>2 DEF Known
  <2> QED BY <1>1, <2>1 DEF Register, Tracked, Sent, Creating
<1>2. ASSUME NEW h \in Hosts, Unregister(h) PROVE FleetLinks'
  <2>1. \A g \in Hosts : g \in Known /\ g # h => g \in Known'
    BY <1>2, <1>t DEF Unregister, Known
  <2>2. \A v \in Tracked : vms[v].host \in Known'
    BY <1>2, <1>t, <2>1 DEF Unregister, On
  <2> QED BY <1>2, <2>2 DEF Unregister, Tracked, Sent, Creating
<1>3. ASSUME NEW h \in Hosts, Detach(h) PROVE FleetLinks'
  <2>1. \A g \in Hosts : g \in Known /\ g # h => g \in Known'
    BY <1>3, <1>t DEF Detach, Known
  <2>2. \A v \in Vms : vms'[v] = IF v \in On(h) THEN NoVm ELSE vms[v]
    BY <1>3 DEF Detach
  <2>3. Tracked' = Tracked \ On(h) /\ \A v \in Tracked' : vms'[v] = vms[v] /\ vms[v].host # h
    BY <2>2 DEF Tracked, NoVm, On
  <2>4. UNCHANGED <<guest, sent, step, doomed>> /\ strays' = strays \union (Sent \intersect On(h))
    BY <1>3 DEF Detach
  <2>5. \A v \in Tracked' : /\ vms'[v].host \in Known' /\ v \notin strays'
                            /\ guest'[v].host \in {"none", vms'[v].host}
    BY <2>1, <2>3, <2>4, <1>t
  <2>6. \A v \in Sent' : /\ guest'[v].host = "none"
                         /\ v \notin strays' => vms'[v].host = sent'[v].host /\ vms'[v].spec = sent'[v].spec
    BY <2>2, <2>4 DEF Sent
  <2>7. ASSUME NEW e \in Envs, Creating(e)'
        PROVE  e \notin doomed' /\ step'[e] \in DOMAIN Members[e] /\ VmsOf(e) \subseteq Tracked'
    <3>1. Creating(e)
      BY <2>4, <2>7 DEF Creating
    <3>2. \A v \in VmsOf(e) : v \notin On(h)
      BY <1>3, <3>1 DEF Detach, Busy
    <3> QED BY <2>3, <2>4, <3>1, <3>2
  <2> QED BY <2>5, <2>6, <2>7
<1>4. ASSUME NEW h \in Hosts, Observe(h) PROVE FleetLinks'
  BY <1>4 DEF Observe, Tracked, Sent, Known, Creating
<1>5. ASSUME NEW h \in Hosts, Apply(h) PROVE FleetLinks'
  <2>1. Known \subseteq Known'
    <3>1. CASE table' = table
      BY <3>1 DEF Known
    <3>2. CASE h \in Known /\ table' = [table EXCEPT ![h].is = "offline"]
      <4>1. IsEntry(table[h], h)
        BY <3>2, KnownEntry
      <4>2. table'[h].is = "offline" /\ \A g \in Hosts \ {h} : table'[g] = table[g]
        BY <3>2, <4>1, <1>t DEF IsEntry
      <4> QED BY <4>2 DEF Known
    <3>3. CASE table' = [table EXCEPT ![h] = Observed(h, reads[h])]
      <4>1. table'[h].is = "online" /\ \A g \in Hosts \ {h} : table'[g] = table[g]
        BY <3>3, <1>t DEF Observed, Entry
      <4> QED BY <4>1 DEF Known
    <3> QED BY <1>5, <3>1, <3>2, <3>3 DEF Apply
  <2> QED BY <1>5, <2>1 DEF Apply, Tracked, Sent, Creating
<1>6. ASSUME NEW e \in Envs, Plan(e) PROVE FleetLinks'
  <2> PICK specs \in [DOMAIN Members[e] -> {spec \in Specs : Valid(spec)}] :
        \E places \in Schedules(specs) : vms' = Planned(e, specs, places)
    BY <1>6 DEF Plan
  <2>1. PICK places \in Schedules(specs) : vms' = Planned(e, specs, places)
    OBVIOUS
  <2>2. ASSUME NEW v \in VmsOf(e) PROVE v \in Vms /\ vms'[v].host \in Known
    <3>1. PICK i \in DOMAIN Members[e] : v = Members[e][i]
      BY DEF VmsOf
    <3> QED BY <2>1, <3>1, PlanPlaces
  <2>3. \A v \in Vms \ VmsOf(e) : vms'[v] = vms[v]
    BY <2>1, PlanKept
  <2>4. Tracked' = Tracked \union VmsOf(e)
    <3>1. Known \subseteq Hosts
      BY DEF Known
    <3>2. \A v \in VmsOf(e) : v \in Vms /\ vms'[v].host # "none"
      BY <2>2, <3>1, <1>t
    <3> QED BY <2>3, <3>2 DEF Tracked
  <2>5. Known' = Known
    <3>1. \A h \in Known : table'[h] = [table[h] EXCEPT !.disk = UsedDisk(h) + DiskIn(Joining(vms', e, h)),
                                                        !.mem = UsedMem(h) + MemIn(Joining(vms', e, h))]
      BY <1>6 DEF Plan, Known
    <3>2. \A h \in Known : table'[h].is = table[h].is
      BY <3>1, KnownEntry DEF IsEntry
    <3>3. \A h \in Hosts \ Known : table'[h] = NoHost
      BY <1>6 DEF Plan
    <3> QED BY <3>2, <3>3 DEF Known, NoHost
  <2>6. \A v \in VmsOf(e) : Unused(v)
    BY <1>6 DEF Plan
  <2>7. UNCHANGED <<guest, sent, doomed>> /\ strays' = strays \ VmsOf(e) /\ step' = [step EXCEPT ![e] = 1]
    BY <1>6 DEF Plan
  <2>8. \A v \in Tracked' : /\ vms'[v].host \in Known' /\ v \notin strays'
                            /\ guest'[v].host \in {"none", vms'[v].host}
    BY <2>2, <2>3, <2>4, <2>5, <2>6, <2>7 DEF Unused, Tracked
  <2>9. \A v \in Sent' : /\ guest'[v].host = "none"
                         /\ v \notin strays' => vms'[v].host = sent'[v].host /\ vms'[v].spec = sent'[v].spec
    <3>1. \A v \in Sent : v \notin VmsOf(e) /\ v \in Vms
      BY <2>6 DEF Unused, Sent
    <3>2. Sent' = Sent
      BY <2>7 DEF Sent
    <3> QED BY <2>3, <2>7, <3>1, <3>2
  <2>a. ASSUME NEW d \in Envs, Creating(d)'
        PROVE  d \notin doomed' /\ step'[d] \in DOMAIN Members[d] /\ VmsOf(d) \subseteq Tracked'
    <3>1. CASE d = e
      <4>1. 1 \in DOMAIN Members[e]
        <5>1. Members[e] \in Seq(Vms) /\ Members[e] # <<>>
          BY FleetAssumption
        <5>2. Len(Members[e]) \in Nat \ {0} /\ DOMAIN Members[e] = 1 .. Len(Members[e])
          BY <5>1
        <5> QED BY <5>2
      <4> QED BY <1>6, <1>t, <2>4, <2>7, <3>1, <4>1 DEF Plan
    <3>2. CASE d # e
      <4>1. step'[d] = step[d] /\ Creating(d)
        BY <2>7, <2>a, <3>2, <1>t DEF Creating
      <4> QED BY <2>4, <2>7, <4>1
    <3> QED BY <3>1, <3>2
  <2> QED BY <2>8, <2>9, <2>a
<1>n. ASSUME NEW e \in Envs, Creating(e), Next1(e), UNCHANGED <<vms, doomed>>
      PROVE  \A d \in Envs : Creating(d)' => d \notin doomed' /\ step'[d] \in DOMAIN Members[d] /\ VmsOf(d) \subseteq Tracked'
  <2> SUFFICES ASSUME NEW d \in Envs, Creating(d)'
               PROVE  d \notin doomed' /\ step'[d] \in DOMAIN Members[d] /\ VmsOf(d) \subseteq Tracked'
    OBVIOUS
  <2>1. Creating(d)
    BY <1>n, <1>t DEF Creating, Next1
  <2>2. step'[d] \in DOMAIN Members[d]
    <3>1. Members[d] \in Seq(Vms) /\ DOMAIN Members[d] = 1 .. Len(Members[d]) /\ Len(Members[d]) \in Nat
      BY FleetAssumption
    <3>2. step[d] \in 1 .. Len(Members[d])
      BY <2>1, <3>1
    <3>3. step'[d] = step[d] \/ step'[d] = 0 \/ (step[d] # Len(Members[d]) /\ step'[d] = step[d] + 1)
      BY <1>n, <1>t DEF Next1
    <3>4. step'[d] # 0
      BY <2>1 DEF Creating
    <3> QED BY <3>1, <3>2, <3>3, <3>4
  <2> QED BY <1>n, <2>1, <2>2 DEF Tracked
<1>7. ASSUME NEW e \in Envs, Send(e) PROVE FleetLinks'
  <2> DEFINE v == Turn(e)
  <2>1. v \in Tracked
    BY <1>7 DEF Send, VmsOf, Turn
  <2>2. sent' = [sent EXCEPT ![v] = [host |-> vms[v].host, spec |-> vms[v].spec]] /\ guest[v].host = "none"
    BY <1>7 DEF Send
  <2> HIDE DEF v
  <2>3. UNCHANGED <<vms, guest, table, step, doomed, strays>>
    BY <1>7 DEF Send
  <2>4. \A w \in Sent' : w \in Sent \/ w = v
    BY <2>2, <1>t DEF Sent
  <2>5. \A w \in Sent' : /\ guest'[w].host = "none"
                         /\ w \notin strays' => vms'[w].host = sent'[w].host /\ vms'[w].spec = sent'[w].spec
    BY <2>1, <2>2, <2>3, <2>4, <1>t DEF Sent, Tracked
  <2> QED BY <2>3, <2>5 DEF Tracked, Known, Creating
<1>8. ASSUME NEW e \in Envs, Timeout(e) PROVE FleetLinks'
  BY <1>8, <1>n DEF Timeout, Tracked, Sent, Known
<1>9. ASSUME NEW e \in Envs, Doom(e) PROVE FleetLinks'
  BY <1>9 DEF Doom, Tracked, Sent, Known, Creating
<1>10. ASSUME NEW e \in Envs, NEW v \in Vms, Erase(e, v) PROVE FleetLinks'
  <2>1. /\ e \in doomed /\ v \in VmsOf(e) /\ v \notin Sent
        /\ guest' = [guest EXCEPT ![v] = NoVm] /\ doomed' \subseteq doomed
        /\ UNCHANGED <<table, step, sent, strays>>
        /\ vms' = vms \/ vms' = [vms EXCEPT ![v] = NoVm]
    BY <1>10 DEF Erase
  <2>2. /\ \A w \in Vms \ {v} : guest'[w] = guest[w] /\ vms'[w] = vms[w]
        /\ guest'[v].host = "none" /\ (vms'[v] = vms[v] \/ vms'[v].host = "none")
    BY <2>1, <1>t DEF NoVm
  <2>3. Tracked' \subseteq Tracked /\ \A w \in Tracked : w # v => w \in Tracked'
    BY <2>2 DEF Tracked
  <2>4. \A w \in Tracked' : /\ vms'[w].host \in Known' /\ w \notin strays'
                            /\ guest'[w].host \in {"none", vms'[w].host}
    BY <2>1, <2>2, <2>3 DEF Known, Tracked
  <2>5. \A w \in Sent' : /\ guest'[w].host = "none"
                         /\ w \notin strays' => vms'[w].host = sent'[w].host /\ vms'[w].spec = sent'[w].spec
    BY <2>1, <2>2 DEF Sent
  <2>6. ASSUME NEW d \in Envs, Creating(d)'
        PROVE  d \notin doomed' /\ step'[d] \in DOMAIN Members[d] /\ VmsOf(d) \subseteq Tracked'
    <3>1. Creating(d) /\ d \notin doomed /\ d # e
      BY <2>1, <2>6 DEF Creating
    <3>2. v \notin VmsOf(d)
      BY <2>1, <3>1, OwnVms
    <3> QED BY <2>1, <2>3, <3>1, <3>2
  <2> QED BY <2>4, <2>5, <2>6
<1>11. ASSUME NEW v \in Vms, Arrive(v) PROVE FleetLinks'
  <2>1. /\ v \in Sent /\ UNCHANGED <<vms, table, strays, doomed>>
        /\ sent' = [sent EXCEPT ![v] = NoVm]
        /\ \A w \in Vms \ {v} : guest'[w] = guest[w]
        /\ guest'[v].host \in {"none", sent[v].host}
    BY <1>11, <1>t DEF Arrive
  <2>2. \A w \in Tracked' : /\ vms'[w].host \in Known' /\ w \notin strays'
                            /\ guest'[w].host \in {"none", vms'[w].host}
    BY <2>1 DEF Known, Tracked
  <2>3. \A w \in Sent' : /\ guest'[w].host = "none"
                         /\ w \notin strays' => vms'[w].host = sent'[w].host /\ vms'[w].spec = sent'[w].spec
    <3>1. \A w \in Sent' : w \in Sent /\ w # v /\ sent'[w] = sent[w]
      BY <2>1, <1>t DEF Sent, NoVm
    <3> QED BY <2>1, <3>1 DEF Sent
  <2>4. \A d \in Envs : Creating(d)' => d \notin doomed' /\ step'[d] \in DOMAIN Members[d] /\ VmsOf(d) \subseteq Tracked'
    <3>1. CASE step' = step
      BY <2>1, <3>1 DEF Creating, Tracked
    <3>2. CASE \E e \in Envs : Creating(e) /\ Next1(e)
      BY <2>1, <3>2, <1>n
    <3> QED BY <1>11, <3>1, <3>2 DEF Arrive
  <2> QED BY <2>2, <2>3, <2>4
<1>12. ASSUME NEW h \in Hosts, Restart(h) PROVE FleetLinks'
  BY <1>12 DEF Restart, Tracked, Sent, Known, Creating
<1>13. ASSUME CtlCrash PROVE FleetLinks'
  BY <1>13 DEF CtlCrash, Tracked, Sent, Known, Creating
<1>14. CASE UNCHANGED fleetVars
  BY <1>14 DEF fleetVars, Tracked, Sent, Known, Creating
<1> QED BY <1>1, <1>2, <1>3, <1>4, <1>5, <1>6, <1>7, <1>8, <1>9, <1>10, <1>11, <1>12, <1>13, <1>14 DEF FleetNext


-----------------------------------------------------------------------------
(* No host is promised more than it has *)

Within(h) == DiskIn(Among(guest, At(h))) <= DiskOf[h] /\ MemIn(Among(guest, At(h))) <= MemOf[h]
Counted(h) == h \in Known => DiskIn(Promised(h)) <= table[h].disk /\ MemIn(Promised(h)) <= table[h].mem
Shown(h) == reads[h].is = "up" /\ reads[h].current =>
              \A v \in At(h) \ (Tracked \union strays) : reads[h].rows[v] = guest[v]
Fit(h) == DiskIn(Promised(h)) <= DiskOf[h] /\ MemIn(Promised(h)) <= MemOf[h]

LEMMA FitsAre ==
  /\ FleetFits <=> \A h \in Hosts : Within(h) /\ Counted(h) /\ Shown(h) /\ Fit(h)
  /\ FleetFits' <=> \A h \in Hosts : Within(h)' /\ Counted(h)' /\ Shown(h)' /\ Fit(h)'
<1>1. Known \subseteq Hosts /\ Known' \subseteq Hosts
  BY DEF Known
<1> QED BY <1>1, Zenon DEF FleetFits, Within, Counted, Shown, Fit, PlansFit

LEMMA PromisedIs ==
  ASSUME NEW h \in Hosts
  PROVE  /\ \A v \in Vms : Promised(h)[v] = IF vms[v].host = h THEN vms[v]
                             ELSE IF guest[v].host = h /\ v \notin strays THEN guest[v] ELSE NoVm
         /\ \A v \in Vms : Promised(h)'[v] = IF vms'[v].host = h THEN vms'[v]
                             ELSE IF guest'[v].host = h /\ v \notin strays' THEN guest'[v] ELSE NoVm
         /\ \A v \in Vms : Among(guest, At(h))[v] = IF guest[v].host = h THEN guest[v] ELSE NoVm
         /\ \A v \in Vms : Among(guest, At(h))'[v] = IF guest'[v].host = h THEN guest'[v] ELSE NoVm
         /\ \A v \in Vms : Among(vms, On(h))[v] = IF vms[v].host = h THEN vms[v] ELSE NoVm
<1>1. h # "none"
  BY FleetAssumption
<1> QED BY <1>1 DEF Promised, On, At, Among, Tracked

LEMMA PromisedCounts ==
  ASSUME NEW h \in Hosts
  PROVE  /\ FleetType => Accounted(Promised(h)) /\ Accounted(Among(guest, At(h))) /\ Accounted(Among(vms, On(h)))
         /\ FleetType' => Accounted(Promised(h)') /\ Accounted(Among(guest, At(h))')
<1>1. FleetType => PlanRows(vms) /\ guest \in GuestRows
  BY DEF FleetType, PlanRows
<1>2. FleetType' => PlanRows(vms') /\ guest' \in GuestRows
  BY DEF FleetType, PlanRows
<1>3. FleetType => Accounted(vms) /\ Accounted(guest) /\ Accounted(Among(vms, On(h)))
  BY <1>1, PlansCount, GuestsCount
<1>4. FleetType' => Accounted(vms') /\ Accounted(guest')
  BY <1>2, PlansCount, GuestsCount
<1>5. NoVm.host = "none"
  BY DEF NoVm
<1> QED BY <1>3, <1>4, <1>5, PromisedIs DEF Accounted

\* A step by which no agent gives out more and no host is promised more.
LEMMA FitsLess ==
  ASSUME FleetType, FleetType', FleetFits, NEW h \in Hosts,
         \A v \in Vms : Promised(h)'[v] = Promised(h)[v] \/ Promised(h)'[v].host = "none"
  PROVE  /\ Fit(h)'
         /\ DiskIn(Promised(h)') <= DiskIn(Promised(h)) /\ MemIn(Promised(h)') <= MemIn(Promised(h))
         /\ h \in Known /\ h \in Known' /\ table'[h].disk >= table[h].disk /\ table'[h].mem >= table[h].mem => Counted(h)'
<1>1. Accounted(Promised(h)) /\ Accounted(Promised(h)')
  BY PromisedCounts
<1>2. DiskIn(Promised(h)') <= DiskIn(Promised(h)) /\ MemIn(Promised(h)') <= MemIn(Promised(h))
  BY <1>1, FewerLess
<1>3. /\ DiskIn(Promised(h)) \in Nat /\ MemIn(Promised(h)) \in Nat
      /\ DiskIn(Promised(h)') \in Nat /\ MemIn(Promised(h)') \in Nat
  BY <1>1, SumsAre
<1>4. Fit(h) /\ Counted(h) /\ DiskOf[h] \in Nat /\ MemOf[h] \in Nat
  BY FitsAre, FleetAssumption
<1>5. Fit(h)'
  BY <1>2, <1>3, <1>4 DEF Fit
<1>6. ASSUME h \in Known, h \in Known', table'[h].disk >= table[h].disk, table'[h].mem >= table[h].mem
      PROVE  Counted(h)'
  <2>1. table[h].disk \in Nat /\ table[h].mem \in Nat
    BY <1>6, KnownEntry
  <2>2. table'[h].disk \in Nat /\ table'[h].mem \in Nat
    BY <1>6 DEF FleetType, Known, NoHost, IsEntry
  <2> QED BY <1>2, <1>3, <1>4, <1>6, <2>1, <2>2 DEF Counted
<1> QED BY <1>2, <1>5, <1>6

LEMMA WithinKept ==
  ASSUME FleetType, FleetFits, NEW h \in Hosts,
         \A v \in Vms : guest'[v] = guest[v] \/ guest'[v] = NoVm
  PROVE  Within(h)'
<1>1. Accounted(Among(guest, At(h)))
  BY PromisedCounts
<1>2. \A v \in Vms : Among(guest, At(h))'[v] = Among(guest, At(h))[v] \/ Among(guest, At(h))'[v].host = "none"
  BY PromisedIs DEF NoVm
<1>3. /\ DiskIn(Among(guest, At(h))') <= DiskIn(Among(guest, At(h)))
      /\ MemIn(Among(guest, At(h))') <= MemIn(Among(guest, At(h)))
  BY <1>1, <1>2, FewerLess
<1>4. Accounted(Among(guest, At(h))')
  BY <1>1, <1>2 DEF Accounted
<1>5. /\ DiskIn(Among(guest, At(h))) \in Nat /\ MemIn(Among(guest, At(h))) \in Nat
      /\ DiskIn(Among(guest, At(h))') \in Nat /\ MemIn(Among(guest, At(h))') \in Nat
  BY <1>1, <1>4, SumsAre
<1>6. Within(h) /\ DiskOf[h] \in Nat /\ MemOf[h] \in Nat
  BY FitsAre, FleetAssumption
<1> QED BY <1>3, <1>5, <1>6 DEF Within

LEMMA FitsStart == FleetInit => FleetFits
<1> SUFFICES ASSUME FleetInit, NEW h \in Hosts PROVE Within(h) /\ Counted(h) /\ Shown(h) /\ Fit(h)
  BY FitsAre
<1>1. h # "none" /\ DiskOf[h] \in Nat /\ MemOf[h] \in Nat
  BY FleetAssumption
<1>2. \A v \in Vms : Promised(h)[v].host = "none" /\ Among(guest, At(h))[v].host = "none"
  BY <1>1, PromisedIs DEF FleetInit, NoVm
<1>3. /\ DiskIn(Promised(h)) = 0 /\ MemIn(Promised(h)) = 0
      /\ DiskIn(Among(guest, At(h))) = 0 /\ MemIn(Among(guest, At(h))) = 0
  BY <1>2, SumsOfNone
<1>4. h \notin Known /\ reads[h].is # "up"
  BY DEF FleetInit, Known, NoHost, NoRead
<1> QED BY <1>1, <1>3, <1>4 DEF Within, Counted, Shown, Fit

\* A plan leaves room: the last VM it puts on a host was measured against all the others.
LEMMA PlanFits ==
  ASSUME FleetType, NEW e \in Envs,
         NEW specs \in [DOMAIN Members[e] -> {spec \in Specs : Valid(spec)}],
         NEW places \in Schedules(specs), NEW h \in Known
  PROVE  LET joining == Joining(Planned(e, specs, places), e, h)
         IN \/ \A v \in Vms : joining[v].host = "none"
            \/ UsedDisk(h) + DiskIn(joining) <= DiskOf[h] /\ UsedMem(h) + MemIn(joining) <= MemOf[h]
<1> DEFINE rows == Planned(e, specs, places)
           joining == Joining(rows, e, h)
           I == {i \in DOMAIN Members[e] : places[i] = h}
           disk == [i \in I |-> Reserves(specs[i], table[h].view)]
           mem == [i \in I |-> Memory(specs[i])]
           index == [v \in VmsOf(e) |-> CHOOSE i \in DOMAIN Members[e] : Members[e][i] = v]
<1>1. /\ DOMAIN Members[e] = 1 .. Len(Members[e]) /\ Len(Members[e]) \in Nat
      /\ DOMAIN specs = DOMAIN Members[e]
      /\ \A i, j \in DOMAIN Members[e] : Members[e][i] = Members[e][j] => i = j
  BY FleetAssumption
<1>2. \A i \in I : /\ specs[i] \in Specs /\ h \in Candidates(specs, places, i)
                   /\ rows[Members[e][i]].disk = disk[i] /\ Memory(rows[Members[e][i]].spec) = mem[i]
                   /\ disk[i] \in Nat /\ mem[i] \in Nat
                   /\ IsPlanned(rows[Members[e][i]])
  <2> SUFFICES ASSUME NEW i \in I
               PROVE  /\ specs[i] \in Specs /\ h \in Candidates(specs, places, i)
                      /\ rows[Members[e][i]].disk = disk[i] /\ Memory(rows[Members[e][i]].spec) = mem[i]
                      /\ disk[i] \in Nat /\ mem[i] \in Nat
                      /\ IsPlanned(rows[Members[e][i]])
    OBVIOUS
  <2> DEFINE x == rows[Members[e][i]]
  <2>1. /\ specs[i] \in Specs /\ h \in Candidates(specs, places, i)
        /\ x.disk = Reserves(specs[i], table[h].view) /\ x.spec = specs[i] /\ IsPlanned(x)
    BY PlanPlaces
  <2> HIDE DEF rows, x
  <2>2. x.disk \in Nat
    BY <2>1, PlanCounts
  <2>3. Memory(specs[i]) \in Nat
    BY DEF Memory
  <2> QED BY <2>1, <2>2, <2>3 DEF x
<1>3. IsFiniteSet(I) /\ I \subseteq Nat
  <2>1. IsFiniteSet(1 .. Len(Members[e]))
    BY <1>1, FS_Interval
  <2> QED BY <1>1, <2>1, FS_Subset
<1>4. \A v \in Vms : joining[v].host # "none" =>
        /\ v \in VmsOf(e) /\ joining[v] = rows[v] /\ index[v] \in I /\ v = Members[e][index[v]]
  <2> SUFFICES ASSUME NEW v \in Vms, joining[v].host # "none"
               PROVE  v \in VmsOf(e) /\ joining[v] = rows[v] /\ index[v] \in I /\ v = Members[e][index[v]]
    OBVIOUS
  <2>1. v \in VmsOf(e) /\ joining[v] = rows[v] /\ rows[v].host = h
    <3> HIDE DEF rows
    <3> QED BY DEF Joining, Among, NoVm
  <2>2. PICK i \in DOMAIN Members[e] : Members[e][i] = v
    BY <2>1 DEF VmsOf
  <2>3. index[v] = i
    BY <1>1, <2>1, <2>2
  <2>4. rows[v].host = places[i]
    BY <2>2, PlanPlaces
  <2> HIDE DEF index, rows, joining
  <2> QED BY <2>1, <2>2, <2>3, <2>4
<1> HIDE DEF rows, joining, disk, mem, index
<1>5. Accounted(joining)
  <2>1. PlanRows(rows)
    BY PlanKept DEF rows
  <2> QED BY <2>1, PlansCount DEF joining, Joining
<1>6. DiskIn(joining) <= SumOf(disk, I) /\ MemIn(joining) <= SumOf(mem, I)
  <2>1. \A v \in Vms : joining[v].host # "none" =>
          index[v] \in I /\ joining[v].disk = disk[index[v]] /\ Memory(joining[v].spec) = mem[index[v]]
    BY <1>2, <1>4
  <2>2. \A v, w \in Vms : joining[v].host # "none" /\ joining[w].host # "none" /\ index[v] = index[w] => v = w
    BY <1>4
  <2>3. \A i \in I : disk[i] \in Nat /\ mem[i] \in Nat
    BY <1>2
  <2>4. \E x : Indexed(joining, I, disk, mem, x)
    <3> HIDE DEF I
    <3> QED BY <2>1, <2>2, Zenon DEF Indexed
  <2> HIDE DEF I
  <2> QED BY <1>3, <1>5, <2>3, <2>4, SumsOfIndexed
<1>7. CASE I = {}
  BY <1>4, <1>7 DEF joining, rows
<1>8. CASE I # {}
  <2>1. PICK m \in I : \A i \in I : i <= m
    BY <1>3, <1>8, Largest
  <2> DEFINE E == Earlier(specs, places, m, h)
             fd == [j \in E |-> Reserves(specs[j], table[h].view)]
             fm == [j \in E |-> Memory(specs[j])]
  <2>2. E = I \ {m}
    <3>1. m \in 1 .. Len(Members[e])
      BY <1>1
    <3>2. \A j : j \in E <=> j \in 1 .. m - 1 /\ places[j] = h
      BY DEF Earlier
    <3>3. \A j : j \in I \ {m} <=> j \in 1 .. Len(Members[e]) /\ j # m /\ places[j] = h
      BY <1>1
    <3>4. \A j : j \in 1 .. m - 1 => j \in 1 .. Len(Members[e]) /\ j # m
      BY <1>1, <3>1
    <3>5. \A j \in I \ {m} : j \in 1 .. m - 1
      BY <1>1, <2>1, <3>1
    <3> HIDE DEF E, I
    <3> QED BY <3>2, <3>3, <3>4, <3>5
  <2>3. IsFiniteSet(E) /\ \A j \in E : /\ fd[j] \in Nat /\ fm[j] \in Nat /\ fd[j] = disk[j] /\ fm[j] = mem[j]
                                       /\ disk[j] \in Nat /\ mem[j] \in Nat
    <3>1. IsFiniteSet(E)
      BY <1>3, <2>2, FS_Subset
    <3>2. \A j \in E : j \in I
      BY <2>2
    <3>3. \A j \in E : fd[j] = disk[j] /\ fm[j] = mem[j]
      <4> HIDE DEF E, I
      <4> QED BY <3>2 DEF disk, mem
    <3> HIDE DEF E, fd, fm, I
    <3> QED BY <1>2, <3>1, <3>2, <3>3
  <2>4. SumOf(fd, E) = SumOf(disk, E) /\ SumOf(fm, E) = SumOf(mem, E)
    <3> HIDE DEF E, fd, fm
    <3> QED BY <2>3, SumOfSame
  <2>5. SumOf(disk, I) = disk[m] + SumOf(disk, E) /\ SumOf(mem, I) = mem[m] + SumOf(mem, E)
    <3>1. (\A i \in I : disk[i] \in Nat) /\ (\A i \in I : mem[i] \in Nat) /\ IsFiniteSet(I)
      BY <1>2, <1>3
    <3>2. SumOf(disk, I) = disk[m] + SumOf(disk, I \ {m})
      <4> HIDE DEF I, E
      <4> QED BY <3>1, SumOfRest
    <3>3. SumOf(mem, I) = mem[m] + SumOf(mem, I \ {m})
      <4> HIDE DEF I, E
      <4> QED BY <3>1, SumOfRest
    <3> QED BY <2>2, <3>2, <3>3
  <2>6. SumOf(disk, E) \in Nat /\ SumOf(mem, E) \in Nat /\ disk[m] \in Nat /\ mem[m] \in Nat
    <3>1. disk[m] \in Nat /\ mem[m] \in Nat
      BY <1>2
    <3> HIDE DEF E, I
    <3> QED BY <2>3, <3>1, SumIsNat
  <2>7. disk[m] <= FreeDisk(specs, places, m, h) /\ mem[m] <= FreeMem(specs, places, m, h)
    <3>1. h \in Candidates(specs, places, m) /\ specs[m] \in Specs
      BY <1>2
    <3>2. PICK d \in Reservation(specs[m], table[h].view) : d <= FreeDisk(specs, places, m, h)
      BY <3>1 DEF Candidates
    <3>3. IsFact(table[h].view)
      BY KnownEntry, FleetAssumption DEF IsEntry
    <3>4. d = Reserves(specs[m], table[h].view)
      BY <3>1, <3>3, ReservationIs
    <3>5. Memory(specs[m]) <= FreeMem(specs, places, m, h)
      BY <3>1 DEF Candidates
    <3> QED BY <3>2, <3>4, <3>5 DEF disk, mem
  <2>8. /\ FreeDisk(specs, places, m, h) = DiskOf[h] - UsedDisk(h) - SumOf(fd, E)
        /\ FreeMem(specs, places, m, h) = MemOf[h] - UsedMem(h) - SumOf(fm, E)
    BY DEF FreeDisk, FreeMem
  <2>9. UsedDisk(h) \in Nat /\ UsedMem(h) \in Nat /\ DiskOf[h] \in Nat /\ MemOf[h] \in Nat
    BY UsedIs, FleetAssumption DEF Known
  <2>10. DiskIn(joining) \in Nat /\ MemIn(joining) \in Nat
    BY <1>5, SumsAre
  <2>11. UsedDisk(h) + DiskIn(joining) <= DiskOf[h]
    <3> HIDE DEF E, fd, fm, I
    <3>1. disk[m] <= DiskOf[h] - UsedDisk(h) - SumOf(disk, E)
      BY <2>4, <2>7, <2>8
    <3>2. DiskIn(joining) <= disk[m] + SumOf(disk, E)
      BY <1>6, <2>5
    <3> QED BY <2>6, <2>9, <2>10, <3>1, <3>2
  <2>12. UsedMem(h) + MemIn(joining) <= MemOf[h]
    <3> HIDE DEF E, fd, fm, I
    <3>1. mem[m] <= MemOf[h] - UsedMem(h) - SumOf(mem, E)
      BY <2>4, <2>7, <2>8
    <3>2. MemIn(joining) <= mem[m] + SumOf(mem, E)
      BY <1>6, <2>5
    <3> QED BY <2>6, <2>9, <2>10, <3>1, <3>2
  <2> QED BY <2>11, <2>12 DEF joining, rows
<1> QED BY <1>7, <1>8

\* An agent gives out what it has room for.
LEMMA ArriveFits ==
  ASSUME FleetType, FleetType', FleetLinks, FleetFits, NEW v \in Vms, Arrive(v), NEW g \in Hosts
  PROVE  Within(g)'
<1> DEFINE h == sent[v].host
           spec == sent[v].spec
           x == [host |-> h, spec |-> spec, disk |-> CHOOSE d \in Reserved(Request(spec)) : TRUE]
           a == Among(guest, At(g))
           c == Among(guest, At(g))'
           b == [w \in Vms |-> IF w = v THEN x ELSE NoVm]
<1>1. v \in Sent /\ guest[v].host = "none" /\ h \in Hosts /\ h # "none" /\ spec \in Specs /\ NoVm.host = "none"
  BY TrackedHost DEF Arrive, FleetLinks, FleetType, Sent, NoVm
<1>2. Within(g) /\ DOMAIN guest = Vms
  BY FitsAre DEF FleetType, GuestRows
<1>3. CASE guest' = guest
  BY <1>3, WithinKept
<1>4. CASE /\ guest' = [guest EXCEPT ![v] = x] /\ Room(h, spec) /\ Reserved(Request(spec)) # {}
  <2>1. PICK d \in Nat : Reserved(Request(spec)) = {d} /\ x = [host |-> h, spec |-> spec, disk |-> d]
    <3>1. PICK d \in Reserved(Request(spec)) : TRUE
      BY <1>4
    <3>2. Reserved(Request(spec)) = {d} /\ d \in Nat
      BY <1>1, ReservedIs
    <3> QED BY <3>2
  <2>2. x.host = h /\ x.disk = d /\ x.spec = spec
    BY <2>1
  <2> HIDE DEF x
  <2>3. \A w \in Vms : guest'[w] = IF w = v THEN x ELSE guest[w]
    BY <1>2, <1>4
  <2>4. CASE g # h
    <3>1. \A w \in Vms : c[w] = a[w] \/ (c[w].host = "none" /\ a[w].host = "none")
      BY <1>1, <2>2, <2>3, <2>4, PromisedIs
    <3>2. Accounted(a)
      BY PromisedCounts
    <3>3. DiskIn(c) = DiskIn(a) /\ MemIn(c) = MemIn(a)
      <4> HIDE DEF a, c
      <4> QED BY <3>1, <3>2, SameSums
    <3> QED BY <1>2, <3>3 DEF Within
  <2>5. CASE g = h
    <3>1. \A w \in Vms : (c[w] = a[w] /\ b[w].host = "none") \/ (c[w] = b[w] /\ a[w].host = "none")
      BY <1>1, <2>2, <2>3, <2>5, PromisedIs
    <3>2. Accounted(a) /\ Accounted(b)
      BY <1>1, <2>1, <2>2, PromisedCounts DEF Accounted
    <3>3. DiskIn(c) = DiskIn(a) + DiskIn(b) /\ MemIn(c) = MemIn(a) + MemIn(b)
      <4> HIDE DEF a, b, c
      <4> QED BY <3>1, <3>2, SumsOfBoth
    <3>4. DiskIn(b) = d /\ MemIn(b) = Memory(spec)
      <4>1. b[v] = x /\ \A w \in Vms \ {v} : b[w].host = "none"
        BY <1>1
      <4> HIDE DEF b
      <4> QED BY <1>1, <2>1, <2>2, <4>1, SumsOfOne
    <3>5. DiskIn(a) + d <= DiskOf[g] /\ MemIn(a) + Memory(spec) <= MemOf[g]
      BY <1>4, <2>1, <2>5 DEF Room
    <3> HIDE DEF b, h
    <3> QED BY <3>3, <3>4, <3>5 DEF Within
  <2> QED BY <2>4, <2>5
<1>5. PICK admitted \in Decides(h, spec) : guest' = IF admitted THEN [guest EXCEPT ![v] = x] ELSE guest
  BY DEF Arrive
<1>6. admitted => Room(h, spec) /\ Reserved(Request(spec)) # {}
  BY DEF Decides, Admits
<1> HIDE DEF x
<1> QED BY <1>3, <1>4, <1>5, <1>6

\* An observation that is still current shows all that is promised.
LEMMA ObservedCounts ==
  ASSUME FleetType, FleetLinks, FleetFits, NEW h \in Hosts, reads[h].is = "up", reads[h].current
  PROVE  DiskIn(Promised(h)) <= Observed(h, reads[h]).disk /\ MemIn(Promised(h)) <= Observed(h, reads[h]).mem
<1> DEFINE rows == reads[h].rows
           all == [v \in Vms |-> IF v \in On(h) THEN vms[v] ELSE rows[v]]
<1>1. rows \in GuestRows /\ PlanRows(vms) /\ NoVm.host = "none" /\ h # "none"
  BY FleetAssumption DEF FleetType, IsRead, NoRead, PlanRows, NoVm
<1>2. Accounted(rows) /\ Accounted(vms)
  BY <1>1, PlansCount, GuestsCount
<1>3. Accounted(all)
  BY <1>2 DEF Accounted
<1>4. \A v \in Vms : Promised(h)[v] = all[v] \/ Promised(h)[v].host = "none"
  <2> SUFFICES ASSUME NEW v \in Vms PROVE Promised(h)[v] = all[v] \/ Promised(h)[v].host = "none"
    OBVIOUS
  <2>1. CASE vms[v].host = h
    BY <1>1, <2>1, PromisedIs DEF On, Tracked
  <2>2. CASE vms[v].host # h /\ guest[v].host = h /\ v \notin strays
    <3>1. v \notin Tracked
      BY <1>1, <2>2 DEF FleetLinks
    <3>2. rows[v] = guest[v]
      BY <2>2, <3>1, FitsAre DEF Shown, At
    <3> QED BY <2>2, <3>1, <3>2, PromisedIs DEF On
  <2>3. CASE vms[v].host # h /\ ~(guest[v].host = h /\ v \notin strays)
    BY <1>1, <2>3, PromisedIs
  <2> QED BY <2>1, <2>2, <2>3
<1>5. /\ Observed(h, reads[h]).disk = More(DiskIn(all), DiskIn(rows))
      /\ Observed(h, reads[h]).mem = More(MemIn(all), MemIn(rows))
  BY DEF Observed, Entry
<1> HIDE DEF rows, all
<1>6. DiskIn(Promised(h)) <= DiskIn(all) /\ MemIn(Promised(h)) <= MemIn(all)
  BY <1>3, <1>4, FewerLess
<1>7. /\ DiskIn(all) \in Nat /\ MemIn(all) \in Nat /\ DiskIn(rows) \in Nat /\ MemIn(rows) \in Nat
      /\ DiskIn(Promised(h)) \in Nat /\ MemIn(Promised(h)) \in Nat
  BY <1>2, <1>3, SumsAre, PromisedCounts
<1> QED BY <1>5, <1>6, <1>7 DEF More

\* A plan is promised in full, and fits.
LEMMA PlanCounted ==
  ASSUME FleetType, FleetType', FleetLinks, FleetFits, NEW e \in Envs, Plan(e), NEW h \in Hosts
  PROVE  Counted(h)' /\ Fit(h)'
<1> PICK specs \in [DOMAIN Members[e] -> {spec \in Specs : Valid(spec)}] :
      \E places \in Schedules(specs) : vms' = Planned(e, specs, places)
  BY DEF Plan
<1> PICK places \in Schedules(specs) : vms' = Planned(e, specs, places)
  OBVIOUS
<1> DEFINE a == Promised(h)
           b == Joining(vms', e, h)
           c == Promised(h)'
<1>1. NoVm.host = "none" /\ h # "none"
  BY FleetAssumption DEF NoVm
<1>2. \A v \in Vms \ VmsOf(e) : vms'[v] = vms[v]
  BY PlanKept
<1>3. \A v \in VmsOf(e) : /\ v \in Vms /\ Unused(v) /\ vms[v].host = "none" /\ guest[v].host = "none"
                          /\ vms'[v].host \in Known
  <2> SUFFICES ASSUME NEW v \in VmsOf(e)
               PROVE  /\ v \in Vms /\ Unused(v) /\ vms[v].host = "none" /\ guest[v].host = "none"
                      /\ vms'[v].host \in Known
    OBVIOUS
  <2>1. PICK i \in DOMAIN Members[e] : v = Members[e][i]
    BY DEF VmsOf
  <2>2. v \in Vms /\ vms'[v].host \in Known
    BY <2>1, PlanPlaces
  <2> QED BY <2>2 DEF Plan, Unused, Tracked
<1>4. UNCHANGED guest /\ strays' = strays \ VmsOf(e)
  BY DEF Plan
<1>5. \A v \in Vms : b[v] = IF v \in VmsOf(e) /\ vms'[v].host = h THEN vms'[v] ELSE NoVm
  BY DEF Joining, Among
<1>6. \A v \in Vms : (c[v] = a[v] /\ b[v].host = "none") \/ (c[v] = b[v] /\ a[v].host = "none")
  <2> SUFFICES ASSUME NEW v \in Vms
               PROVE  (c[v] = a[v] /\ b[v].host = "none") \/ (c[v] = b[v] /\ a[v].host = "none")
    OBVIOUS
  <2> HIDE DEF b
  <2>1. CASE v \in VmsOf(e)
    BY <1>1, <1>3, <1>4, <1>5, <2>1, PromisedIs
  <2>2. CASE v \notin VmsOf(e)
    BY <1>1, <1>2, <1>4, <1>5, <2>2, PromisedIs
  <2> QED BY <2>1, <2>2
<1>7. Accounted(a) /\ Accounted(b)
  <2>1. PlanRows(vms')
    BY PlanKept
  <2> QED BY <2>1, PlansCount, PromisedCounts DEF Joining
<1>8. DiskIn(c) = DiskIn(a) + DiskIn(b) /\ MemIn(c) = MemIn(a) + MemIn(b)
  <2> HIDE DEF a, b, c
  <2> QED BY <1>6, <1>7, SumsOfBoth
<1>9. /\ DiskIn(a) \in Nat /\ MemIn(a) \in Nat /\ DiskIn(b) \in Nat /\ MemIn(b) \in Nat
      /\ DiskOf[h] \in Nat /\ MemOf[h] \in Nat
  <2> HIDE DEF a, b
  <2> QED BY <1>7, SumsAre, FleetAssumption
<1>10. Fit(h) /\ Counted(h)
  BY FitsAre
<1>11. ASSUME h \in Known
       PROVE  /\ table'[h].disk = UsedDisk(h) + DiskIn(b) /\ table'[h].mem = UsedMem(h) + MemIn(b)
              /\ DiskIn(a) <= UsedDisk(h) /\ MemIn(a) <= UsedMem(h)
              /\ UsedDisk(h) \in Nat /\ UsedMem(h) \in Nat
  <2>1. IsEntry(table[h], h) /\ UsedDisk(h) \in Nat /\ UsedMem(h) \in Nat
    BY <1>11, KnownEntry, UsedIs
  <2>2. table'[h] = [table[h] EXCEPT !.disk = UsedDisk(h) + DiskIn(b), !.mem = UsedMem(h) + MemIn(b)]
    BY <1>11 DEF Plan
  <2> HIDE DEF b, a
  <2>3. table'[h].disk = UsedDisk(h) + DiskIn(b) /\ table'[h].mem = UsedMem(h) + MemIn(b)
    BY <2>1, <2>2 DEF IsEntry
  <2>4. /\ DiskIn(a) <= table[h].disk /\ MemIn(a) <= table[h].mem
        /\ table[h].disk \in Nat /\ table[h].mem \in Nat
    BY <1>10, <1>11, KnownEntry DEF Counted, a
  <2>5. DiskIn(Among(vms, On(h))) \in Nat /\ MemIn(Among(vms, On(h))) \in Nat
    BY PromisedCounts, SumsAre
  <2>6. table[h].disk <= UsedDisk(h) /\ table[h].mem <= UsedMem(h)
    BY <2>4, <2>5 DEF UsedDisk, UsedMem, More
  <2> QED BY <1>9, <2>1, <2>3, <2>4, <2>6
<1>12. CASE \A v \in Vms : b[v].host = "none"
  <2>1. DiskIn(b) = 0 /\ MemIn(b) = 0
    <3> HIDE DEF b
    <3> QED BY <1>12, SumsOfNone
  <2> HIDE DEF b
  <2>2. Fit(h)'
    BY <1>8, <1>9, <1>10, <2>1 DEF Fit
  <2>3. Counted(h)'
    <3>1. h \in Known' => h \in Known
      BY DEF Plan, Known, NoHost
    <3> HIDE DEF a
    <3> QED BY <1>8, <1>9, <1>11, <2>1, <3>1 DEF Counted
  <2> QED BY <2>2, <2>3
<1>13. CASE ~ \A v \in Vms : b[v].host = "none"
  <2>1. h \in Known
    BY <1>1, <1>3, <1>5, <1>13
  <2>2. UsedDisk(h) + DiskIn(b) <= DiskOf[h] /\ UsedMem(h) + MemIn(b) <= MemOf[h]
    BY <1>13, <2>1, PlanFits
  <2> HIDE DEF a, b
  <2>3. DiskIn(c) <= UsedDisk(h) + DiskIn(b) /\ MemIn(c) <= UsedMem(h) + MemIn(b)
    BY <1>8, <1>9, <1>11, <2>1
  <2>4. DiskIn(c) <= DiskOf[h] /\ MemIn(c) <= MemOf[h]
    BY <1>8, <1>9, <1>11, <2>1, <2>2, <2>3
  <2> QED BY <1>11, <2>1, <2>3, <2>4 DEF Fit, Counted
<1> QED BY <1>12, <1>13

LEMMA FitsKept ==
  ASSUME FleetType, FleetType', FleetLinks, FleetLinks', FleetFits, [FleetNext]_fleetVars
  PROVE  FleetFits'
<1> SUFFICES ASSUME NEW h \in Hosts PROVE Within(h)' /\ Counted(h)' /\ Shown(h)' /\ Fit(h)'
  BY FitsAre
<1>0. Within(h) /\ Counted(h) /\ Shown(h) /\ Fit(h) /\ NoVm.host = "none" /\ h # "none"
  BY FitsAre, FleetAssumption DEF NoVm
\* A step that changes neither VMs nor requests under way keeps what is promised.
<1>u. ASSUME UNCHANGED <<guest, vms, strays>>
      PROVE  /\ Within(h)' /\ Fit(h)' /\ DiskIn(Promised(h)') <= DiskIn(Promised(h)) /\ MemIn(Promised(h)') <= MemIn(Promised(h))
             /\ h \in Known' /\ h \in Known /\ table'[h].disk >= table[h].disk /\ table'[h].mem >= table[h].mem => Counted(h)'
             /\ UNCHANGED <<At(h), Tracked, DiskIn(Promised(h)), MemIn(Promised(h))>>
  <2>1. \A v \in Vms : Promised(h)'[v] = Promised(h)[v]
    BY <1>u, PromisedIs
  <2>2. Within(h)'
    BY <1>u, WithinKept
  <2>3. UNCHANGED <<At(h), Tracked>>
    BY <1>u DEF At, Tracked
  <2>4. UNCHANGED <<DiskIn(Promised(h)), MemIn(Promised(h))>>
    BY <2>1, PromisedCounts, SameSums
  <2> QED BY <2>1, <2>2, <2>3, <2>4, FitsLess
<1>s. ASSUME UNCHANGED <<guest, vms, strays>>, reads'[h] = reads[h] PROVE Shown(h)'
  BY <1>0, <1>s, <1>u DEF Shown
<1>c. ASSUME UNCHANGED <<guest, vms, strays>>, table'[h] = table[h] PROVE Counted(h)'
  BY <1>0, <1>c, <1>u DEF Counted, Known
<1>o. ASSUME Outdated PROVE Shown(h)'
  <2>1. IsRead(reads[h], h) /\ reads'[h] = IF reads[h].is = "none" THEN NoRead ELSE [reads[h] EXCEPT !.current = FALSE]
    BY <1>o DEF Outdated, FleetType
  <2> QED BY <2>1, StaleRead DEF Shown, NoRead
<1>t. DOMAIN table = Hosts /\ DOMAIN reads = Hosts /\ DOMAIN vms = Vms /\ DOMAIN guest = Vms
  BY DEF FleetType, GuestRows
<1>1. ASSUME NEW g \in Hosts, Register(g) PROVE Within(h)' /\ Counted(h)' /\ Shown(h)' /\ Fit(h)'
  <2> DEFINE disk == DiskIn(Info(g).rows)
             mem == MemIn(Info(g).rows)
  <2>1. UNCHANGED <<guest, vms, strays, reads>>
    BY <1>1 DEF Register
  <2>2. table' = [table EXCEPT ![g] =
          IF g \in Known THEN Entry("online", host[g], More(disk, table[g].disk), More(mem, table[g].mem))
          ELSE Entry("online", host[g], disk, mem)]
    BY <1>1 DEF Register
  <2>3. disk = DiskIn(Among(guest, At(g))) /\ mem = MemIn(Among(guest, At(g)))
    BY DEF Info
  <2> HIDE DEF disk, mem
  <2>4. disk \in Nat /\ mem \in Nat
    BY <2>3, PromisedCounts, SumsAre
  <2>s. Within(h)' /\ Fit(h)' /\ Shown(h)'
    BY <1>s, <1>u, <2>1
  <2>5. CASE h # g
    <3>1. table'[h] = table[h]
      BY <1>t, <2>2, <2>5
    <3> QED BY <1>c, <2>1, <2>s, <3>1
  <2>6. CASE h = g /\ g \in Known
    <3>1. table'[h] = Entry("online", host[g], More(disk, table[g].disk), More(mem, table[g].mem))
      BY <1>t, <2>2, <2>6
    <3>2. table'[h].is = "online" /\ table'[h].disk >= table[h].disk /\ table'[h].mem >= table[h].mem
      <4>1. table[h].disk \in Nat /\ table[h].mem \in Nat
        BY <2>6, KnownEntry
      <4> QED BY <2>4, <2>6, <3>1, <4>1 DEF Entry, More
    <3>3. h \in Known'
      BY <3>2 DEF Known
    <3> QED BY <1>u, <2>1, <2>6, <2>s, <3>2, <3>3
  <2>7. CASE h = g /\ g \notin Known
    <3>1. table'[h].disk = disk /\ table'[h].mem = mem
      BY <1>t, <2>2, <2>7 DEF Entry
    <3>2. \A v \in Vms : Promised(h)[v] = Among(guest, At(h))[v] \/ Promised(h)[v].host = "none"
      <4>1. \A v \in Vms : vms[v].host # h
        BY <1>0, <2>7 DEF FleetLinks, Tracked
      <4> QED BY <1>0, <4>1, PromisedIs
    <3>3. DiskIn(Promised(h)) <= disk /\ MemIn(Promised(h)) <= mem
      BY <2>3, <2>7, <3>2, PromisedCounts, FewerLess
    <3> QED BY <1>u, <2>1, <2>s, <3>1, <3>3 DEF Counted
  <2> QED BY <2>5, <2>6, <2>7
<1>2. ASSUME NEW g \in Hosts, Unregister(g) PROVE Within(h)' /\ Counted(h)' /\ Shown(h)' /\ Fit(h)'
  <2>1. UNCHANGED <<guest, vms, strays, reads>> /\ table' = [table EXCEPT ![g] = NoHost]
    BY <1>2 DEF Unregister
  <2>s. Within(h)' /\ Fit(h)' /\ Shown(h)'
    BY <1>s, <1>u, <2>1
  <2>2. CASE h # g
    <3>1. table'[h] = table[h]
      BY <1>t, <2>1, <2>2
    <3> QED BY <1>c, <2>1, <2>s, <3>1
  <2>3. CASE h = g
    BY <1>t, <2>1, <2>3, <2>s DEF Counted, Known, NoHost
  <2> QED BY <2>2, <2>3
<1>3. ASSUME NEW g \in Hosts, Detach(g) PROVE Within(h)' /\ Counted(h)' /\ Shown(h)' /\ Fit(h)'
  <2>1. /\ UNCHANGED guest /\ Outdated /\ strays' = strays \union (Sent \intersect On(g))
        /\ table' = [table EXCEPT ![g] = NoHost]
        /\ \A v \in Vms : vms'[v] = IF v \in On(g) THEN NoVm ELSE vms[v]
    BY <1>3 DEF Detach
  <2>2. Within(h)' /\ Shown(h)'
    BY <1>o, <2>1, WithinKept
  <2>3. CASE h # g
    <3>1. \A v \in Vms : Promised(h)'[v] = Promised(h)[v] \/ Promised(h)'[v].host = "none"
      <4>1. \A v \in Vms : v \in On(g) => vms[v].host = g
        BY DEF On
      <4>2. \A v \in On(g) : guest[v].host # h
        BY <1>0, <2>3 DEF FleetLinks, On
      <4> QED BY <1>0, <2>1, <2>3, <4>1, <4>2, PromisedIs
    <3>2. table'[h] = table[h]
      BY <1>t, <2>1, <2>3
    <3>3. Counted(h)'
      <4>1. CASE h \in Known
        <5>1. h \in Known' /\ table[h].disk \in Nat /\ table[h].mem \in Nat
          BY <3>2, <4>1, KnownEntry DEF Known
        <5>2. table'[h].disk >= table[h].disk /\ table'[h].mem >= table[h].mem
          BY <3>2, <5>1
        <5> QED BY <3>1, <4>1, <5>1, <5>2, FitsLess
      <4>2. CASE h \notin Known
        BY <3>2, <4>2 DEF Counted, Known
      <4> QED BY <4>1, <4>2
    <3> QED BY <2>2, <3>1, <3>3, FitsLess
  <2>4. CASE h = g
    <3>1. Counted(h)'
      BY <1>t, <2>1, <2>4 DEF Counted, Known, NoHost
    <3>2. \A v \in Vms : Promised(h)'[v] = Among(guest, At(h))'[v] \/ Promised(h)'[v].host = "none"
      <4>1. \A v \in Vms : vms'[v].host # h
        BY <1>0, <2>1, <2>4 DEF On, Tracked
      <4> QED BY <1>0, <4>1, PromisedIs
    <3>3. /\ DiskIn(Promised(h)') <= DiskIn(Among(guest, At(h))') /\ MemIn(Promised(h)') <= MemIn(Among(guest, At(h))')
      BY <3>2, PromisedCounts, FewerLess
    <3>4. Fit(h)'
      <4>1. /\ DiskIn(Promised(h)') \in Nat /\ MemIn(Promised(h)') \in Nat
            /\ DiskIn(Among(guest, At(h))') \in Nat /\ MemIn(Among(guest, At(h))') \in Nat
            /\ DiskOf[h] \in Nat /\ MemOf[h] \in Nat
        BY PromisedCounts, SumsAre, FleetAssumption
      <4> QED BY <2>2, <3>3, <4>1 DEF Within, Fit
    <3> QED BY <2>2, <3>1, <3>4
  <2> QED BY <2>3, <2>4
<1>4. ASSUME NEW g \in Hosts, Observe(g) PROVE Within(h)' /\ Counted(h)' /\ Shown(h)' /\ Fit(h)'
  <2>1. UNCHANGED <<guest, vms, strays, table>>
    BY <1>4 DEF Observe
  <2>2. reads'[h] = reads[h] \/ reads'[h] = Info(h) \/ reads'[h] = [is |-> "down", current |-> TRUE]
    BY <1>4, <1>t DEF Observe
  <2>3. CASE reads'[h] = Info(h)
    <3>1. \A v \in At(h) : reads'[h].rows[v] = guest[v]
      BY <2>3 DEF Info, Among, At
    <3> QED BY <1>c, <1>u, <2>1, <3>1 DEF Shown
  <2>4. CASE reads'[h] = [is |-> "down", current |-> TRUE]
    BY <1>c, <1>u, <2>1, <2>4 DEF Shown
  <2> QED BY <1>c, <1>s, <1>u, <2>1, <2>2, <2>3, <2>4
<1>5. ASSUME NEW g \in Hosts, Apply(g) PROVE Within(h)' /\ Counted(h)' /\ Shown(h)' /\ Fit(h)'
  <2>1. UNCHANGED <<guest, vms, strays>> /\ reads' = [reads EXCEPT ![g] = NoRead]
    BY <1>5 DEF Apply
  <2>2. Shown(h)'
    <3>1. CASE h = g
      BY <1>t, <2>1, <3>1 DEF Shown, NoRead
    <3>2. CASE h # g
      BY <1>s, <1>t, <2>1, <3>2
    <3> QED BY <3>1, <3>2
  <2>3. CASE table' = table \/ h # g
    <3>1. table'[h] = table[h]
      BY <1>5, <1>t, <2>3 DEF Apply
    <3> QED BY <1>c, <1>u, <2>1, <2>2, <3>1
  <2>4. CASE h = g /\ h \in Known /\ table' = [table EXCEPT ![h].is = "offline"]
    <3>1. IsEntry(table[h], h)
      BY <2>4, KnownEntry
    <3>2. table'[h].is = "offline" /\ table'[h].disk = table[h].disk /\ table'[h].mem = table[h].mem
      BY <1>t, <2>4, <3>1 DEF IsEntry
    <3> QED BY <1>0, <1>u, <2>1, <2>2, <2>4, <3>2 DEF Counted
  <2>5. CASE /\ h = g /\ table' = [table EXCEPT ![h] = Observed(h, reads[h])]
             /\ reads[h].is = "up" /\ reads[h].current
    <3>1. table'[h] = Observed(h, reads[h])
      BY <1>t, <2>5
    <3>2. DiskIn(Promised(h)) <= Observed(h, reads[h]).disk /\ MemIn(Promised(h)) <= Observed(h, reads[h]).mem
      BY <2>5, ObservedCounts
    <3> QED BY <1>u, <2>1, <2>2, <3>1, <3>2 DEF Counted
  <2>6. reads[g].is \in {"up", "down"}
    BY <1>5 DEF Apply, FleetType, IsRead, NoRead
  <2> QED BY <1>5, <2>3, <2>4, <2>5, <2>6 DEF Apply
<1>6. ASSUME NEW e \in Envs, Plan(e) PROVE Within(h)' /\ Counted(h)' /\ Shown(h)' /\ Fit(h)'
  <2>1. UNCHANGED guest /\ Outdated
    BY <1>6 DEF Plan
  <2> QED BY <1>6, <1>o, <2>1, PlanCounted, WithinKept
<1>q. ASSUME UNCHANGED <<guest, vms, strays, reads, table>>
      PROVE  Within(h)' /\ Counted(h)' /\ Shown(h)' /\ Fit(h)'
  BY <1>q, <1>u, <1>s, <1>c
<1>7. ASSUME NEW e \in Envs, Send(e) PROVE Within(h)' /\ Counted(h)' /\ Shown(h)' /\ Fit(h)'
  BY <1>7, <1>q DEF Send
<1>8. ASSUME NEW e \in Envs, Timeout(e) PROVE Within(h)' /\ Counted(h)' /\ Shown(h)' /\ Fit(h)'
  BY <1>8, <1>q DEF Timeout
<1>9. ASSUME NEW e \in Envs, Doom(e) PROVE Within(h)' /\ Counted(h)' /\ Shown(h)' /\ Fit(h)'
  BY <1>9, <1>q DEF Doom
\* VMs of which only the promise or nothing is left.
<1>l. ASSUME UNCHANGED <<strays, reads, table>>, Within(h)',
             \A w \in Vms : Promised(h)'[w] = Promised(h)[w] \/ Promised(h)'[w].host = "none",
             \A w \in Vms : guest'[w].host = h /\ w \notin Tracked' \union strays'
                              => guest'[w] = guest[w] /\ w \notin Tracked
      PROVE  Within(h)' /\ Counted(h)' /\ Shown(h)' /\ Fit(h)'
  <2>1. Shown(h)'
    BY <1>0, <1>l DEF Shown, At
  <2>2. Counted(h)'
    <3>1. CASE h \in Known
      <4>1. h \in Known' /\ table[h].disk \in Nat /\ table[h].mem \in Nat
        BY <1>l, <3>1, KnownEntry DEF Known
      <4>2. table'[h].disk >= table[h].disk /\ table'[h].mem >= table[h].mem
        BY <1>l, <4>1
      <4> QED BY <1>l, <3>1, <4>1, <4>2, FitsLess
    <3>2. CASE h \notin Known
      BY <1>l, <3>2 DEF Counted, Known
    <3> QED BY <3>1, <3>2
  <2> QED BY <1>l, <2>1, <2>2, FitsLess
<1>10. ASSUME NEW e \in Envs, NEW v \in Vms, Erase(e, v) PROVE Within(h)' /\ Counted(h)' /\ Shown(h)' /\ Fit(h)'
  <2>1. /\ UNCHANGED <<strays, reads, table>> /\ guest' = [guest EXCEPT ![v] = NoVm]
        /\ vms' = vms \/ vms' = [vms EXCEPT ![v] = NoVm]
    BY <1>10 DEF Erase
  <2>2. /\ guest'[v] = NoVm /\ \A w \in Vms \ {v} : guest'[w] = guest[w] /\ vms'[w] = vms[w]
        /\ vms'[v] = vms[v] \/ vms'[v] = NoVm
    BY <1>t, <2>1
  <2>3. Within(h)'
    BY <2>2, WithinKept
  <2>4. \A w \in Vms : Promised(h)'[w] = Promised(h)[w] \/ Promised(h)'[w].host = "none"
    <3> SUFFICES ASSUME NEW w \in Vms PROVE Promised(h)'[w] = Promised(h)[w] \/ Promised(h)'[w].host = "none"
      OBVIOUS
    <3>1. CASE w = v
      BY <1>0, <2>2, <3>1, PromisedIs
    <3>2. CASE w # v
      BY <2>1, <2>2, <3>2, PromisedIs
    <3> QED BY <3>1, <3>2
  <2>5. \A w \in Vms : guest'[w].host = h /\ w \notin Tracked' \union strays'
                         => guest'[w] = guest[w] /\ w \notin Tracked
    BY <1>0, <2>2 DEF Tracked
  <2> QED BY <1>l, <2>1, <2>3, <2>4, <2>5
<1>11. ASSUME NEW v \in Vms, Arrive(v) PROVE Within(h)' /\ Counted(h)' /\ Shown(h)' /\ Fit(h)'
  <2>1. UNCHANGED <<strays, reads, table, vms>> /\ v \in Sent /\ \A w \in Vms \ {v} : guest'[w] = guest[w]
    BY <1>11, <1>t DEF Arrive
  <2>2. v \in strays \/ (vms[v].host = sent[v].host /\ v \in Tracked)
    BY <2>1, TrackedHost DEF FleetLinks, Tracked, Sent
  <2>3. guest'[v].host \in {"none", sent[v].host} /\ guest[v].host = "none"
    BY <1>11, <1>t DEF Arrive, FleetLinks
  <2>4. Within(h)'
    BY <1>11, ArriveFits
  <2>5. \A w \in Vms : Promised(h)'[w] = Promised(h)[w] \/ Promised(h)'[w].host = "none"
    <3> SUFFICES ASSUME NEW w \in Vms PROVE Promised(h)'[w] = Promised(h)[w] \/ Promised(h)'[w].host = "none"
      OBVIOUS
    <3>1. CASE w = v
      BY <1>0, <2>1, <2>2, <2>3, <3>1, PromisedIs
    <3>2. CASE w # v
      BY <2>1, <3>2, PromisedIs
    <3> QED BY <3>1, <3>2
  <2>6. Tracked' = Tracked
    BY <2>1 DEF Tracked
  <2>7. \A w \in Vms : guest'[w].host = h /\ w \notin Tracked' \union strays'
                         => guest'[w] = guest[w] /\ w \notin Tracked
    BY <2>1, <2>2, <2>6
  <2> QED BY <1>l, <2>1, <2>4, <2>5, <2>7
<1>12. ASSUME NEW g \in Hosts, Restart(g) PROVE Within(h)' /\ Counted(h)' /\ Shown(h)' /\ Fit(h)'
  BY <1>12, <1>q DEF Restart
<1>13. ASSUME CtlCrash PROVE Within(h)' /\ Counted(h)' /\ Shown(h)' /\ Fit(h)'
  <2>1. UNCHANGED <<guest, vms, strays, table>> /\ reads'[h] = NoRead
    BY <1>13 DEF CtlCrash
  <2> QED BY <1>u, <1>c, <2>1 DEF Shown, NoRead
<1>14. CASE UNCHANGED fleetVars
  BY <1>14, <1>q DEF fleetVars
<1> QED BY <1>1, <1>2, <1>3, <1>4, <1>5, <1>6, <1>7, <1>8, <1>9, <1>10, <1>11, <1>12, <1>13, <1>14 DEF FleetNext

-----------------------------------------------------------------------------
(* The theorems *)

THEOREM FleetSound == FleetSpec => []FleetInv
<1>1. FleetInit => FleetInv
  BY TypeStart, LinksStart, FitsStart DEF FleetInv
<1>2. FleetInv /\ [FleetNext]_fleetVars => FleetInv'
  BY TypeKept, LinksKept, FitsKept DEF FleetInv
<1> QED BY <1>1, <1>2, PTL DEF FleetSpec

\* What is promised of a host fits it, whatever the order of plans, observations, registrations,
\* detachments, requests and faults (PlansFit).
THEOREM FleetPlansFit == FleetSpec => []PlansFit
<1>1. FleetInv => PlansFit
  BY DEF FleetInv, FleetFits
<1> QED BY <1>1, FleetSound, PTL

\* An agent that still finds what the controller judged it by admits the plan, and reserves what the
\* controller reserved, for all requests, engines, images and sizes (AdmissionAgrees).
THEOREM FleetAdmissionAgrees == FleetSpec => []AdmissionAgrees
<1>1. FleetInv => AdmissionAgrees
  <2> SUFFICES ASSUME FleetInv, NEW v \in Tracked,
                      guest[v].host = "none", host[vms[v].host] = vms[v].view, vms[v].view.report = "known",
                      \/ vms[v].spec.engine \in {"docker", "jail"}
                      \/ vms[v].view.images[vms[v].spec.image] # 0
               PROVE  Admits(vms[v].host, vms[v].spec) /\ Reserved(Request(vms[v].spec)) = {vms[v].disk}
    BY Zenon DEF AdmissionAgrees
  <2>1. IsPlanned(vms[v])
    BY DEF FleetInv, FleetType, Tracked, NoVm
  <2>2. /\ vms[v].spec \in Specs /\ IsFact(vms[v].view) /\ Facing(vms[v].spec, vms[v].view)
        /\ vms[v].disk \in Reservation(vms[v].spec, vms[v].view)
    BY <2>1, PlanCounts DEF IsPlanned
  <2>3. /\ \A feature \in Needs(Request(vms[v].spec)) : Enabled(vms[v].view, feature, vms[v].spec.engine)
        /\ vms[v].spec.engine # "docker" => vms[v].spec.image \in DOMAIN vms[v].view.images
        /\ Reserved(Request(vms[v].spec)) = {vms[v].disk}
    BY <2>2, Agreement
  <2> QED BY <2>3, Zenon DEF Admits
<1> QED BY <1>1, FleetSound, PTL
=============================================================================
