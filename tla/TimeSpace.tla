------------------------------ MODULE TimeSpace ------------------------------
(***************************************************************************)
(* ATimeSpace keeps one UTC instant and one site, and answers some twenty  *)
(* astronomical quantities of them.  Each is computed once and kept in     *)
(* values_[] until the next SetUTC clears valid_[].                        *)
(*                                                                         *)
(* Numbers are abstracted to their provenance: the value of a quantity is  *)
(* the set of pairs <<formula, input>> that were evaluated to obtain it.   *)
(* Two values are equal when the same formulas were applied to the same    *)
(* inputs, so a value computed from a stale intermediate shows.            *)
(***************************************************************************)
EXTENDS FiniteSets

CONSTANTS Time,     \* instants that SetUTC accepts
          BadTime,  \* arguments that SetUTC rejects
          Site,     \* places SetSite is called with
          Unset,    \* the instant before the first SetUTC: memory as it was
          Direct,   \* quantities made of the MJD alone: the Julian date, TAI
          Plain,    \* polynomials of the century nothing else is made of: the
                    \* eccentricity and the perihelion of the Earth
          Arguments \* the angles only nutation is made of: the anomaly of the
                    \* Moon, its longitude, its elongation and its node

VARIABLES mjd,      \* values_[ATS_MJD], and with it values_[ATS_DAT]
          site,     \* lgt_, lat_, alt_, tz_
          places,   \* history: the places in force since the instant was set
          cache,    \* valid_[] and values_[]: which quantities, and their values
          aab       \* AnnualAberration: the instant t it keeps, and that of its sums

tsVars == <<mjd, site, places, cache, aab>>

Century == {"GMST", "MO", "MASUN", "MLSUN"} \cup Plain \cup Arguments
Derived == {"JC", "GST", "LMST", "LST", "NL", "NO", "CENTER", "TLSUN", "TASUN", "POSSUN"}
Quantity == Century \cup Direct \cup Derived

ASSUME NamesAssumption == /\ (Direct \cup Plain \cup Arguments) \cap Derived = {}
                          /\ Direct \cap Century = {}

(* ------------------------- the static formulas ------------------------- *)
\* The overloads that take the Julian century or the date and keep nothing.

Of(f, t) == {<<f, t>>}
MoonArguments == Arguments \cup {"MASUN"}
NutationAt(t) == {<<f, t>> : f \in MoonArguments \cup {"nutation"}}
ObliquityAt(t) == Of("MO", t) \cup NutationAt(t)
CenterAt(t) == Of("center", t) \cup Of("MASUN", t)
TrueLongAt(t) == Of("MLSUN", t) \cup CenterAt(t)
SunAt(t) == Of("sun", t) \cup TrueLongAt(t) \cup Of("MO", t)
SiderealAt(t) == Of("GMST", t) \cup NutationAt(t) \cup ObliquityAt(t)
LocalMeanAt(t, s) == Of("GMST", t) \cup Of("longitude", s)
LocalAt(t, s) == LocalMeanAt(t, s) \cup SiderealAt(t)

\* What each cached quantity must be worth, by the formulas that keep nothing.
Reference(q, t, s) ==
    CASE q \in Century \cup Direct \cup {"JC"} -> Of(q, t)
      [] q = "GST"  -> SiderealAt(t)
      [] q = "LMST" -> LocalMeanAt(t, s)
      [] q = "LST"  -> LocalAt(t, s)
      [] q \in {"NL", "NO"} -> NutationAt(t)
      [] q = "CENTER" -> CenterAt(t)
      [] q = "TLSUN"  -> TrueLongAt(t)
      [] q = "TASUN"  -> Of("MASUN", t) \cup CenterAt(t)
      [] q = "POSSUN" -> SunAt(t)

(* -------------------------- the cached getters ------------------------- *)
\* Each getter maps a cache to the cache it leaves behind.

Keep(c, q, v) == [valid |-> c.valid \cup {q}, value |-> [c.value EXCEPT ![q] = v]]

\* if (!valid_[q]) { ...dependencies, then the value...; valid_[q] = true; }
\* d is the cache once the dependencies were asked for, v the value made of d.
Memo(c, q, d, v) == IF q \in c.valid THEN c ELSE Keep(d, q, v)

\* A formula f applied to the century that the cache holds.
Apply(f, c) == {<<f, x[2]>> : x \in c.value["JC"]}

JulianCentury(c) == Memo(c, "JC", c, Of("JC", mjd))
FromMJD(c, q) == Memo(c, q, c, Of(q, mjd))

\* The getters of a set S of polynomials of the century, one after the other.
OfCentury(c, S) ==
    LET d == JulianCentury(c)
    IN  IF S \subseteq c.valid THEN c
        ELSE [valid |-> d.valid \cup S,
              value |-> [q \in Quantity |-> IF q \in S \ d.valid THEN Apply(q, d)
                                           ELSE d.value[q]]]

GreenwichMeanSiderealTime(c) == OfCentury(c, {"GMST"})
MeanObliquity(c) == OfCentury(c, {"MO"})

\* The five arguments are read through their own caches, then summed.
Nutation(c) == OfCentury(JulianCentury(c), MoonArguments)
NutationValue(d) ==
    Apply("nutation", d) \cup UNION {d.value[a] : a \in MoonArguments}

\* Both angles come out of one summation and both are kept.
NutationLongitude(c) ==
    LET d == Nutation(c)
        v == NutationValue(d)
    IN  Memo(c, "NL", Keep(d, "NO", v), v)
\* Mutant: only the angle that was asked for is kept.
NutationObliquity_Alone(c) ==
    LET d == Nutation(c) IN Memo(c, "NO", d, NutationValue(d))
NutationObliquity(c) ==
    LET d == Nutation(c)
        v == NutationValue(d)
    IN  Memo(c, "NO", Keep(d, "NL", v), v)
TrueObliquity(c) == NutationObliquity(MeanObliquity(c))

\* gmst0 + nl * cos(to): to is the mean obliquity plus its nutation.
Equinoxes(d) == d.value["NL"] \cup d.value["MO"] \cup d.value["NO"]

GreenwichSiderealTime(c) ==
    LET d == TrueObliquity(NutationLongitude(GreenwichMeanSiderealTime(c)))
    IN  Memo(c, "GST", d, d.value["GMST"] \cup Equinoxes(d))

LocalMeanSiderealTime(c) ==
    LET d == GreenwichMeanSiderealTime(c)
    IN  Memo(c, "LMST", d, d.value["GMST"] \cup Of("longitude", site))

LocalSiderealTime(c) ==
    LET d == TrueObliquity(NutationLongitude(LocalMeanSiderealTime(c)))
    IN  Memo(c, "LST", d, d.value["LMST"] \cup Equinoxes(d))

CenterSun(c) ==
    LET d == OfCentury(JulianCentury(c), {"MASUN"})
    IN  Memo(c, "CENTER", d, Apply("center", d) \cup d.value["MASUN"])

TrueLongSun(c) ==
    LET d == CenterSun(OfCentury(c, {"MLSUN"}))
    IN  Memo(c, "TLSUN", d, d.value["MLSUN"] \cup d.value["CENTER"])

TrueAnomalySun(c) ==
    LET d == CenterSun(OfCentury(c, {"MASUN"}))
    IN  Memo(c, "TASUN", d, d.value["MASUN"] \cup d.value["CENTER"])

SunPosition(c) ==
    LET d == MeanObliquity(TrueLongSun(JulianCentury(c)))
    IN  Memo(c, "POSSUN", d, Apply("sun", d) \cup d.value["TLSUN"] \cup d.value["MO"])

\* EqTransfer and EqReTransfer read these eight quantities in this order.
Transfer(c) ==
    LET d == NutationObliquity(NutationLongitude(MeanObliquity(JulianCentury(c))))
    IN  OfCentury(CenterSun(OfCentury(d, {"MLSUN"})), Plain)

Getters(c) ==
    {JulianCentury(c), NutationLongitude(c), NutationObliquity(c), TrueObliquity(c),
     GreenwichMeanSiderealTime(c), GreenwichSiderealTime(c),
     LocalMeanSiderealTime(c), LocalSiderealTime(c), MeanObliquity(c), CenterSun(c),
     TrueLongSun(c), TrueAnomalySun(c), SunPosition(c), Transfer(c)}
    \cup {FromMJD(c, q) : q \in Direct} \cup {OfCentury(c, {q}) : q \in Century}

(* ------------------------------- actions -------------------------------- *)

NothingKept == [valid |-> {}, value |-> [q \in Quantity |-> {}]]

TSInit ==
    /\ mjd = Unset
    /\ site \in Site /\ places = {site}
    /\ cache = NothingKept
    /\ aab \in [t : Time \cup {Unset}, sums : {Unset}]

\* Mutant: the instant changes under the values that were kept.
SetUTC_KeepCache(t) == t \in Time /\ mjd' = t /\ places' = {site} /\ UNCHANGED <<site, cache, aab>>

\* Everything cached is dropped: a value behind a cleared valid_ is worth nothing.
SetUTC(t) ==
    /\ t \in Time
    /\ mjd' = t /\ places' = {site}
    /\ cache' = NothingKept
    /\ UNCHANGED <<site, aab>>

\* SetUTC returns -1..-4, and SetEpoch, SetJD and SetMJD ignore that: the
\* object goes on with the instant it had.
SetRejected(t) == t \in BadTime /\ UNCHANGED tsVars

\* MatchCatalog calls SetSite once, in its constructor, and PhotoMetry never; any
\* caller may, at any time.  Nothing that is kept is dropped.
SetSite(s) ==
    /\ site' = s /\ places' = places \cup {s}
    /\ UNCHANGED <<mjd, cache, aab>>

Ask ==
    /\ cache' \in Getters(cache)
    /\ UNCHANGED <<mjd, site, places, aab>>

\* set_mjd: the series is summed again unless the instant is the one kept (or
\* within 1E-6 century of it).  The structure has no constructor: t and the sums
\* start as what the memory held, and a t that happens to be right is believed.
GetAnnualAberration(t) ==
    /\ aab' = IF aab.t = t THEN aab ELSE [t |-> t, sums |-> t]
    /\ UNCHANGED <<mjd, site, places, cache>>

TSNext ==
    \/ \E t \in Time : SetUTC(t) \/ GetAnnualAberration(t)
    \/ \E t \in BadTime : SetRejected(t)
    \/ \E s \in Site : SetSite(s)
    \/ Ask

TSSpec == TSInit /\ [][TSNext]_tsVars

(* ------------------------------ properties ------------------------------ *)

\* Whatever was asked before, in whatever order, a quantity that counts as valid
\* is what the formulas without a cache give for the present instant.  It is the
\* promise of valid_[] (ATimeSpace.h: values are kept to avoid computing them
\* twice), and it rests on every getter asking for its dependencies through
\* getters and on SetUTC clearing all of them.  SetSite clears nothing: the local
\* sidereal times stay those of a place left since, but both of the same place,
\* and of the present one unless SetSite came after SetUTC.  The sums of the
\* aberration are likewise those of the instant they are kept under.
CachedIsCurrent ==
    /\ \E s \in places : \A q \in cache.valid : cache.value[q] = Reference(q, mjd, s)
    /\ aab.sums \in {Unset, aab.t}

\* A quantity never counts as valid without those it was made from, so that a
\* transformation that reads several of them reads them all of one instant.
CacheIsClosed ==
    /\ \A q \in Century : q \in cache.valid => "JC" \in cache.valid
    /\ ("NL" \in cache.valid) <=> ("NO" \in cache.valid)
    /\ "NL" \in cache.valid => MoonArguments \subseteq cache.valid
    /\ "LST" \in cache.valid => "LMST" \in cache.valid
    /\ {"GST", "LST"} \cap cache.valid # {} => {"GMST", "MO", "NL"} \subseteq cache.valid
    /\ "POSSUN" \in cache.valid => {"TLSUN", "MO"} \subseteq cache.valid
=============================================================================
