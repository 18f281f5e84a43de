----------------------------- MODULE AstroProofs -----------------------------
(***************************************************************************)
(* Proofs about the classes of airs that keep no thread.                   *)
(*                                                                         *)
(* TimeSpace, for any instants, places and names of the quantities: a      *)
(* quantity that counts as valid is that of the present instant, and all   *)
(* of them are of one place that was in force since the instant was set;   *)
(* everything they were made from counts as valid too.  Each getter maps a *)
(* good cache to a good cache that keeps what it kept and has the quantity *)
(* that was asked for.                                                     *)
(*                                                                         *)
(* Calendar, for a walk of any length: every day converts to its number    *)
(* and back, and the leap seconds come one at a time.  Years are counted   *)
(* from March, so that a leap day is the last of its year.                 *)
(* Every text of an angle reads back as an angle of the same minute, to    *)
(* the last digit that was written: reading goes on where it ended, so a   *)
(* text may be taken part by part, and the total of the parts is the angle *)
(* as it was rounded.                                                      *)
(*                                                                         *)
(* The TNX model of a plate as it is loaded and written (TnxModel), for    *)
(* any texts and headers: a model that has a matrix or residuals has them  *)
(* with the reference pixel of the same source, except for a coordinate    *)
(* the text has no line for, and a header that was torn.  And as it is     *)
(* fitted frame after frame (TnxFit), for any number of frames, stars and  *)
(* coefficients: while a frame is fitted, and once it is accepted, the     *)
(* matrix, the coefficients and the error were computed from the samples   *)
(* that are left.                                                          *)
(***************************************************************************)
EXTENDS TimeSpace, Calendar, TnxModel, TnxFit, FiniteSetsExt, SequenceTheorems,
        WellFoundedInduction, TLAPS

(* ------------------------------ TimeSpace ------------------------------- *)

Shape(c) == /\ c = [valid |-> c.valid, value |-> c.value]
            /\ c.valid \subseteq Quantity
            /\ c.value = [q \in Quantity |-> c.value[q]]

Right(c, w) == \A q \in c.valid : c.value[q] = Reference(q, mjd, w)

Closed(V) == /\ \A q \in Century : q \in V => "JC" \in V
             /\ ("NL" \in V) <=> ("NO" \in V)
             /\ "NL" \in V => MoonArguments \subseteq V
             /\ "LMST" \in V => "GMST" \in V
             /\ "LST" \in V => "LMST" \in V
             /\ {"GST", "LST"} \cap V # {} => {"GMST", "MO", "NL"} \subseteq V
             /\ "POSSUN" \in V => {"TLSUN", "MO"} \subseteq V

Good(c, w) == Shape(c) /\ Right(c, w) /\ Closed(c.valid)

\* A getter leaves a good cache d, which has kept what was in c and has S.
Serves(c, d, S, w) == Good(d, w) /\ c.valid \subseteq d.valid /\ S \subseteq d.valid

AabInv == aab.sums \in {Unset, aab.t}

\* The place w that the sidereal times were computed for.
TSInv == /\ site \in places /\ AabInv
         /\ \E w \in places : Good(cache, w) /\ (w = site \/ "LMST" \in cache.valid)

-----------------------------------------------------------------------------
\* The names of the quantities.
LEMMA Names ==
  /\ {"GMST", "MO", "MASUN", "MLSUN"} \subseteq Century /\ Plain \subseteq Century
  /\ Arguments \subseteq Century /\ MoonArguments \subseteq Century
  /\ Century \subseteq Quantity /\ Direct \subseteq Quantity /\ Derived \subseteq Quantity
  /\ {"JC", "GST", "LMST", "LST", "NL", "NO", "CENTER", "TLSUN", "TASUN", "POSSUN"} \subseteq Quantity
  /\ \A q \in Century \cup Direct : q \notin Derived
  /\ Direct \cap Century = {}
<1>1. \A q \in {"GMST", "MO", "MASUN", "MLSUN"} : q \notin Derived
  BY DEF Derived
<1>2. \A q \in Century \cup Direct : q \notin Derived
  BY <1>1, NamesAssumption DEF Century
<1> QED
  BY <1>2, NamesAssumption DEF Century, Quantity, MoonArguments, Derived

\* The reference value of each quantity.
LEMMA References ==
  ASSUME NEW t, NEW s
  PROVE  /\ \A q \in Century \cup Direct \cup {"JC"} : Reference(q, t, s) = Of(q, t)
         /\ Reference("GST", t, s) = SiderealAt(t)
         /\ Reference("LMST", t, s) = LocalMeanAt(t, s)
         /\ Reference("LST", t, s) = LocalAt(t, s)
         /\ Reference("NL", t, s) = NutationAt(t)
         /\ Reference("NO", t, s) = NutationAt(t)
         /\ Reference("CENTER", t, s) = CenterAt(t)
         /\ Reference("TLSUN", t, s) = TrueLongAt(t)
         /\ Reference("TASUN", t, s) = Of("MASUN", t) \cup CenterAt(t)
         /\ Reference("POSSUN", t, s) = SunAt(t)
<1>1. ASSUME NEW q \in Century \cup Direct \cup {"JC"} PROVE Reference(q, t, s) = Of(q, t)
  <2>1. q \notin Derived \ {"JC"}
    BY Names DEF Derived
  <2> QED
    BY <2>1 DEF Reference, Derived
<1>2. \A q \in Derived \ {"JC"} : q \notin Century \cup Direct \cup {"JC"}
  BY NamesAssumption DEF Century, Derived
<1>3. {"GST", "LMST", "LST", "NL", "NO", "CENTER", "TLSUN", "TASUN", "POSSUN"} = Derived \ {"JC"}
  BY DEF Derived
<1>4. Reference("GST", t, s) = SiderealAt(t) /\ Reference("LMST", t, s) = LocalMeanAt(t, s)
  BY <1>2, <1>3 DEF Reference
<1>5. Reference("LST", t, s) = LocalAt(t, s)
  BY <1>2, <1>3 DEF Reference
<1>6. Reference("NL", t, s) = NutationAt(t) /\ Reference("NO", t, s) = NutationAt(t)
  BY <1>2, <1>3 DEF Reference
<1>7. Reference("CENTER", t, s) = CenterAt(t) /\ Reference("TLSUN", t, s) = TrueLongAt(t)
  BY <1>2, <1>3 DEF Reference
<1>8. Reference("TASUN", t, s) = Of("MASUN", t) \cup CenterAt(t)
  BY <1>2, <1>3 DEF Reference
<1>9. Reference("POSSUN", t, s) = SunAt(t)
  BY <1>2, <1>3 DEF Reference
<1> QED
  BY <1>1, <1>4, <1>5, <1>6, <1>7, <1>8, <1>9

-----------------------------------------------------------------------------
\* Keeping one value.
LEMMA KeepOne ==
  ASSUME NEW w, NEW c, Shape(c), Right(c, w), NEW q \in Quantity, NEW v, v = Reference(q, mjd, w)
  PROVE  Shape(Keep(c, q, v)) /\ Right(Keep(c, q, v), w) /\ Keep(c, q, v).valid = c.valid \cup {q}
<1>1. PICK d : d = Keep(c, q, v)
  OBVIOUS
<1>2. d.valid = c.valid \cup {q} /\ d.value = [c.value EXCEPT ![q] = v]
      /\ d = [valid |-> d.valid, value |-> d.value]
  BY <1>1 DEF Keep
<1>3. /\ d.value = [p \in Quantity |-> d.value[p]] /\ d.value[q] = v
      /\ \A p \in Quantity : p # q => d.value[p] = c.value[p]
  BY <1>2 DEF Shape
<1>4. Shape(d)
  BY <1>2, <1>3 DEF Shape
<1>5. Right(d, w)
  BY <1>2, <1>3 DEF Shape, Right
<1> QED
  BY <1>1, <1>2, <1>4, <1>5

\* A value that is kept in a cache which has all that closes over it.
LEMMA MemoServes ==
  ASSUME NEW w, NEW c, NEW d, Good(c, w), Good(d, w), c.valid \subseteq d.valid, NEW q \in Quantity, NEW v,
         v = Reference(q, mjd, w), Closed(d.valid \cup {q})
  PROVE  Serves(c, Memo(c, q, d, v), {q}, w)
<1>1. CASE q \in c.valid
  BY <1>1 DEF Memo, Serves
<1>2. CASE q \notin c.valid
  <2>1. Shape(Keep(d, q, v)) /\ Right(Keep(d, q, v), w) /\ Keep(d, q, v).valid = d.valid \cup {q}
    BY KeepOne DEF Good
  <2>2. Memo(c, q, d, v) = Keep(d, q, v)
    BY <1>2 DEF Memo
  <2>3. Good(Keep(d, q, v), w)
    BY <2>1 DEF Good
  <2> QED
    BY <2>1, <2>2, <2>3 DEF Serves
<1> QED
  BY <1>1, <1>2

LEMMA CenturyServes ==
  ASSUME NEW w, NEW c, Good(c, w)
  PROVE  /\ Serves(c, JulianCentury(c), {"JC"}, w)
         /\ JulianCentury(c).value["JC"] = Of("JC", mjd)
<1>1. Of("JC", mjd) = Reference("JC", mjd, w)
  BY References
<1>2. "JC" \in Quantity /\ \A q \in Century : q \notin Derived
  BY Names
<1>3. Closed(c.valid \cup {"JC"})
  <2>1. "JC" # "NL" /\ "JC" # "NO" /\ "JC" # "GST" /\ "JC" # "LST" /\ "JC" # "POSSUN"
    OBVIOUS
  <2> QED
    BY <2>1 DEF Good, Closed
<1>4. Serves(c, JulianCentury(c), {"JC"}, w)
  BY <1>1, <1>2, <1>3, MemoServes DEF JulianCentury
<1>5. JulianCentury(c).value["JC"] = Reference("JC", mjd, w)
  BY <1>4 DEF Serves, Good, Right
<1> QED
  BY <1>1, <1>4, <1>5

\* A formula applied to the century is that of the present instant.
LEMMA Applied ==
  ASSUME NEW f, NEW d, d.value["JC"] = Of("JC", mjd)
  PROVE  Apply(f, d) = Of(f, mjd)
<1>1. Apply(f, d) = {<<f, x[2]>> : x \in {<<"JC", mjd>>}}
  BY DEF Apply, Of
<1> QED
  BY <1>1 DEF Of

LEMMA CenturyKept ==
  ASSUME NEW w, NEW d, Good(d, w), "JC" \in d.valid
  PROVE  d.value["JC"] = Of("JC", mjd)
BY References DEF Good, Right

\* The polynomials of the century.
LEMMA PolynomialsServe ==
  ASSUME NEW w, NEW c, Good(c, w), NEW S \in SUBSET Century
  PROVE  Serves(c, OfCentury(c, S), S, w)
<1>1. CASE S \subseteq c.valid
  BY <1>1 DEF OfCentury, Serves
<1>2. CASE ~ (S \subseteq c.valid)
  <2>1. PICK d : d = JulianCentury(c)
    OBVIOUS
  <2>2. Good(d, w) /\ c.valid \subseteq d.valid /\ "JC" \in d.valid /\ d.value["JC"] = Of("JC", mjd)
    BY <2>1, CenturyServes DEF Serves
  <2>3. PICK e : e = [valid |-> d.valid \cup S,
                      value |-> [q \in Quantity |-> IF q \in S \ d.valid THEN Apply(q, d) ELSE d.value[q]]]
    OBVIOUS
  <2>4. OfCentury(c, S) = e
    BY <1>2, <2>1, <2>3 DEF OfCentury
  <2>5. /\ e.valid = d.valid \cup S
        /\ e.value = [q \in Quantity |-> IF q \in S \ d.valid THEN Apply(q, d) ELSE d.value[q]]
        /\ e = [valid |-> e.valid, value |-> e.value]
    BY <2>3
  <2>6. Shape(e)
    <3>1. e.valid \subseteq Quantity
      BY <2>2, <2>5, Names DEF Good, Shape
    <3>2. e.value = [q \in Quantity |-> e.value[q]]
      BY <2>5
    <3> QED
      BY <2>5, <3>1, <3>2 DEF Shape
  <2>7. Right(e, w)
    <3>1. SUFFICES ASSUME NEW q \in e.valid PROVE e.value[q] = Reference(q, mjd, w)
      BY DEF Right
    <3>2. q \in Quantity
      BY <2>6 DEF Shape
    <3>3. CASE q \in S \ d.valid
      <4>1. e.value[q] = Apply(q, d)
        BY <2>5, <3>2, <3>3
      <4>2. Reference(q, mjd, w) = Of(q, mjd)
        BY <3>3, References
      <4> QED
        BY <2>2, <4>1, <4>2, Applied
    <3>4. CASE q \notin S \ d.valid
      <4>1. e.value[q] = d.value[q] /\ q \in d.valid
        BY <2>5, <3>2, <3>4
      <4> QED
        BY <2>2, <4>1 DEF Good, Right
    <3> QED
      BY <3>3, <3>4
  <2>8. Closed(e.valid)
    <3>1. \A q \in Derived : q \in e.valid <=> q \in d.valid
      BY <2>5, Names
    <3>2. {"NL", "NO", "GST", "LST", "LMST", "POSSUN", "TLSUN"} \subseteq Derived
      BY DEF Derived
    <3>3. Closed(d.valid) /\ d.valid \subseteq e.valid /\ "JC" \in e.valid
      BY <2>2, <2>5 DEF Good
    <3> QED
      BY <3>1, <3>2, <3>3 DEF Closed
  <2> QED
    BY <2>2, <2>4, <2>5, <2>6, <2>7, <2>8 DEF Serves, Good
<1> QED
  BY <1>1, <1>2

-----------------------------------------------------------------------------
\* One getter after another.
LEMMA Chain ==
  ASSUME NEW w, NEW c, NEW d, NEW e, NEW S, NEW T, Serves(c, d, S, w), Serves(d, e, T, w)
  PROVE  Serves(c, e, S \cup T, w) /\ Good(d, w) /\ Good(e, w) /\ c.valid \subseteq e.valid
BY DEF Serves

\* What counts as valid is worth what the formulas give.
LEMMA Worth ==
  ASSUME NEW w, NEW d, Good(d, w), NEW q \in d.valid
  PROVE  d.value[q] = Reference(q, mjd, w)
BY DEF Good, Right

LEMMA MeanObliquityServes ==
  ASSUME NEW w, NEW c, Good(c, w)
  PROVE  Serves(c, MeanObliquity(c), {"MO"}, w)
BY PolynomialsServe, Names DEF MeanObliquity

LEMMA GreenwichMeanServes ==
  ASSUME NEW w, NEW c, Good(c, w)
  PROVE  Serves(c, GreenwichMeanSiderealTime(c), {"GMST"}, w)
BY PolynomialsServe, Names DEF GreenwichMeanSiderealTime

\* The sum of the arguments, read through their own caches.
LEMMA NutationServes ==
  ASSUME NEW w, NEW c, Good(c, w)
  PROVE  /\ Serves(c, Nutation(c), MoonArguments \cup {"JC"}, w)
         /\ NutationValue(Nutation(c)) = NutationAt(mjd)
<1>1. PICK b, d : b = JulianCentury(c) /\ d = Nutation(c)
  OBVIOUS
<1>2. Serves(c, b, {"JC"}, w)
  BY <1>1, CenturyServes
<1>3. Serves(b, d, MoonArguments, w)
  <2>1. Good(b, w) /\ MoonArguments \in SUBSET Century /\ d = OfCentury(b, MoonArguments)
    BY <1>1, <1>2, Names DEF Serves, Nutation
  <2> QED
    BY <2>1, PolynomialsServe
<1>4. Serves(c, d, MoonArguments \cup {"JC"}, w) /\ Good(d, w)
  BY <1>2, <1>3, Chain DEF Serves
<1>5. Apply("nutation", d) = Of("nutation", mjd)
  BY <1>4, CenturyKept, Applied DEF Serves
<1>6. \A a \in MoonArguments : d.value[a] = {<<a, mjd>>}
  <2> TAKE a \in MoonArguments
  <2>1. a \in d.valid /\ a \in Century
    BY <1>4, Names DEF Serves
  <2>2. Reference(a, mjd, w) = Of(a, mjd)
    BY <2>1, References
  <2> QED
    BY <1>4, <2>1, <2>2, Worth DEF Of
<1>7. NutationValue(d) = NutationAt(mjd)
  BY <1>5, <1>6 DEF NutationValue, NutationAt, Of
<1> QED
  BY <1>1, <1>4, <1>7

\* Both angles are kept at once.
LEMMA AnglesServe ==
  ASSUME NEW w, NEW c, Good(c, w), NEW p \in {"NL", "NO"}, NEW q \in {"NL", "NO"}, p # q
  PROVE  Serves(c, Memo(c, p, Keep(Nutation(c), q, NutationValue(Nutation(c))),
                              NutationValue(Nutation(c))), {"NL", "NO"}, w)
<1>1. CASE p \in c.valid
  <2>1. {"NL", "NO"} \subseteq c.valid
    BY <1>1 DEF Good, Closed
  <2> QED
    BY <1>1, <2>1 DEF Memo, Serves
<1>2. CASE p \notin c.valid
  <2>1. PICK d, v : d = Nutation(c) /\ v = NutationAt(mjd) /\ v = NutationValue(d)
    BY NutationServes
  <2>2. Good(d, w) /\ c.valid \subseteq d.valid /\ MoonArguments \cup {"JC"} \subseteq d.valid
    BY <2>1, NutationServes DEF Serves
  <2>3. Reference(p, mjd, w) = v /\ Reference(q, mjd, w) = v /\ p \in Quantity /\ q \in Quantity
    BY <2>1, References, Names
  <2>4. PICK e : e = Keep(d, q, v)
    OBVIOUS
  <2>5. Shape(e) /\ Right(e, w) /\ e.valid = d.valid \cup {q}
    BY <2>2, <2>3, <2>4, KeepOne DEF Good
  <2>6. PICK f : f = Keep(e, p, v)
    OBVIOUS
  <2>7. Shape(f) /\ Right(f, w) /\ f.valid = d.valid \cup {"NL", "NO"}
    <3>1. Shape(f) /\ Right(f, w) /\ f.valid = e.valid \cup {p}
      BY <2>3, <2>5, <2>6, KeepOne
    <3>2. {p, q} = {"NL", "NO"}
      OBVIOUS
    <3> QED
      BY <2>5, <3>1, <3>2
  <2>8. Closed(f.valid)
    BY <2>2, <2>7 DEF Good, Closed
  <2>9. Memo(c, p, Keep(d, q, v), v) = f
    BY <1>2, <2>4, <2>6 DEF Memo
  <2> QED
    BY <2>1, <2>2, <2>7, <2>8, <2>9 DEF Serves, Good
<1> QED
  BY <1>1, <1>2

LEMMA LongitudeServes ==
  ASSUME NEW w, NEW c, Good(c, w)
  PROVE  Serves(c, NutationLongitude(c), {"NL", "NO"}, w)
BY AnglesServe DEF NutationLongitude

LEMMA ObliquityServes ==
  ASSUME NEW w, NEW c, Good(c, w)
  PROVE  Serves(c, NutationObliquity(c), {"NL", "NO"}, w)
BY AnglesServe DEF NutationObliquity

LEMMA TrueObliquityServes ==
  ASSUME NEW w, NEW c, Good(c, w)
  PROVE  Serves(c, TrueObliquity(c), {"MO", "NL", "NO"}, w)
<1>1. PICK b : b = MeanObliquity(c) /\ Serves(c, b, {"MO"}, w) /\ Good(b, w)
  BY MeanObliquityServes DEF Serves
<1>2. Serves(b, NutationObliquity(b), {"NL", "NO"}, w)
  BY <1>1, ObliquityServes
<1>3. Serves(c, NutationObliquity(b), {"MO"} \cup {"NL", "NO"}, w)
  BY <1>1, <1>2, Chain
<1>4. {"MO"} \cup {"NL", "NO"} = {"MO", "NL", "NO"}
  OBVIOUS
<1> QED
  BY <1>1, <1>3, <1>4 DEF TrueObliquity

\* The values of the quantities made of others.
LEMMA Values ==
  ASSUME NEW w, NEW d, Good(d, w)
  PROVE  /\ \A q \in {"GMST", "MO", "MASUN", "MLSUN"} : q \in d.valid => d.value[q] = Of(q, mjd)
         /\ {"NL", "NO", "MO"} \subseteq d.valid =>
              Equinoxes(d) = NutationAt(mjd) \cup ObliquityAt(mjd)
         /\ "LMST" \in d.valid => d.value["LMST"] = LocalMeanAt(mjd, w)
         /\ "CENTER" \in d.valid => d.value["CENTER"] = CenterAt(mjd)
         /\ "TLSUN" \in d.valid => d.value["TLSUN"] = TrueLongAt(mjd)
<1>1. \A q \in {"GMST", "MO", "MASUN", "MLSUN"} : q \in d.valid => d.value[q] = Of(q, mjd)
  BY Worth, References, Names
<1>2. /\ "NL" \in d.valid => d.value["NL"] = NutationAt(mjd)
      /\ "NO" \in d.valid => d.value["NO"] = NutationAt(mjd)
  BY Worth, References
<1>3. {"NL", "NO", "MO"} \subseteq d.valid => Equinoxes(d) = NutationAt(mjd) \cup ObliquityAt(mjd)
  BY <1>1, <1>2 DEF Equinoxes, ObliquityAt
<1>4. /\ "LMST" \in d.valid => d.value["LMST"] = LocalMeanAt(mjd, w)
      /\ "CENTER" \in d.valid => d.value["CENTER"] = CenterAt(mjd)
      /\ "TLSUN" \in d.valid => d.value["TLSUN"] = TrueLongAt(mjd)
  BY Worth, References
<1> QED
  BY <1>1, <1>3, <1>4

\* What closes over the quantities that nothing is made of, or whose parts are there.
LEMMA ClosedMore ==
  ASSUME NEW V, Closed(V), NEW q \in Derived \ {"NL", "NO"},
         q \in {"GST", "LST"} => {"GMST", "MO", "NL"} \subseteq V,
         q = "LMST" => "GMST" \in V, q = "LST" => "LMST" \in V,
         q = "POSSUN" => {"TLSUN", "MO"} \subseteq V
  PROVE  Closed(V \cup {q})
<1>1. \A p \in Century : p # q
  BY Names
<1> QED
  BY <1>1 DEF Closed

LEMMA SiderealServes ==
  ASSUME NEW w, NEW c, Good(c, w)
  PROVE  Serves(c, GreenwichSiderealTime(c), {"GST"}, w)
<1>1. PICK a, b, d : /\ a = GreenwichMeanSiderealTime(c) /\ b = NutationLongitude(a) /\ d = TrueObliquity(b)
  OBVIOUS
<1>2. Serves(c, a, {"GMST"}, w) /\ Good(a, w)
  BY <1>1, GreenwichMeanServes DEF Serves
<1>3. Serves(a, b, {"NL", "NO"}, w) /\ Good(b, w)
  BY <1>1, <1>2, LongitudeServes DEF Serves
<1>4. Serves(b, d, {"MO", "NL", "NO"}, w)
  BY <1>1, <1>3, TrueObliquityServes
<1>5. Good(d, w) /\ c.valid \subseteq d.valid /\ {"GMST", "MO", "NL", "NO"} \subseteq d.valid
  BY <1>2, <1>3, <1>4 DEF Serves
<1>6. d.value["GMST"] \cup Equinoxes(d) = Reference("GST", mjd, w)
  BY <1>5, Values, References DEF SiderealAt
<1>7. Closed(d.valid \cup {"GST"}) /\ "GST" \in Quantity
  BY <1>5, ClosedMore, Names DEF Good, Derived
<1> QED
  BY <1>1, <1>5, <1>6, <1>7, MemoServes DEF GreenwichSiderealTime

\* Of the place in force, unless they were computed before.
LEMMA LocalMeanServes ==
  ASSUME NEW w, NEW c, Good(c, w), w = site \/ "LMST" \in c.valid
  PROVE  Serves(c, LocalMeanSiderealTime(c), {"LMST"}, w)
<1>1. CASE "LMST" \in c.valid
  BY <1>1 DEF LocalMeanSiderealTime, Memo, Serves
<1>2. CASE w = site
  <2>1. PICK d : d = GreenwichMeanSiderealTime(c)
    OBVIOUS
  <2>2. Good(d, w) /\ c.valid \subseteq d.valid /\ "GMST" \in d.valid
    BY <2>1, GreenwichMeanServes DEF Serves
  <2>3. d.value["GMST"] \cup Of("longitude", site) = Reference("LMST", mjd, w)
    BY <1>2, <2>2, Values, References DEF LocalMeanAt
  <2>4. Closed(d.valid \cup {"LMST"}) /\ "LMST" \in Quantity
    BY <2>2, ClosedMore, Names DEF Good, Derived
  <2> QED
    BY <2>1, <2>2, <2>3, <2>4, MemoServes DEF LocalMeanSiderealTime
<1> QED
  BY <1>1, <1>2

LEMMA LocalServes ==
  ASSUME NEW w, NEW c, Good(c, w), w = site \/ "LMST" \in c.valid
  PROVE  Serves(c, LocalSiderealTime(c), {"LST"}, w)
<1>1. PICK a, b, d : /\ a = LocalMeanSiderealTime(c) /\ b = NutationLongitude(a) /\ d = TrueObliquity(b)
  OBVIOUS
<1>2. Serves(c, a, {"LMST"}, w) /\ Good(a, w)
  BY <1>1, LocalMeanServes DEF Serves
<1>3. Serves(a, b, {"NL", "NO"}, w) /\ Good(b, w)
  BY <1>1, <1>2, LongitudeServes DEF Serves
<1>4. Serves(b, d, {"MO", "NL", "NO"}, w)
  BY <1>1, <1>3, TrueObliquityServes
<1>5. Good(d, w) /\ c.valid \subseteq d.valid /\ {"LMST", "MO", "NL", "NO"} \subseteq d.valid
  BY <1>2, <1>3, <1>4 DEF Serves
<1>6. "GMST" \in d.valid
  BY <1>5 DEF Good, Closed
<1>7. d.value["LMST"] \cup Equinoxes(d) = Reference("LST", mjd, w)
  <2>1. d.value["LMST"] \cup Equinoxes(d) = LocalMeanAt(mjd, w) \cup NutationAt(mjd) \cup ObliquityAt(mjd)
    BY <1>5, Values
  <2> QED
    BY <2>1, References DEF LocalAt, LocalMeanAt, SiderealAt
<1>8. Closed(d.valid \cup {"LST"}) /\ "LST" \in Quantity
  BY <1>5, <1>6, ClosedMore, Names DEF Good, Derived
<1> QED
  BY <1>1, <1>5, <1>7, <1>8, MemoServes DEF LocalSiderealTime

LEMMA CenterServes ==
  ASSUME NEW w, NEW c, Good(c, w)
  PROVE  Serves(c, CenterSun(c), {"CENTER"}, w)
<1>1. PICK b, d : b = JulianCentury(c) /\ d = OfCentury(b, {"MASUN"})
  OBVIOUS
<1>2. Serves(c, b, {"JC"}, w) /\ Good(b, w)
  BY <1>1, CenturyServes DEF Serves
<1>3. Serves(b, d, {"MASUN"}, w)
  BY <1>1, <1>2, PolynomialsServe, Names
<1>4. Good(d, w) /\ c.valid \subseteq d.valid /\ {"JC", "MASUN"} \subseteq d.valid
  BY <1>2, <1>3 DEF Serves
<1>5. Apply("center", d) \cup d.value["MASUN"] = Reference("CENTER", mjd, w)
  <2>1. Apply("center", d) = Of("center", mjd)
    BY <1>4, CenturyKept, Applied
  <2> QED
    BY <1>4, <2>1, Values, References DEF CenterAt
<1>6. Closed(d.valid \cup {"CENTER"}) /\ "CENTER" \in Quantity
  BY <1>4, ClosedMore, Names DEF Good, Derived
<1> QED
  BY <1>1, <1>4, <1>5, <1>6, MemoServes DEF CenterSun

\* The centre after a polynomial of the century.
LEMMA CenterAfter ==
  ASSUME NEW w, NEW c, Good(c, w), NEW p \in {"MASUN", "MLSUN"}
  PROVE  Serves(c, CenterSun(OfCentury(c, {p})), {p, "CENTER"}, w)
<1>1. PICK b, d : b = OfCentury(c, {p}) /\ d = CenterSun(b)
  OBVIOUS
<1>2. Serves(c, b, {p}, w) /\ Good(b, w)
  BY <1>1, PolynomialsServe, Names DEF Serves
<1>3. Serves(b, d, {"CENTER"}, w)
  BY <1>1, <1>2, CenterServes
<1> QED
  BY <1>1, <1>2, <1>3 DEF Serves

LEMMA TrueLongServes ==
  ASSUME NEW w, NEW c, Good(c, w)
  PROVE  Serves(c, TrueLongSun(c), {"TLSUN"}, w)
<1>1. PICK d : d = CenterSun(OfCentury(c, {"MLSUN"}))
  OBVIOUS
<1>2. Good(d, w) /\ c.valid \subseteq d.valid /\ {"MLSUN", "CENTER"} \subseteq d.valid
  BY <1>1, CenterAfter DEF Serves
<1>3. d.value["MLSUN"] \cup d.value["CENTER"] = Reference("TLSUN", mjd, w)
  BY <1>2, Values, References DEF TrueLongAt
<1>4. Closed(d.valid \cup {"TLSUN"}) /\ "TLSUN" \in Quantity
  BY <1>2, ClosedMore, Names DEF Good, Derived
<1> QED
  BY <1>1, <1>2, <1>3, <1>4, MemoServes DEF TrueLongSun

LEMMA TrueAnomalyServes ==
  ASSUME NEW w, NEW c, Good(c, w)
  PROVE  Serves(c, TrueAnomalySun(c), {"TASUN"}, w)
<1>1. PICK d : d = CenterSun(OfCentury(c, {"MASUN"}))
  OBVIOUS
<1>2. Good(d, w) /\ c.valid \subseteq d.valid /\ {"MASUN", "CENTER"} \subseteq d.valid
  BY <1>1, CenterAfter DEF Serves
<1>3. d.value["MASUN"] \cup d.value["CENTER"] = Reference("TASUN", mjd, w)
  BY <1>2, Values, References
<1>4. Closed(d.valid \cup {"TASUN"}) /\ "TASUN" \in Quantity
  BY <1>2, ClosedMore, Names DEF Good, Derived
<1> QED
  BY <1>1, <1>2, <1>3, <1>4, MemoServes DEF TrueAnomalySun

LEMMA SunServes ==
  ASSUME NEW w, NEW c, Good(c, w)
  PROVE  Serves(c, SunPosition(c), {"POSSUN"}, w)
<1>1. PICK a, b, d : a = JulianCentury(c) /\ b = TrueLongSun(a) /\ d = MeanObliquity(b)
  OBVIOUS
<1>2. Serves(c, a, {"JC"}, w) /\ Good(a, w)
  BY <1>1, CenturyServes DEF Serves
<1>3. Serves(a, b, {"TLSUN"}, w) /\ Good(b, w)
  BY <1>1, <1>2, TrueLongServes DEF Serves
<1>4. Serves(b, d, {"MO"}, w)
  BY <1>1, <1>3, MeanObliquityServes
<1>5. Good(d, w) /\ c.valid \subseteq d.valid /\ {"JC", "TLSUN", "MO"} \subseteq d.valid
  BY <1>2, <1>3, <1>4 DEF Serves
<1>6. Apply("sun", d) \cup d.value["TLSUN"] \cup d.value["MO"] = Reference("POSSUN", mjd, w)
  <2>1. Apply("sun", d) = Of("sun", mjd)
    BY <1>5, CenturyKept, Applied
  <2> QED
    BY <1>5, <2>1, Values, References DEF SunAt
<1>7. Closed(d.valid \cup {"POSSUN"}) /\ "POSSUN" \in Quantity
  BY <1>5, ClosedMore, Names DEF Good, Derived
<1> QED
  BY <1>1, <1>5, <1>6, <1>7, MemoServes DEF SunPosition

\* The eight quantities that EqTransfer reads are all there afterwards.
LEMMA TransferServes ==
  ASSUME NEW w, NEW c, Good(c, w)
  PROVE  Serves(c, Transfer(c), Plain \cup {"JC", "MO", "NL", "NO", "MLSUN", "CENTER"}, w)
<1>1. PICK a, b, d, e, f : /\ a = JulianCentury(c) /\ b = MeanObliquity(a) /\ d = NutationLongitude(b)
                           /\ e = NutationObliquity(d) /\ f = CenterSun(OfCentury(e, {"MLSUN"}))
  OBVIOUS
<1>2. Serves(c, a, {"JC"}, w) /\ Good(a, w)
  BY <1>1, CenturyServes DEF Serves
<1>3. Serves(a, b, {"MO"}, w) /\ Good(b, w)
  BY <1>1, <1>2, MeanObliquityServes DEF Serves
<1>4. Serves(b, d, {"NL", "NO"}, w) /\ Good(d, w)
  BY <1>1, <1>3, LongitudeServes DEF Serves
<1>5. Serves(d, e, {"NL", "NO"}, w) /\ Good(e, w)
  BY <1>1, <1>4, ObliquityServes DEF Serves
<1>6. Serves(e, f, {"MLSUN", "CENTER"}, w) /\ Good(f, w)
  BY <1>1, <1>5, CenterAfter DEF Serves
<1>7. Serves(f, OfCentury(f, Plain), Plain, w)
  BY <1>6, PolynomialsServe, Names
<1>8. Serves(c, OfCentury(f, Plain), Plain \cup {"JC", "MO", "NL", "NO", "MLSUN", "CENTER"}, w)
  BY <1>2, <1>3, <1>4, <1>5, <1>6, <1>7 DEF Serves
<1> QED
  BY <1>1, <1>8 DEF Transfer

\* The quantities made of the MJD alone.
LEMMA DirectServes ==
  ASSUME NEW w, NEW c, Good(c, w), NEW q \in Direct
  PROVE  Serves(c, FromMJD(c, q), {q}, w)
<1>1. Of(q, mjd) = Reference(q, mjd, w) /\ q \in Quantity
  BY References, Names
<1>2. q \notin Derived /\ q \notin Century /\ q \notin MoonArguments
  BY Names
<1>3. Closed(c.valid \cup {q})
  <2>1. {"NL", "NO", "GST", "LST", "POSSUN", "LMST"} \subseteq Derived
    BY DEF Derived
  <2> QED
    BY <1>2, <2>1 DEF Good, Closed
<1> QED
  BY <1>1, <1>3, MemoServes DEF FromMJD

LEMMA GettersServe ==
  ASSUME NEW w, NEW c, Good(c, w), w = site \/ "LMST" \in c.valid, NEW d \in Getters(c)
  PROVE  Good(d, w) /\ c.valid \subseteq d.valid
<1>1. CASE d \in {JulianCentury(c), NutationLongitude(c), NutationObliquity(c), TrueObliquity(c)}
  BY <1>1, CenturyServes, LongitudeServes, ObliquityServes, TrueObliquityServes DEF Serves
<1>2. CASE d \in {GreenwichMeanSiderealTime(c), GreenwichSiderealTime(c),
                  LocalMeanSiderealTime(c), LocalSiderealTime(c)}
  BY <1>2, GreenwichMeanServes, SiderealServes, LocalMeanServes, LocalServes DEF Serves
<1>3. CASE d \in {MeanObliquity(c), CenterSun(c), TrueLongSun(c), TrueAnomalySun(c), SunPosition(c), Transfer(c)}
  BY <1>3, MeanObliquityServes, CenterServes, TrueLongServes, TrueAnomalyServes, SunServes,
     TransferServes DEF Serves
<1>4. CASE d \in {FromMJD(c, q) : q \in Direct}
  BY <1>4, DirectServes DEF Serves
<1>5. CASE d \in {OfCentury(c, {q}) : q \in Century}
  <2>1. PICK q \in Century : d = OfCentury(c, {q})
    BY <1>5
  <2>2. Serves(c, OfCentury(c, {q}), {q}, w)
    BY PolynomialsServe
  <2> QED
    BY <2>1, <2>2 DEF Serves
<1> QED
  BY <1>1, <1>2, <1>3, <1>4, <1>5 DEF Getters

-----------------------------------------------------------------------------
\* A cache that keeps nothing is good at any instant and place.
LEMMA EmptyIsGood ==
  ASSUME NEW w, NEW c, Shape(c), c.valid = {}
  PROVE  Good(c, w)
BY DEF Good, Right, Closed

\* Without a local sidereal time, nothing that is kept depends on the place.
LEMMA Elsewhere ==
  ASSUME NEW w, NEW c, Good(c, w), "LMST" \notin c.valid, NEW x
  PROVE  Good(c, x)
<1>1. "LST" \notin c.valid
  BY DEF Good, Closed
<1>2. ASSUME NEW q \in c.valid PROVE Reference(q, mjd, w) = Reference(q, mjd, x)
  <2>1. q \in Quantity /\ q # "LMST" /\ q # "LST"
    BY <1>1, <1>2 DEF Good, Shape
  <2>2. CASE q \in Century \cup Direct \cup {"JC"}
    <3>1. Reference(q, mjd, w) = Of(q, mjd) /\ Reference(q, mjd, x) = Of(q, mjd)
      BY ONLY <2>2, References
    <3> QED
      BY ONLY <3>1
  <2>3. CASE q \in {"GST", "NL", "NO", "CENTER", "TLSUN", "TASUN", "POSSUN"}
    <3>1. /\ Reference("GST", mjd, w) = SiderealAt(mjd)
          /\ Reference("NL", mjd, w) = NutationAt(mjd) /\ Reference("NO", mjd, w) = NutationAt(mjd)
          /\ Reference("CENTER", mjd, w) = CenterAt(mjd) /\ Reference("TLSUN", mjd, w) = TrueLongAt(mjd)
          /\ Reference("TASUN", mjd, w) = Of("MASUN", mjd) \cup CenterAt(mjd)
          /\ Reference("POSSUN", mjd, w) = SunAt(mjd)
      BY ONLY References
    <3>2. /\ Reference("GST", mjd, x) = SiderealAt(mjd)
          /\ Reference("NL", mjd, x) = NutationAt(mjd) /\ Reference("NO", mjd, x) = NutationAt(mjd)
          /\ Reference("CENTER", mjd, x) = CenterAt(mjd) /\ Reference("TLSUN", mjd, x) = TrueLongAt(mjd)
          /\ Reference("TASUN", mjd, x) = Of("MASUN", mjd) \cup CenterAt(mjd)
          /\ Reference("POSSUN", mjd, x) = SunAt(mjd)
      BY ONLY References
    <3> QED
      BY ONLY <2>3, <3>1, <3>2
  <2> QED
    BY <2>1, <2>2, <2>3 DEF Quantity, Derived
<1> QED
  BY <1>2 DEF Good, Right

LEMMA NothingIsGood == ASSUME NEW w PROVE Good(NothingKept, w)
<1>1. Shape(NothingKept) /\ NothingKept.valid = {}
  BY DEF Shape, NothingKept
<1> QED
  BY <1>1, EmptyIsGood

LEMMA CacheInit == TSInit => TSInv
BY NothingIsGood DEF TSInit, TSInv, AabInv

LEMMA CacheStep == TSInv /\ [TSNext]_tsVars => TSInv'
<1> SUFFICES ASSUME TSInv, [TSNext]_tsVars PROVE TSInv'
  OBVIOUS
<1>1. AabInv /\ site \in places
  BY DEF TSInv
<1>2. PICK w \in places : Good(cache, w) /\ (w = site \/ "LMST" \in cache.valid)
  BY DEF TSInv
<1>3. CASE UNCHANGED tsVars
  <2>1. Good(cache, w)' /\ AabInv'
    BY <1>1, <1>2, <1>3 DEF tsVars, AabInv, Good, Shape, Right, Closed
  <2> QED
    BY <1>1, <1>2, <1>3, <2>1 DEF tsVars, TSInv
<1>4. ASSUME NEW t \in Time, SetUTC(t) PROVE TSInv'
  <2>1. cache' = NothingKept /\ places' = {site} /\ UNCHANGED <<site, aab>>
    BY <1>4 DEF SetUTC
  <2>2. Good(cache, site)'
    <3>1. Shape(NothingKept) /\ NothingKept.valid = {}
      BY DEF Shape, NothingKept
    <3> QED
      BY <2>1, <3>1 DEF Good, Shape, Right, Closed
  <2> QED
    BY <1>1, <2>1, <2>2 DEF TSInv, AabInv
<1>5. ASSUME NEW t \in Time, GetAnnualAberration(t) PROVE TSInv'
  <2>1. UNCHANGED <<mjd, site, places, cache>> /\ aab' \in {aab, [t |-> t, sums |-> t]}
    BY <1>5 DEF GetAnnualAberration
  <2>2. AabInv'
    BY <1>1, <2>1 DEF AabInv
  <2>3. Good(cache, w)'
    BY <1>2, <2>1 DEF Good, Shape, Right, Closed
  <2> QED
    BY <1>1, <1>2, <2>1, <2>2, <2>3 DEF TSInv
<1>6. ASSUME NEW t \in BadTime, SetRejected(t) PROVE TSInv'
  BY <1>3, <1>6 DEF SetRejected
<1>7. ASSUME NEW s \in Site, SetSite(s) PROVE TSInv'
  <2>1. site' = s /\ places' = places \cup {s} /\ UNCHANGED <<mjd, cache, aab>>
    BY <1>7 DEF SetSite
  <2>2. AabInv'
    BY <1>1, <2>1 DEF AabInv
  <2>3. CASE "LMST" \in cache.valid
    <3>1. Good(cache, w)'
      BY <1>2, <2>1 DEF Good, Shape, Right, Closed
    <3> QED
      BY <2>1, <2>2, <2>3, <3>1 DEF TSInv
  <2>4. CASE "LMST" \notin cache.valid
    <3>1. Good(cache, s)
      BY <1>2, <2>4, Elsewhere
    <3>2. Good(cache, s)'
      BY <2>1, <3>1 DEF Good, Shape, Right, Closed
    <3> QED
      BY <2>1, <2>2, <3>2 DEF TSInv
  <2> QED
    BY <2>3, <2>4
<1>8. CASE Ask
  <2>1. cache' \in Getters(cache) /\ UNCHANGED <<mjd, site, places, aab>>
    BY <1>8 DEF Ask
  <2>2. PICK d : d = cache' /\ Good(d, w) /\ cache.valid \subseteq d.valid
    BY <1>2, <2>1, GettersServe
  <2>3. Good(cache, w)'
    BY <2>1, <2>2 DEF Good, Shape, Right, Closed
  <2>4. AabInv'
    BY <1>1, <2>1 DEF AabInv
  <2> QED
    BY <1>1, <1>2, <2>1, <2>2, <2>3, <2>4 DEF TSInv
<1> QED
  BY <1>3, <1>4, <1>5, <1>6, <1>7, <1>8 DEF TSNext

LEMMA CacheAlways == TSSpec => []TSInv
BY CacheInit, CacheStep, PTL DEF TSSpec

(***************************************************************************)
(* In whatever order the quantities are asked for and the instant and the  *)
(* place are set, what counts as valid is what the formulas that keep      *)
(* nothing give for the instant, all of it for one place in force since.   *)
(***************************************************************************)
THEOREM CacheIsCurrent == TSSpec => []CachedIsCurrent
<1>1. TSInv => CachedIsCurrent
  BY DEF TSInv, AabInv, Good, Right, CachedIsCurrent
<1> QED
  BY <1>1, CacheAlways, PTL

(***************************************************************************)
(* A quantity never counts as valid without those it was made from.        *)
(***************************************************************************)
THEOREM PartsAreThere == TSSpec => []CacheIsClosed
<1>1. TSInv => CacheIsClosed
  BY DEF TSInv, Good, Closed, CacheIsClosed
<1> QED
  BY <1>1, CacheAlways, PTL

-----------------------------------------------------------------------------
\* The calendar.

\* The number of the year that begins in March, from 4800 BC.
Since(y, m) == IF m < 3 THEN y + 4799 ELSE y + 4800
\* The days before a month in it, from the end of the month before March.
First(m) == <<336, 367, 30, 61, 91, 122, 152, 183, 214, 244, 275, 305>>[m]
\* The days before it.
Days(Y) == (1461 * Y) \div 4 - (3 * ((Y + 100) \div 100)) \div 4

\* January and February count to the year before.
LEMMA CutMonth ==
  ASSUME NEW m \in 1 .. 12
  PROVE  Cut(m - 14, 12) = IF m < 3 THEN -1 ELSE 0
  BY SMTT(30) DEF Cut

\* The term of ModifiedJulianDay that only the month enters.
LEMMA FirstOf ==
  ASSUME NEW m \in 1 .. 12
  PROVE  Cut(367 * (m - 2 - 12 * Cut(m - 14, 12)), 12) = First(m)
<1>1. m \in {1, 2, 3, 4, 5, 6, 7, 8, 9, 10, 11, 12}
  OBVIOUS
<1>2. CASE m < 3
  <2>1. Cut(m - 14, 12) = -1
    BY <1>2, CutMonth
  <2> QED
    BY <1>1, <1>2, <2>1, SMTT(30) DEF Cut, First
<1>3. CASE ~(m < 3)
  <2>1. Cut(m - 14, 12) = 0
    BY <1>3, CutMonth
  <2> QED
    BY <1>1, <1>3, <2>1, SMTT(30) DEF Cut, First
<1> QED
  BY <1>2, <1>3

\* ModifiedJulianDay is the days before the year that begins in March, those
\* before the month in it, and the day, from a fixed origin.
LEMMA ByYear ==
  ASSUME NEW y \in Int, y > -4799, NEW m \in 1 .. 12, NEW d \in Int
  PROVE  ModifiedJulianDay(y, m, d) = Days(Since(y, m)) + First(m) + d - 2432076
<1> DEFINE my == Cut(m - 14, 12)
           Y == Since(y, m)
<1>1. my \in Int /\ Y = y + my + 4800 /\ Y \in Nat
  BY CutMonth DEF Since
<1>2. ModifiedJulianDay(y, m, d) = Cut(1461 * (y + my + 4800), 4) + First(m)
                                 - Cut(3 * Cut(y + my + 4900, 100), 4) + d - 2432076
  BY FirstOf DEF ModifiedJulianDay
<1>3. First(m) \in Nat
  BY DEF First
<1> HIDE DEF my, Y
<1>4. y + my + 4900 = Y + 100 /\ y + my + 4800 = Y
  BY <1>1
<1>5. Cut(Y + 100, 100) = (Y + 100) \div 100 /\ (Y + 100) \div 100 \in Nat
  BY <1>1 DEF Cut
<1>6. Cut(3 * Cut(Y + 100, 100), 4) = (3 * ((Y + 100) \div 100)) \div 4
  BY <1>5 DEF Cut
<1>7. Cut(1461 * Y, 4) = (1461 * Y) \div 4
  BY <1>1 DEF Cut
<1>8. Days(Y) = (1461 * Y) \div 4 - (3 * ((Y + 100) \div 100)) \div 4
  BY DEF Days
<1>9. (1461 * Y) \div 4 \in Int /\ (3 * ((Y + 100) \div 100)) \div 4 \in Int
  BY <1>1, <1>5
<1> QED
  BY <1>2, <1>3, <1>4, <1>6, <1>7, <1>8, <1>9 DEF Y

\* A year that begins in March has 366 days when it ends in a leap February.
LEMMA NextYear ==
  ASSUME NEW Y \in Nat
  PROVE  Days(Y + 1) = Days(Y)
           + IF Y % 4 = 3 /\ (Y % 100 # 99 \/ Y % 400 = 399) THEN 366 ELSE 365
<1>1. (1461 * (Y + 1)) \div 4 = (1461 * Y) \div 4 + IF Y % 4 = 3 THEN 366 ELSE 365
  BY SMTT(60)
<1>2. (3 * ((Y + 101) \div 100)) \div 4 = (3 * ((Y + 100) \div 100)) \div 4
                                       + (IF Y % 100 = 99 /\ Y % 400 # 399 THEN 1 ELSE 0)
  <2>1. (Y + 101) \div 100 = (Y + 100) \div 100 + IF Y % 100 = 99 THEN 1 ELSE 0
    BY SMTT(60)
  <2>2. (Y + 100) \div 100 \in Nat
    OBVIOUS
  <2>3. Y % 100 = 99 => (Y % 400 = 399 <=> ((Y + 100) \div 100) % 4 = 0)
    BY SMTT(60)
  <2>4. \A c \in Nat : (3 * (c + 1)) \div 4 = (3 * c) \div 4 + IF c % 4 = 0 THEN 0 ELSE 1
    BY SMTT(60)
  <2> QED
    BY <2>1, <2>2, <2>3, <2>4
<1>3. Y % 400 = 399 => Y % 4 = 3 /\ Y % 100 = 99
  BY SMTT(60)
<1>4. Y % 100 = 99 => Y % 4 = 3
  BY SMTT(60)
<1> QED
  BY <1>1, <1>2, <1>3, <1>4 DEF Days

\* How long the months are, and that each begins where the one before ends:
\* all but March, which begins a year.
LEMMA MonthEnds ==
  ASSUME NEW y \in Int, NEW m \in 1 .. 12
  PROVE  /\ MonthDays(y, m) \in 28 .. 31
         /\ m # 2 /\ m # 12 => First(m) + MonthDays(y, m) = First(IF m = 12 THEN 1 ELSE m + 1)
         /\ First(m) \in 30 .. 367
         /\ m = 2 => MonthDays(y, m) = IF Leap(y) THEN 29 ELSE 28
         /\ m = 12 => MonthDays(y, m) = 31 /\ First(12) = 305
         /\ First(1) = 336 /\ First(2) = 367 /\ First(3) = 30
<1>1. m \in {1, 2, 3, 4, 5, 6, 7, 8, 9, 10, 11, 12}
  OBVIOUS
<1>2. CASE m = 2
  BY <1>2, SMTT(30) DEF MonthDays, mdays, First
<1>3. CASE m # 2
  BY <1>1, <1>3, SMTT(30) DEF MonthDays, mdays, First
<1> QED
  BY <1>2, <1>3

\* The Gregorian rule, in the number of the year that ends in that February.
LEMMA YearShift ==
  ASSUME NEW y \in Int
  PROVE  Leap(y) <=> (y + 4799) % 4 = 3 /\ ((y + 4799) % 100 # 99 \/ (y + 4799) % 400 = 399)
<1>1. y % 4 = 0 <=> (y + 4799) % 4 = 3
  BY SMTT(30)
<1>2. y % 100 = 0 <=> (y + 4799) % 100 = 99
  BY SMTT(30)
<1>3. y % 400 = 0 <=> (y + 4799) % 400 = 399
  BY SMTT(30)
<1> QED
  BY <1>1, <1>2, <1>3 DEF Leap

\* Days is whole.
LEMMA DaysInt ==
  ASSUME NEW Y \in Nat PROVE Days(Y) \in Int
<1>1. (Y + 100) \div 100 \in Nat
  OBVIOUS
<1> QED
  BY <1>1 DEF Days

\* The day after a day, by each of the three ways a date goes on, has the next
\* number.
LEMMA Tomorrow ==
  ASSUME NEW y \in Int, y > -4799, NEW m \in 1 .. 12, NEW d \in Nat
  PROVE  /\ ModifiedJulianDay(y, m, d + 1) = ModifiedJulianDay(y, m, d) + 1
         /\ (m < 12 /\ d = MonthDays(y, m)) =>
             ModifiedJulianDay(y, m + 1, 1) = ModifiedJulianDay(y, m, d) + 1
         /\ m = 12 /\ d = MonthDays(y, m) =>
             ModifiedJulianDay(y + 1, 1, 1) = ModifiedJulianDay(y, m, d) + 1
<1>1. /\ Since(y, m) \in Nat /\ Since(y + 1, 1) = Since(y, 12)
      /\ Days(Since(y, m)) \in Int
  BY DaysInt DEF Since
<1>2. First(m) \in Int
  BY MonthEnds
<1>3. ModifiedJulianDay(y, m, d + 1) = ModifiedJulianDay(y, m, d) + 1
  BY SMTT(30), <1>1, <1>2, ByYear
<1>4. CASE m < 12 /\ m # 2
  <2>1. Since(y, m + 1) = Since(y, m) /\ m + 1 \in 1 .. 12 /\ First(m + 1) \in Int
    BY <1>4, MonthEnds DEF Since
  <2>2. ModifiedJulianDay(y, m + 1, 1) = Days(Since(y, m)) + First(m + 1) + 1 - 2432076
    BY <2>1, ByYear
  <2>3. ModifiedJulianDay(y, m, d) = Days(Since(y, m)) + First(m) + d - 2432076
    BY ByYear
  <2>4. First(m) + MonthDays(y, m) = First(m + 1) /\ MonthDays(y, m) \in Int
    BY <1>4, MonthEnds
  <2> QED
    BY <1>1, <1>2, <1>3, <1>4, <2>1, <2>2, <2>3, <2>4
<1>5. CASE m = 2
  <2>1. Since(y, 3) = Since(y, 2) + 1 /\ Since(y, 2) \in Nat /\ Since(y, 2) = y + 4799
    BY DEF Since
  <2>2. ModifiedJulianDay(y, 3, 1) = Days(Since(y, 2) + 1) + 30 + 1 - 2432076
    BY <2>1, ByYear, MonthEnds
  <2>3. ModifiedJulianDay(y, 2, d) = Days(Since(y, 2)) + 367 + d - 2432076
    BY ByYear, MonthEnds
  <2>4. MonthDays(y, 2) = IF Leap(y) THEN 29 ELSE 28
    BY MonthEnds
  <2>5. Days(Since(y, 2) + 1) = Days(Since(y, 2)) + IF Leap(y) THEN 366 ELSE 365
    BY <2>1, NextYear, YearShift
  <2>6. Days(Since(y, 2)) \in Int
    BY <2>1, DaysInt
  <2> QED
    BY <1>3, <1>5, <2>2, <2>3, <2>4, <2>5, <2>6
<1>6. CASE m = 12
  <2>2. ModifiedJulianDay(y + 1, 1, 1) = Days(Since(y, 12)) + 336 + 1 - 2432076
    BY <1>1, ByYear, MonthEnds
  <2>3. ModifiedJulianDay(y, 12, d) = Days(Since(y, 12)) + 305 + d - 2432076
    BY ByYear, MonthEnds
  <2>4. MonthDays(y, 12) = 31
    BY MonthEnds
  <2> QED
    BY <1>1, <1>3, <1>6, <2>2, <2>3, <2>4
<1> QED
  BY <1>3, <1>4, <1>5, <1>6

\* The day in the year that begins in March, and that only a leap February has
\* the last of them.
LEMMA YearDay ==
  ASSUME NEW y \in Int, NEW m \in 1 .. 12, NEW d \in 1 .. MonthDays(y, m)
  PROVE  /\ 31 <= First(m) + d /\ First(m) + d <= 396
         /\ First(m) + d = 396 =>
             Since(y, m) % 4 = 3 /\ (Since(y, m) % 100 # 99 \/ Since(y, m) % 400 = 399)
<1>1. m \in {1, 2, 3, 4, 5, 6, 7, 8, 9, 10, 11, 12}
  OBVIOUS
<1>2. MonthDays(y, m) \in 28 .. 31 /\ d \in 1 .. 31 /\ d <= MonthDays(y, m)
  BY MonthEnds
<1>3. CASE m = 2
  <2>1. First(m) = 367 /\ Since(y, m) = y + 4799 /\ d <= IF Leap(y) THEN 29 ELSE 28
    BY <1>2, <1>3, MonthEnds DEF Since
  <2> QED
    BY <1>2, <2>1, YearShift
<1>4. CASE m # 2
  <2>1. First(m) <= 336
   BY <1>1, <1>4 DEF First
  <2>2. First(m) \in 30 .. 367
    BY MonthEnds
  <2> QED
    BY <1>2, <2>1, <2>2
<1> QED
  BY <1>3, <1>4

\* The term t of Mjd2Cal is the century of the year.
LEMMA CenturyOfDay ==
  ASSUME NEW Y \in Nat, NEW D \in 31 .. 396,
    D = 396 => Y % 4 = 3 /\ (Y % 100 # 99 \/ Y % 400 = 399)
  PROVE  LET jdn == Days(Y) + D - 32075
         IN (4 * jdn - 7468865) \div 146097 = Y \div 100 - 52
<1> DEFINE c == Y \div 100
           r == Y % 100
<1>1. c \in Nat /\ r \in 0 .. 99 /\ Y = 100 * c + r
  BY SMTT(30)
<1>2. (Y + 100) \div 100 = c + 1
  BY SMTT(30)
<1>3. (1461 * Y) \div 4 = 36525 * c + (1461 * r) \div 4
  BY <1>1, SMTT(30)
<1>4. Y % 4 = r % 4 /\ (r = 99 => (Y % 400 = 399 <=> c % 4 = 3))
  BY <1>1, SMTT(60)
<1> HIDE DEF c, r
<1>5. Days(Y) = 36525 * c + (1461 * r) \div 4 - (3 * (c + 1)) \div 4
  BY <1>1, <1>2, <1>3 DEF Days
<1>6. D = 396 => r % 4 = 3 /\ (r # 99 \/ c % 4 = 3)
  BY <1>1, <1>4
<1>7. (4 * (36525 * c + (1461 * r) \div 4 - (3 * (c + 1)) \div 4 + D - 32075) - 7468865)
         \div 146097 = c - 52
  BY <1>1, <1>6, SMTT(120)
<1> QED
  BY <1>5, <1>7 DEF c

\* The term C of Mjd2Cal is the year, and B less the days before it is the day in
\* the year.
LEMMA BackYear ==
  ASSUME NEW Y \in Nat, NEW D \in 31 .. 396,
    D = 396 => Y % 4 = 3
  PROVE  LET B == (1461 * (Y - 84)) \div 4 + D + 92
         IN /\ (20 * B - 2442) \div 7305 = Y - 84
            /\ B - (1461 * (Y - 84)) \div 4 = D + 92
<1>1. (1461 * (Y - 84)) \div 4 \in Int
  OBVIOUS
<1>2. (20 * ((1461 * (Y - 84)) \div 4 + D + 92) - 2442) \div 7305 = Y - 84
  BY SMTT(120)
<1> QED
  BY <1>1, <1>2

\* B of Mjd2Cal is a day of the Julian calendar, which has no centuries.
LEMMA Corrected ==
  ASSUME NEW Y \in Nat, NEW D \in Int
  PROVE  LET jdn == Days(Y) + D - 32075
             t == Y \div 100 - 52
         IN jdn + 1 + t - t \div 4 + 1524 = (1461 * (Y - 84)) \div 4 + D + 92
<1> DEFINE c == Y \div 100
<1>1. c \in Nat
  BY SMTT(30)
<1>2. (Y + 100) \div 100 = c + 1
  BY SMTT(30)
<1>3. (1461 * (Y - 84)) \div 4 = (1461 * Y) \div 4 - 30681
  BY SMTT(30)
<1> HIDE DEF c
<1>4. (c - 52) \div 4 = c \div 4 - 13
  BY <1>1, SMTT(30)
<1>5. (3 * (c + 1)) \div 4 = c - c \div 4
  BY <1>1, SMTT(30)
<1>6. (1461 * Y) \div 4 \in Int /\ c \div 4 \in Int
  BY <1>1
<1>7. Days(Y) = (1461 * Y) \div 4 - (c - c \div 4)
  BY <1>2, <1>5 DEF Days
<1> QED
  BY <1>1, <1>3, <1>4, <1>6, <1>7 DEF c

\* The last two terms of Mjd2Cal are the month and the day.
LEMMA BackMonth ==
  ASSUME NEW y \in Int, NEW m \in 1 .. 12, NEW d \in 1 .. MonthDays(y, m)
  PROVE  LET F == First(m) + d + 92
             E == (10000 * F) \div 306001
         IN /\ m = IF E < 14 THEN E - 1 ELSE E - 13
            /\ d = F - (306001 * E) \div 10000
<1>1. m \in {1, 2, 3, 4, 5, 6, 7, 8, 9, 10, 11, 12}
  OBVIOUS
<1>2. d \in 1 .. 31 /\ (m = 2 => d <= 29) /\ (m \in {4, 6, 9, 11} => d <= 30)
  <2>1. m \in {4, 6, 9, 11} => MonthDays(y, m) = 30
    BY <1>1 DEF MonthDays, mdays
  <2> QED
    BY <2>1, MonthEnds
<1>3. \/ m = 1 /\ First(m) = 336
      \/ m = 2 /\ First(m) = 367
      \/ m = 3 /\ First(m) = 30
      \/ m = 4 /\ First(m) = 61
      \/ m = 5 /\ First(m) = 91
      \/ m = 6 /\ First(m) = 122
      \/ m = 7 /\ First(m) = 152
      \/ m = 8 /\ First(m) = 183
      \/ m = 9 /\ First(m) = 214
      \/ m = 10 /\ First(m) = 244
      \/ m = 11 /\ First(m) = 275
      \/ m = 12 /\ First(m) = 305
  BY <1>1 DEF First
<1> DEFINE F == First(m) + d + 92
           E == (10000 * F) \div 306001
<1>4. m = IF E < 14 THEN E - 1 ELSE E - 13
  BY <1>2, <1>3, SMTT(60)
<1>5. d = F - (306001 * E) \div 10000
  BY <1>2, <1>3, SMTT(60)
<1> QED
  BY <1>4, <1>5

\* Mjd2Cal undoes ModifiedJulianDay on every date of the Gregorian calendar.
LEMMA Back ==
  ASSUME NEW y \in Int, y > -4799, NEW m \in 1 .. 12, NEW d \in 1 .. MonthDays(y, m),
  ModifiedJulianDay(y, m, d) >= -100840
  PROVE  Mjd2Cal(ModifiedJulianDay(y, m, d)) = [y |-> y, m |-> m, d |-> d]
<1>0. /\ First(m) + d \in 31 .. 396
      /\ First(m) + d = 396 => Since(y, m) % 4 = 3
      /\ First(m) + d = 396 => Since(y, m) % 100 # 99 \/ Since(y, m) % 400 = 399
  <2>1. First(m) + d \in 31 .. 396
    <3>1. First(m) \in Int /\ d \in Int
      BY MonthEnds
    <3>2. 31 <= First(m) + d /\ First(m) + d <= 396
      BY YearDay
    <3> QED
      BY <3>1, <3>2
  <2>2. First(m) + d = 396 => Since(y, m) % 4 = 3
    BY YearDay
  <2>3. First(m) + d = 396 => Since(y, m) % 100 # 99 \/ Since(y, m) % 400 = 399
    BY YearDay
  <2> QED
    BY <2>1, <2>2, <2>3
<1> DEFINE Y == Since(y, m)
           D == First(m) + d
           n == ModifiedJulianDay(y, m, d)
           jdn == n + 2400001
           B == (1461 * (Y - 84)) \div 4 + D + 92
           C == (20 * B - 2442) \div 7305
           E == (10000 * (B - (1461 * C) \div 4)) \div 306001
<1>1. Y \in Nat /\ d \in Nat
  BY MonthEnds DEF Since
<1>2. /\ D \in 31 .. 396
      /\ D = 396 => Y % 4 = 3 /\ (Y % 100 # 99 \/ Y % 400 = 399)
  BY <1>0
<1>3. First(m) \in Int
  BY MonthEnds
<1>14. Days(Y) \in Int
  BY <1>1, DaysInt
<1>4. n = Days(Y) + D - 2432076 /\ n \in Int
  BY <1>1, <1>3, <1>14, ByYear
<1>5. jdn = Days(Y) + D - 32075 /\ jdn \in Int /\ jdn >= 2299161
  BY <1>4, <1>14, <1>2
<1> HIDE DEF n, D, Y
<1>6. (4 * jdn - 7468865) \div 146097 = Y \div 100 - 52
  <2>1. (4 * (Days(Y) + D - 32075) - 7468865) \div 146097 = Y \div 100 - 52
    BY <1>1, <1>2, CenturyOfDay
  <2> QED
    BY <1>5, <2>1
<1>7. jdn + 1 + (Y \div 100 - 52) - (Y \div 100 - 52) \div 4 + 1524 = B
  <2>1. D \in Int
    BY <1>2
  <2>2. Days(Y) + D - 32075 + 1 + (Y \div 100 - 52) - (Y \div 100 - 52) \div 4 + 1524
          = (1461 * (Y - 84)) \div 4 + D + 92
    BY <1>1, <2>1, Corrected
  <2> HIDE DEF jdn
  <2> QED
    BY <1>5, <2>2
<1>8. C = Y - 84 /\ B - (1461 * (Y - 84)) \div 4 = D + 92
  BY <1>1, <1>2, BackYear
<1>9. /\ m = IF E < 14 THEN E - 1 ELSE E - 13
      /\ d = D + 92 - (306001 * E) \div 10000
  <2>1. E = (10000 * (First(m) + d + 92)) \div 306001 /\ D = First(m) + d
    BY <1>8 DEF D
  <2> QED
    BY <2>1, BackMonth
<1>10. y = IF m > 2 THEN C - 4716 ELSE C - 4715
  BY <1>8 DEF Y, Since
<1> DEFINE t == (4 * jdn - 7468865) \div 146097
           A == IF jdn >= 2299161 THEN jdn + 1 + t - t \div 4 ELSE jdn
           im == IF E < 14 THEN E - 1 ELSE E - 13
<1>11. A + 1524 = B
  BY <1>5, <1>6, <1>7
<1>12. Mjd2Cal(n) = [y |-> IF im > 2 THEN C - 4716 ELSE C - 4715, m |-> im,
                     d |-> B - (1461 * C) \div 4 - (306001 * E) \div 10000]
  BY <1>11 DEF Mjd2Cal
<1>13. im = m /\ B - (1461 * C) \div 4 - (306001 * E) \div 10000 = d
  <2>1. B - (1461 * C) \div 4 = D + 92 /\ D + 92 \in Int
    BY <1>2, <1>8
  <2>2. E \in Int /\ C \in Int
    BY <1>1, <1>8, <2>1
  <2>7. B \in Int
    BY <1>1, <1>2
  <2>8. (1461 * C) \div 4 \in Int
    BY <2>2
  <2> HIDE DEF E, B, C
  <2>3. (306001 * E) \div 10000 \in Int
    BY <2>2
  <2>4. im = m
    BY <1>9
  <2>5. d \in Int /\ d = D + 92 - (306001 * E) \div 10000
    BY <1>9
  <2> DEFINE X == (1461 * C) \div 4
             W == (306001 * E) \div 10000
  <2>6. B - X - W = d
    <3>1. B - X = D + 92 /\ d = D + 92 - W /\ W \in Int /\ X \in Int
      BY <2>1, <2>3, <2>5, <2>8
    <3>2. D \in Int
      BY <1>2
    <3> HIDE DEF X, W
    <3> QED
      BY <2>7, <3>1, <3>2
  <2> QED
    BY <2>4, <2>6
<1> QED
  BY <1>10, <1>12, <1>13 DEF n

\* A set of naturals that is not empty has a least element.
LEMMA LeastOf ==
  ASSUME NEW S \in SUBSET Nat, S # {}
  PROVE  \E m \in S : \A k \in S : m <= k
<1>1. PICK m \in S : \A k \in S : ~ (<<k, m>> \in OpToRel(<, Nat))
  BY WFMin, NatLessThanWellFounded
<1>2. \A k \in S : ~ (k < m)
  BY <1>1 DEF OpToRel
<1> QED
  BY <1>2

\* A date by the Gregorian rules.
DateOK == /\ date = [y |-> date.y, m |-> date.m, d |-> date.d]
          /\ date.y \in Int /\ date.y >= 1858
          /\ date.m \in 1 .. 12
          /\ date.d \in 1 .. MonthDays(date.y, date.m)

\* A date is a date, and the number of the day is the one it converts to.
CalInv == DateOK /\ dayno \in Nat /\ ModifiedJulianDay(date.y, date.m, date.d) = dayno

\* The walk starts on a day with its own number.
LEMMA CalStart == CalInit => CalInv
<1>1. ASSUME dayno = 0, date = [y |-> 1858, m |-> 11, d |-> 17] PROVE CalInv
  <2>1. MonthDays(1858, 11) = 30
    BY DEF MonthDays, mdays
  <2>2. ModifiedJulianDay(1858, 11, 17) = 0
    BY SMTT(30) DEF ModifiedJulianDay, Cut
  <2> QED
    BY <1>1, <2>1, <2>2 DEF CalInv, DateOK
<1>2. ASSUME dayno = 57753, date = [y |-> 2016, m |-> 12, d |-> 31] PROVE CalInv
  <2>1. MonthDays(2016, 12) = 31
    BY DEF MonthDays, mdays
  <2>2. ModifiedJulianDay(2016, 12, 31) = 57753
    BY SMTT(30) DEF ModifiedJulianDay, Cut
  <2> QED
    BY <1>2, <2>1, <2>2 DEF CalInv, DateOK
<1> QED
  BY <1>1, <1>2 DEF CalInit

\* A day later the date is a date, and its number is the number of the day.
LEMMA NextDayKeeps ==
  ASSUME CalInv, NextDay PROVE CalInv' /\ date' # date
<1> DEFINE y == date.y
           m == date.m
           d == date.d
<1>1. /\ y \in Int /\ y >= 1858 /\ y > -4799 /\ m \in 1 .. 12 /\ d \in 1 .. MonthDays(y, m)
      /\ date = [y |-> y, m |-> m, d |-> d]
      /\ dayno \in Nat /\ ModifiedJulianDay(y, m, d) = dayno
  BY DEF CalInv, DateOK
<1>2. dayno' = dayno + 1 /\ dayno' \in Nat
  BY <1>1 DEF NextDay
<1>3. MonthDays(y, m) \in 28 .. 31 /\ d \in Nat /\ 1 <= d /\ d <= MonthDays(y, m)
  BY <1>1, MonthEnds
<1>4. CASE d < MonthDays(y, m)
  <2>1. date' = [y |-> y, m |-> m, d |-> d + 1]
    BY <1>1, <1>4 DEF NextDay
  <2>2. ModifiedJulianDay(y, m, d + 1) = dayno'
    BY <1>1, <1>2, <1>3, Tomorrow
  <2>3. d + 1 \in 1 .. MonthDays(y, m)
    BY <1>3, <1>4
  <2>4. date'.y = y /\ date'.m = m /\ date'.d = d + 1
    BY <2>1
  <2> HIDE DEF y, m, d
  <2> QED
    BY <1>1, <1>2, <1>3, <2>1, <2>2, <2>3, <2>4 DEF CalInv, DateOK
<1>5. CASE d = MonthDays(y, m) /\ m < 12
  <2>1. date' = [y |-> y, m |-> m + 1, d |-> 1]
    <3>1. ~ (date.d < MonthDays(date.y, date.m)) /\ date.m < 12
      BY <1>3, <1>5
    <3>2. date' = [date EXCEPT !.d = 1, !.m = @ + 1]
      BY <3>1 DEF NextDay
    <3>3. date = [y |-> date.y, m |-> date.m, d |-> date.d]
      BY <1>1
    <3>4. date' = [y |-> date.y, m |-> date.m + 1, d |-> 1]
      BY <3>2, <3>3
    <3> QED
      BY <3>4
  <2>2. ModifiedJulianDay(y, m + 1, 1) = dayno'
    BY <1>1, <1>2, <1>3, <1>5, Tomorrow
  <2>3. m + 1 \in 1 .. 12
    BY <1>1, <1>5
  <2>4. 1 \in 1 .. MonthDays(y, m + 1)
    BY <1>1, <2>3, MonthEnds
  <2>5. date'.y = y /\ date'.m = m + 1 /\ date'.d = 1
    BY <2>1
  <2> HIDE DEF y, m, d
  <2> QED
    BY <1>1, <1>2, <1>3, <2>1, <2>2, <2>3, <2>4, <2>5 DEF CalInv, DateOK
<1>6. CASE d = MonthDays(y, m) /\ m = 12
  <2>1. date' = [y |-> y + 1, m |-> 1, d |-> 1]
    BY <1>1, <1>3, <1>6 DEF NextDay
  <2>2. ModifiedJulianDay(y + 1, 1, 1) = dayno'
    BY <1>1, <1>2, <1>3, <1>6, Tomorrow
  <2>4. 1 \in 1 .. MonthDays(y + 1, 1) /\ y + 1 \in Int /\ y + 1 >= 1858
    BY <1>1, MonthEnds
  <2>5. date'.y = y + 1 /\ date'.m = 1 /\ date'.d = 1
    BY <2>1
  <2> HIDE DEF y, m, d
  <2> QED
    BY <1>1, <1>2, <1>3, <2>1, <2>2, <2>4, <2>5 DEF CalInv, DateOK
<1>7. m < 12 \/ m = 12
  BY <1>1
<1> QED
  BY <1>3, <1>4, <1>5, <1>6, <1>7

\* Every step of the walk keeps the invariant.
LEMMA CalKeeps == CalInv /\ [CalNext]_calVars => CalInv'
<1> SUFFICES ASSUME CalInv, [CalNext]_calVars PROVE CalInv'
  OBVIOUS
<1>1. CASE NextDay
  BY <1>1, NextDayKeeps
<1>2. CASE UNCHANGED <<dayno, date>>
  BY <1>2 DEF CalInv, DateOK
<1> QED
  BY <1>1, <1>2 DEF CalNext, calVars, WriteAngle

\* What converts one way and is a date converts back, and SetUTC takes it.
LEMMA CalInvConverts == CalInv => DatesConvert
<1> SUFFICES ASSUME CalInv PROVE DatesConvert
  OBVIOUS
<1> DEFINE y == date.y
           m == date.m
           d == date.d
<1>1. /\ y \in Int /\ y >= 1858 /\ y > -4799 /\ m \in 1 .. 12 /\ d \in 1 .. MonthDays(y, m)
      /\ date = [y |-> y, m |-> m, d |-> d]
      /\ dayno \in Nat /\ ModifiedJulianDay(y, m, d) = dayno
  BY DEF CalInv, DateOK
<1> HIDE DEF y, m, d
<1>2. Mjd2Cal(dayno) = date
  <2>1. ModifiedJulianDay(y, m, d) >= -100840
    BY <1>1
  <2> QED
    BY <1>1, <2>1, Back
<1>3. MonthDays(y, m) \in 28 .. 31
  BY <1>1, MonthEnds
<1>4. MonthDays(y, m) = mdays[m]
          + IF m = 2 /\ y % 4 = 0 /\ (y % 100 # 0 \/ y % 400 = 0) THEN 1 ELSE 0
  <2>1. mdays[m] \in Nat /\ mdays[2] = 28
    BY <1>1 DEF mdays
  <2> QED
    BY <2>1 DEF MonthDays, Leap
<1>5. SetUTCStatus(y, m, d) = 0
  <2>1. d \in Int /\ 1 <= d /\ d <= MonthDays(y, m)
    BY <1>1, <1>3
  <2> QED
    BY <1>1, <1>3, <1>4, <2>1 DEF SetUTCStatus
<1>6. SetUTCStatus(y, m, MonthDays(y, m) + 1) = -3
  BY <1>1, <1>3, <1>4 DEF SetUTCStatus
<1> QED
  BY <1>1, <1>2, <1>5, <1>6 DEF DatesConvert, y, m, d

\* DatesConvert for every day from the 17th of November 1858 on, without end:
\* Cal2JulianDay and Mjd2Cal agree with the Gregorian rules and with each other,
\* and SetUTC takes the date and refuses the day after the last of a month.
THEOREM EveryDayConverts == CalSpec => []DatesConvert
  BY CalStart, CalKeeps, CalInvConverts, PTL DEF CalSpec

\* The month of a leap second, counted from year 0.
Key(e) == 12 * changes[e][1] + changes[e][2]

\* The leap seconds of the table are in order, each as a January or a July begins.
LEMMA KeysRise ==
   /\ DOMAIN changes = 1 .. 28
   /\ Key(1) = 23665
   /\ \A e \in 1 .. 28 : changes[e][1] \in Int /\ changes[e][2] \in {1, 7}
   /\ \A e \in 1 .. 27 : Key(e) < Key(e + 1)
<1>1. DOMAIN changes = 1 .. 28
  BY DEF changes
<1>2. Key(1) = 23665
  BY DEF changes, Key
<1>3. ASSUME NEW e \in 1 .. 28 PROVE changes[e][1] \in Int /\ changes[e][2] \in {1, 7}
  BY SMTT(60) DEF changes
<1>4. ASSUME NEW e \in 1 .. 27 PROVE Key(e) < Key(e + 1)
  BY SMTT(60) DEF changes, Key
<1> QED
  BY <1>1, <1>2, <1>3, <1>4

\* From one day to the next the month stays or moves on by one, with a first day.
LEMMA DateKeys ==
  ASSUME CalInv, date.y >= 1972, NextDay
  PROVE  LET k == 12 * date.y + date.m
             l == 12 * date'.y + date'.m
         IN /\ k \in Int /\ l \in Int /\ k >= 23665
            /\ \/ l = k /\ date'.y = date.y /\ date'.m = date.m
               \/ l = k + 1 /\ date'.d = 1 /\ date'.m \in 1 .. 12 /\ date'.y \in Int
<1>1. /\ date.y \in Int /\ date.m \in 1 .. 12 /\ date = [y |-> date.y, m |-> date.m, d |-> date.d]
  BY DEF CalInv, DateOK
<1>2. date'.y \in Int /\ date'.m \in 1 .. 12
  BY NextDayKeeps DEF CalInv, DateOK
<1>3. CASE date.d < MonthDays(date.y, date.m)
  <2>1. date' = [date EXCEPT !.d = @ + 1]
    BY <1>3 DEF NextDay
  <2>2. date'.y = date.y /\ date'.m = date.m
    BY <1>1, <2>1
  <2> QED
    BY <1>1, <2>2
<1>4. CASE ~(date.d < MonthDays(date.y, date.m)) /\ date.m < 12
  <2>1. date' = [date EXCEPT !.d = 1, !.m = @ + 1]
    BY <1>4 DEF NextDay
  <2>2. date'.y = date.y /\ date'.m = date.m + 1 /\ date'.d = 1
    BY <1>1, <2>1
  <2> QED
    BY <1>1, <1>2, <2>2
<1>5. CASE ~(date.d < MonthDays(date.y, date.m)) /\ date.m = 12
  <2>1. date' = [y |-> date.y + 1, m |-> 1, d |-> 1]
    BY <1>5 DEF NextDay
  <2>2. date'.y = date.y + 1 /\ date'.m = 1 /\ date'.d = 1
    BY <1>1, <2>1
  <2> QED
    BY <1>1, <1>2, <1>5, <2>2
<1> QED
  BY <1>1, <1>3, <1>4, <1>5

\* The leap seconds up to a month, and the last of them.
Past(k) == {e \in DOMAIN changes : k >= Key(e)}

\* From 1972 on there is a last change that is not after the month.
LEMMA LastChange ==
  ASSUME NEW k \in Int, k >= Key(1)
  PROVE  \E p \in Past(k) : \A e \in Past(k) : e <= p
<1> DEFINE S == {28 - e : e \in Past(k)}
<1>1. 1 \in Past(k) /\ Past(k) \subseteq 1 .. 28
  <2>1. 1 \in DOMAIN changes
    BY KeysRise
  <2> QED
    BY <2>1, KeysRise DEF Past
<1>2. S \in SUBSET Nat /\ S # {}
  <2>1. \A e \in Past(k) : 28 - e \in Nat
    BY <1>1
  <2> QED
    BY <1>1, <2>1
<1>3. PICK s \in S : \A q \in S : s <= q
  <2> HIDE DEF S
  <2> QED
    BY <1>2, LeastOf
<1>4. PICK p \in Past(k) : s = 28 - p
  BY <1>3
<1>5. \A e \in Past(k) : e <= p
  <2> SUFFICES ASSUME NEW e \in Past(k) PROVE e <= p
    OBVIOUS
  <2>1. 28 - p <= 28 - e
    BY <1>3, <1>4
  <2> QED
    BY <1>1, <2>1
<1> QED
  BY <1>5

\* DeltaAT with its set of changes by name.
LEMMA DeltaOf ==
  ASSUME NEW y, NEW m, NEW P, P # {},
         P = {e \in DOMAIN changes : 12 * y + m >= 12 * changes[e][1] + changes[e][2]}
  PROVE  DeltaAT(y, m) = 9 + CHOOSE e \in P : \A k \in P : k <= e
  BY Zenon DEF DeltaAT

LastOf(k) == CHOOSE e \in Past(k) : \A l \in Past(k) : l <= e

\* A month, counted from year 0.
MonthNo(y, m) == 12 * y + m

\* DeltaAT counts the changes up to the last that is not after the month.
LEMMA DeltaIs ==
  ASSUME NEW y \in Int, NEW m \in Int, MonthNo(y, m) >= Key(1)
  PROVE  /\ LastOf(MonthNo(y, m)) \in Past(MonthNo(y, m))
         /\ \A e \in Past(MonthNo(y, m)) : e <= LastOf(MonthNo(y, m))
         /\ DeltaAT(y, m) = 9 + LastOf(MonthNo(y, m))
<1> DEFINE k == MonthNo(y, m)
           P == Past(k)
<1>1. k \in Int
  BY DEF MonthNo
<1>2. \E p \in P : \A e \in P : e <= p
  BY <1>1, LastChange
<1>3. P = {e \in DOMAIN changes : 12 * y + m >= 12 * changes[e][1] + changes[e][2]} /\ P # {}
  <2>1. P # {}
    BY <1>2
  <2> QED
    BY <2>1 DEF Past, Key, MonthNo
<1>5. LastOf(k) = CHOOSE e \in P : \A l \in P : l <= e
  BY DEF LastOf
<1> HIDE DEF P, k
<1>4. DeltaAT(y, m) = 9 + CHOOSE e \in P : \A l \in P : l <= e
  BY <1>3, DeltaOf
<1>6. LastOf(k) \in P /\ \A e \in P : e <= LastOf(k)
  BY <1>2, <1>5
<1> QED
  BY <1>4, <1>5, <1>6, Zenon DEF P, k

\* TAI-UTC is whole seconds from 1972 on.
LEMMA DeltaTyped ==
  ASSUME NEW y \in Int, NEW m \in Int, MonthNo(y, m) >= Key(1)
  PROVE  DeltaAT(y, m) \in Int
<1>1. LastOf(MonthNo(y, m)) \in 1 .. 28
  <2>1. LastOf(MonthNo(y, m)) \in Past(MonthNo(y, m))
    BY DeltaIs, Zenon
  <2> QED
    BY <2>1, KeysRise DEF Past
<1>2. DeltaAT(y, m) = 9 + LastOf(MonthNo(y, m))
  BY DeltaIs, Zenon
<1> QED
  BY <1>1, <1>2

\* From one month to the next TAI-UTC stays, or is one more and the month that
\* begins is a January or a July.
LEMMA DeltaSteps ==
  ASSUME NEW y \in Int, NEW m \in Int, NEW z \in Int, NEW n \in 1 .. 12,
    MonthNo(y, m) >= Key(1), MonthNo(z, n) = MonthNo(y, m) + 1
  PROVE  \/ DeltaAT(z, n) = DeltaAT(y, m)
         \/ DeltaAT(z, n) = DeltaAT(y, m) + 1 /\ n \in {1, 7}
<1> DEFINE k == MonthNo(y, m)
           l == MonthNo(z, n)
           p == LastOf(k)
           q == LastOf(l)
<1>3. /\ k \in Int /\ l \in Int /\ l = k + 1 /\ n \in Int
      /\ Key(1) \in Int /\ k >= Key(1) /\ l >= Key(1)
  BY KeysRise DEF MonthNo
<1>1. p \in Past(k) /\ (\A e \in Past(k) : e <= p) /\ DeltaAT(y, m) = 9 + p
  BY <1>3, DeltaIs, Zenon
<1>2. q \in Past(l) /\ (\A e \in Past(l) : e <= q) /\ DeltaAT(z, n) = 9 + q
  BY <1>3, DeltaIs, Zenon
<1>14. 12 * z + n = l
  BY DEF MonthNo
<1> HIDE DEF k, l, p, q
<1>4. /\ p \in 1 .. 28 /\ q \in 1 .. 28 /\ Key(p) \in Int /\ Key(q) \in Int
      /\ k >= Key(p) /\ l >= Key(q)
  BY <1>1, <1>2, KeysRise DEF Past, Key
<1>5. p <= q
  <2>1. p \in Past(l)
    <3>1. p \in DOMAIN changes /\ l >= Key(p)
      BY <1>3, <1>4, KeysRise
    <3> QED
      BY <3>1 DEF Past
  <2> QED
    BY <1>2, <2>1
<1>6. CASE p < q
  <2>1. q \notin Past(k)
    BY <1>1, <1>4, <1>6
  <2>2. Key(q) = l
    <3>1. q \in DOMAIN changes /\ ~ (k >= Key(q))
      BY <1>4, <2>1, KeysRise DEF Past
    <3> QED
      BY <1>3, <1>4, <3>1
  <2>3. q - 1 \in 1 .. 27 /\ Key(q - 1) < Key(q)
    <3>1. q - 1 \in 1 .. 27
      BY <1>4, <1>6
    <3>2. Key(q - 1) < Key((q - 1) + 1)
      BY <3>1, KeysRise
    <3>3. (q - 1) + 1 = q
      BY <1>4
    <3> QED
      BY <3>1, <3>2, <3>3
  <2>4. q - 1 \in Past(k)
    <3>1. Key(q - 1) \in Int /\ q - 1 \in DOMAIN changes
      BY <2>3, KeysRise DEF Key
    <3>2. k >= Key(q - 1)
      BY <1>3, <1>4, <2>2, <2>3, <3>1
    <3> QED
      BY <3>1, <3>2 DEF Past
  <2>5. q = p + 1
    BY <1>1, <1>4, <1>6, <2>4
  <2>6. n \in {1, 7}
    <3>1. 12 * changes[q][1] + changes[q][2] = 12 * z + n
      BY <1>14, <2>2 DEF Key
    <3>2. changes[q][1] \in Int /\ changes[q][2] \in {1, 7}
      BY <1>4, KeysRise
    <3> QED
      BY <3>1, <3>2
  <2> QED
    BY <1>1, <1>2, <1>4, <2>5, <2>6
<1>7. CASE p = q
  BY <1>1, <1>2, <1>7
<1> QED
  BY <1>4, <1>5, <1>6, <1>7

\* LeapSeconds for one step.
LEMMA LeapStep ==
  ASSUME CalInv, CalInv', dayno' # dayno, date.y >= 1972, [CalNext]_calVars
  PROVE  LET now == DeltaAT(date.y, date.m)
             next == DeltaAT(date'.y, date'.m)
         IN  /\ next - now \in {0, 1}
             /\ next # now => date'.d = 1 /\ date'.m \in {1, 7}
             /\ UTC2TAI(dayno).leap = next - now
<1> DEFINE now == DeltaAT(date.y, date.m)
           next == DeltaAT(date'.y, date'.m)
<1>1. NextDay /\ dayno' = dayno + 1
  BY DEF CalNext, calVars, WriteAngle, NextDay
<1>2. /\ MonthNo(date.y, date.m) >= Key(1) /\ date.y \in Int /\ date.m \in Int
      /\ date'.y \in Int /\ date'.m \in 1 .. 12
  BY <1>1, DateKeys, KeysRise DEF CalInv, DateOK, MonthNo
<1>3. now \in Int
  BY <1>2, DeltaTyped
<1>4. \/ next = now
      \/ next = now + 1 /\ date'.m \in {1, 7} /\ date'.d = 1
  <2>1. CASE date'.y = date.y /\ date'.m = date.m
    BY <2>1
  <2>2. CASE MonthNo(date'.y, date'.m) = MonthNo(date.y, date.m) + 1 /\ date'.d = 1
    BY <1>2, <2>2, DeltaSteps
  <2> QED
    BY <1>1, <2>1, <2>2, DateKeys DEF MonthNo
<1>5. UTC2TAI(dayno).leap = next - now
  <2>1. Mjd2Cal(dayno) = date
    BY CalInvConverts DEF DatesConvert
  <2>2. Mjd2Cal(dayno + 1) = date'
    <3>1. DatesConvert'
      BY CalInvConverts, PTL
    <3> QED
      BY <1>1, <3>1 DEF DatesConvert
  <2> QED
    BY <2>1, <2>2 DEF UTC2TAI
<1> HIDE DEF now, next
<1> QED
  BY <1>3, <1>4, <1>5 DEF now, next

\* LeapSeconds for every day from 1972 on, without end: TAI-UTC grows by whole
\* seconds one at a time, only where a January or a July begins, and UTC2TAI finds
\* the jump on the day that ends with it.
THEOREM LeapsStep == CalSpec => LeapSeconds
<1>1. CalInv /\ CalInv' /\ [CalNext]_calVars =>
        [dayno' # dayno /\ date.y >= 1972 =>
         LET now == DeltaAT(date.y, date.m)
             next == DeltaAT(date'.y, date'.m)
         IN  /\ next - now \in {0, 1}
             /\ next # now => date'.d = 1 /\ date'.m \in {1, 7}
             /\ UTC2TAI(dayno).leap = next - now]_calVars
  BY LeapStep
<1> QED
  BY <1>1, CalStart, CalKeeps, PTL DEF CalSpec, LeapSeconds

(* ------------------------- Texts of the angles -------------------------- *)

\* The reading of one character, for hours and for degrees; a digit taken into a number.
HourRead(st, ch) == Read(2, st, ch)
DegRead(st, ch) == Read(3, st, ch)
TakeDigit(n, c) == 10 * n + c[2]
Anything(k, x) == TRUE

HourLoop == INSTANCE Loops WITH Body <- HourRead, Keeps <- Anything
DegLoop == INSTANCE Loops WITH Body <- DegRead, Keeps <- Anything
DigitLoop == INSTANCE Loops WITH Body <- TakeDigit, Keeps <- Anything

\* How many digits the first part takes: hours, degrees.
Widths == {2, 3}
Char == {"digit", "colon", "dot"} \X Nat

\* What has become of st when the characters of str are read.
After(width, st, str) == FoldLeft(LAMBDA x, ch : Read(width, x, ch), st, str)
Number(ds) == FoldLeft(LAMBDA n, c : 10 * n + c[2], 0, ds)

\* FoldLeft is the same operator inside the instances.
LEMMA SameFolds ==
  /\ \A st, str : After(2, st, str) = HourLoop!FoldLeft(HourRead, st, str)
  /\ \A st, str : After(3, st, str) = DegLoop!FoldLeft(DegRead, st, str)
  /\ \A ds : Number(ds) = DigitLoop!FoldLeft(TakeDigit, 0, ds)
<1>1. \A st, str : After(2, st, str) = HourLoop!FoldLeft(HourRead, st, str)
  BY Zenon DEF After, HourRead, FoldLeft, MapThenFoldSet, HourLoop!FoldLeft,
               HourLoop!MapThenFoldSet, Max, HourLoop!Max
<1>2. \A st, str : After(3, st, str) = DegLoop!FoldLeft(DegRead, st, str)
  BY Zenon DEF After, DegRead, FoldLeft, MapThenFoldSet, DegLoop!FoldLeft,
               DegLoop!MapThenFoldSet, Max, DegLoop!Max
<1>3. \A ds : Number(ds) = DigitLoop!FoldLeft(TakeDigit, 0, ds)
  BY Zenon DEF Number, TakeDigit, FoldLeft, MapThenFoldSet, DigitLoop!FoldLeft,
               DigitLoop!MapThenFoldSet, Max, DigitLoop!Max
<1> QED
  BY <1>1, <1>2, <1>3

\* Reading goes on where it ended.
LEMMA ReadsOn ==
  ASSUME NEW width \in Widths, NEW st, NEW s \in Seq(Char), NEW t \in Seq(Char)
  PROVE  After(width, st, s \o t) = After(width, After(width, st, s), t)
<1>1. HourLoop!FoldLeft(HourRead, st, s \o t)
        = HourLoop!FoldLeft(HourRead, HourLoop!FoldLeft(HourRead, st, s), t)
  BY HourLoop!FoldGoesOn
<1>2. DegLoop!FoldLeft(DegRead, st, s \o t)
        = DegLoop!FoldLeft(DegRead, DegLoop!FoldLeft(DegRead, st, s), t)
  BY DegLoop!FoldGoesOn
<1> QED
  BY <1>1, <1>2, SameFolds DEF Widths

\* One character and two.
One(c) == <<c>>
Pair(c, d) == <<c, d>>

LEMMA ReadsFew ==
  ASSUME NEW width \in Widths
  PROVE  \A st, c, d : /\ After(width, st, One(c)) = Read(width, st, c)
                       /\ After(width, st, Pair(c, d)) = Read(width, Read(width, st, c), d)
<1> SUFFICES ASSUME NEW st, NEW c, NEW d
             PROVE  /\ After(width, st, <<c>>) = Read(width, st, c)
                    /\ After(width, st, <<c, d>>) = Read(width, Read(width, st, c), d)
  BY Zenon DEF One, Pair
<1>1. /\ DOMAIN <<c>> = 1 .. 1 /\ <<c>>[1] = c
      /\ DOMAIN <<c, d>> = 1 .. 2 /\ <<c, d>>[1] = c /\ <<c, d>>[2] = d
  OBVIOUS
<1>2. CASE width = 2
  <2>1. /\ HourLoop!FoldLeft(HourRead, st, <<c>>) = HourRead(st, c)
        /\ HourLoop!FoldLeft(HourRead, st, <<c, d>>) = HourRead(HourRead(st, c), d)
    BY <1>1, HourLoop!FoldFew
  <2> QED
    BY <1>2, <2>1, SameFolds DEF HourRead
<1>3. CASE width = 3
  <2>1. /\ DegLoop!FoldLeft(DegRead, st, <<c>>) = DegRead(st, c)
        /\ DegLoop!FoldLeft(DegRead, st, <<c, d>>) = DegRead(DegRead(st, c), d)
    BY <1>1, DegLoop!FoldFew
  <2> QED
    BY <1>3, <2>1, SameFolds DEF DegRead
<1> QED
  BY <1>2, <1>3 DEF Widths

LEMMA ReadsTwo ==
  ASSUME NEW width \in Widths
  PROVE  \A st, n :
           After(width, st, Two(n)) = Read(width, Read(width, st, Digit(n \div 10)), Digit(n % 10))
<1>1. \A st, c, d : After(width, st, Pair(c, d)) = Read(width, Read(width, st, c), d)
  BY ReadsFew
<1>2. \A n : Two(n) = Pair(Digit(n \div 10), Digit(n % 10))
  BY Zenon DEF Two, Pair
<1> QED
  BY <1>1, <1>2

\* The number some digits stand for.
LEMMA NumberIs ==
  ASSUME NEW ds \in Seq(Char)
  PROVE  /\ Len(ds) = 1 => Number(ds) = 10 * 0 + ds[1][2]
         /\ Len(ds) = 2 => Number(ds) = 10 * (10 * 0 + ds[1][2]) + ds[2][2]
         /\ Len(ds) = 3 =>
              Number(ds) = 10 * (10 * (10 * 0 + ds[1][2]) + ds[2][2]) + ds[3][2]
BY SameFolds, LenProperties, DigitLoop!FoldFew DEF TakeDigit

LEMMA Kinds ==
  /\ Colon \in Char /\ Dot \in Char /\ \A n \in Nat : Digit(n) \in Char
  /\ Colon[1] = "colon" /\ Dot[1] = "dot"
  /\ \A n : Digit(n)[1] = "digit" /\ Digit(n)[2] = n
  /\ Colon # Dot /\ \A n : Digit(n) # Colon /\ Digit(n) # Dot
<1>1. Colon[1] = "colon" /\ Dot[1] = "dot" /\ \A n : Digit(n)[1] = "digit" /\ Digit(n)[2] = n
  BY DEF Colon, Dot, Digit
<1>2. "colon" # "dot" /\ "digit" # "colon" /\ "digit" # "dot"
  OBVIOUS
<1>3. Colon \in Char /\ Dot \in Char /\ \A n \in Nat : Digit(n) \in Char
  BY DEF Colon, Dot, Digit, Char
<1> QED
  BY <1>1, <1>2, <1>3

\* What is written one character after the other.
LEMMA CharsAre ==
  /\ \A c \in Char : One(c) \in Seq(Char)
  /\ \A n \in Nat : One(Digit(n)) \in Seq(Char)
  /\ \A n \in Nat : n < 100 => Two(n) \in Seq(Char)
<1>1. \A c \in Char : One(c) \in Seq(Char)
  BY DEF One
<1>2. \A c, d \in Char : Pair(c, d) \in Seq(Char)
  BY DEF Pair
<1>3. \A n \in Nat : Digit(n) \in Char
  BY Kinds
<1>4. ASSUME NEW n \in Nat, n < 100
      PROVE  Two(n) \in Seq(Char)
  <2> DEFINE m == n \div 10
             k == n % 10
  <2>1. m \in Nat /\ k \in Nat
    OBVIOUS
  <2>2. Two(n) = Pair(Digit(m), Digit(k))
    BY DEF Two, Pair
  <2> HIDE DEF m, k
  <2> QED
    BY <1>2, <1>3, <2>1, <2>2
<1> QED
  BY <1>1, <1>3, <1>4

\* A state of the reader that has found no fault.
Readable(p, b, d, dot) == [part |-> p, buff |-> b, done |-> d, dot |-> dot, status |-> 0]

LEMMA ReadableIs ==
  ASSUME NEW p, NEW b, NEW d, NEW dot
  PROVE  LET st == Readable(p, b, d, dot)
         IN  /\ st.part = p /\ st.buff = b /\ st.done = d /\ st.dot = dot /\ st.status = 0
             /\ \A x : [st EXCEPT !.part = x] = Readable(x, b, d, dot)
             /\ \A x : [st EXCEPT !.buff = x] = Readable(p, x, d, dot)
             /\ \A x : [st EXCEPT !.done = x] = Readable(p, b, x, dot)
             /\ \A x : [st EXCEPT !.dot = x] = Readable(p, b, d, x)
<1> DEFINE st == Readable(p, b, d, dot)
<1>1. st.part = p /\ st.buff = b /\ st.done = d /\ st.dot = dot /\ st.status = 0
  BY DEF Readable
<1>2. \A x : [st EXCEPT !.part = x] = Readable(x, b, d, dot)
  BY DEF Readable
<1>3. \A x : [st EXCEPT !.buff = x] = Readable(p, x, d, dot)
  BY DEF Readable
<1>4. \A x : [st EXCEPT !.done = x] = Readable(p, b, x, dot)
  BY DEF Readable
<1>5. \A x : [st EXCEPT !.dot = x] = Readable(p, b, d, x)
  BY DEF Readable
<1> QED
  BY <1>1, <1>2, <1>3, <1>4, <1>5

\* The last part, and one that does not have its digits yet, takes one more.
HasRoom(width, p, b) == p = 2 \/ Len(b) # (IF p = 0 THEN width ELSE 2)

LEMMA DigitStep ==
  ASSUME NEW width \in Widths, NEW p \in Nat, p <= 2, NEW b, NEW d, NEW dot \in BOOLEAN, NEW n,
         HasRoom(width, p, b)
  PROVE  Read(width, Readable(p, b, d, dot), Digit(n)) = Readable(p, Append(b, Digit(n)), d, dot)
<1> DEFINE st == Readable(p, b, d, dot)
<1>1. st.part = p /\ st.buff = b /\ st.done = d /\ st.dot = dot /\ st.status = 0
  BY ReadableIs
<1>2. \A x : [st EXCEPT !.buff = x] = Readable(p, x, d, dot)
  BY ReadableIs
<1> HIDE DEF st
<1>3. ~ (~st.dot /\ st.part <= 1 /\ Len(st.buff) = (IF st.part = 0 THEN width ELSE 2))
  BY <1>1 DEF HasRoom
<1>4. Read(width, st, Digit(n)) = [st EXCEPT !.buff = Append(st.buff, Digit(n))]
  BY <1>1, <1>3, Kinds DEF Read
<1> QED
  BY <1>1, <1>2, <1>4 DEF st

LEMMA ColonStep ==
  ASSUME NEW width, NEW p \in Nat, p <= 1, NEW b, b # << >>, NEW d, NEW dot \in BOOLEAN, ~dot
  PROVE  Read(width, Readable(p, b, d, dot), Colon)
           = Readable(p + 1, << >>, Append(d, atof(b)), dot)
<1> DEFINE st == Readable(p, b, d, dot)
           r1 == [st EXCEPT !.buff = << >>]
           r2 == [r1 EXCEPT !.done = Append(d, atof(b))]
<1>1. st.part = p /\ st.buff = b /\ st.done = d /\ st.dot = dot /\ st.status = 0
  BY ReadableIs
<1>2. r1 = Readable(p, << >>, d, dot)
  BY ReadableIs
<1>3. \A x : [Readable(p, << >>, d, dot) EXCEPT !.done = x] = Readable(p, << >>, x, dot)
  BY ReadableIs
<1>4. \A x, n : [Readable(p, << >>, x, dot) EXCEPT !.part = n] = Readable(n, << >>, x, dot)
  BY ReadableIs
<1> HIDE DEF st
<1>5. Read(width, st, Colon) = Close(st)
  BY <1>1, Kinds DEF Read
<1>6. Close(st) = [r2 EXCEPT !.part = p + 1]
  BY <1>1 DEF Close
<1> HIDE DEF r1
<1> QED
  BY <1>2, <1>3, <1>4, <1>5, <1>6 DEF st

LEMMA DotStep ==
  ASSUME NEW width, NEW p \in Nat, p <= 2, NEW b, NEW d, NEW dot \in BOOLEAN, NEW seen \in BOOLEAN
  PROVE  ~dot /\ seen =>
           Read(width, Readable(p, b, d, dot), Dot) = Readable(p, Append(b, Dot), d, seen)
<1> DEFINE st == Readable(p, b, d, dot)
           r1 == [st EXCEPT !.dot = seen]
<1>1. st.part = p /\ st.buff = b /\ st.done = d /\ st.dot = dot /\ st.status = 0
  BY ReadableIs
<1>2. r1 = Readable(p, b, d, seen)
  BY ReadableIs
<1>3. \A x : [Readable(p, b, d, seen) EXCEPT !.buff = x] = Readable(p, x, d, seen)
  BY ReadableIs
<1> HIDE DEF st
<1>4. ~dot /\ seen => Read(width, st, Dot) = [r1 EXCEPT !.buff = Append(b, Dot)]
  BY <1>1, Kinds DEF Read
<1> HIDE DEF r1
<1> QED
  BY <1>2, <1>3, <1>4 DEF st

\* A character more in the buffer.
LEMMA Longer ==
  ASSUME NEW b \in Seq(Char), NEW c \in Char
  PROVE  /\ Append(b, c) \in Seq(Char) /\ Len(Append(b, c)) = Len(b) + 1 /\ Append(b, c) # << >>
         /\ Append(b, c)[Len(b) + 1] = c /\ \A j \in 1 .. Len(b) : Append(b, c)[j] = b[j]
BY AppendProperties

AddTwo(b, n) == Append(Append(b, Digit(n \div 10)), Digit(n % 10))
RoomForTwo(width, p, b) == p = 2 \/ Len(b) + 1 < (IF p = 0 THEN width ELSE 2)

\* Two digits are taken into a buffer that has room for them.
LEMMA TwoRead ==
  ASSUME NEW width \in Widths, NEW p \in Nat, p <= 2, NEW b \in Seq(Char), NEW d, NEW dot \in BOOLEAN,
         NEW n \in Nat, n < 100, RoomForTwo(width, p, b)
  PROVE  After(width, Readable(p, b, d, dot), Two(n))
           = Readable(p, AddTwo(b, n), d, dot)
<1> DEFINE m == n \div 10
           k == n % 10
           c == Append(b, Digit(m))
<1>1. m \in Nat /\ k \in Nat
  OBVIOUS
<1> HIDE DEF m, k
<1>2. Len(b) \in Nat /\ c \in Seq(Char) /\ Len(c) = Len(b) + 1
  BY <1>1, Longer, Kinds, LenProperties
<1>3. \A st : After(width, st, Two(n)) = Read(width, Read(width, st, Digit(m)), Digit(k))
  BY ReadsTwo DEF m, k
<1> HIDE DEF c
<1>4. HasRoom(width, p, b) /\ HasRoom(width, p, c)
  <2>1. \A l \in Nat : p = 2 \/ l + 1 < (IF p = 0 THEN width ELSE 2)
          => /\ p = 2 \/ l # (IF p = 0 THEN width ELSE 2)
             /\ p = 2 \/ l + 1 # (IF p = 0 THEN width ELSE 2)
    BY DEF Widths
  <2>2. Len(c) = Len(b) + 1 /\ Len(b) \in Nat
    BY <1>2
  <2> QED
    BY ONLY <2>1, <2>2, RoomForTwo(width, p, b) DEF HasRoom, RoomForTwo
<1>5. Read(width, Readable(p, b, d, dot), Digit(m)) = Readable(p, c, d, dot)
  BY <1>4, DigitStep DEF c
<1>6. Read(width, Readable(p, c, d, dot), Digit(k)) = Readable(p, Append(c, Digit(k)), d, dot)
  BY <1>4, DigitStep
<1> QED
  BY <1>3, <1>5, <1>6 DEF c, m, k, AddTwo

Zeros == <<Digit(0), Digit(0), Digit(0)>>

LEMMA ZerosAre ==
  /\ Zeros \in Seq(Char) /\ Len(Zeros) = 3
  /\ Zeros[1][2] = 0 /\ Zeros[2][2] = 0 /\ Zeros[3][2] = 0
<1>1. Digit(0) \in Char /\ Digit(0)[2] = 0
  BY Kinds
<1> QED
  BY <1>1 DEF Zeros

DotAt(b) == SelectInSeq(b, LAMBDA c : c = Dot)

\* What atof takes for whole units and what for thousandths.
LEMMA AtofParts ==
  ASSUME NEW b
  PROVE  atof(b) = 1000 * Number(IF DotAt(b) = 0 THEN b ELSE SubSeq(b, 1, DotAt(b) - 1))
                   + Number(SubSeq((IF DotAt(b) = 0 THEN << >>
                                    ELSE SubSeq(b, DotAt(b) + 1, Len(b))) \o Zeros, 1, 3))
BY Zenon DEF atof, DotAt, Number, Zeros

\* A buffer without a dot is a number of whole units.
LEMMA AtofWhole ==
  ASSUME NEW b \in Seq(Char), \A j \in 1 .. Len(b) : b[j] # Dot
  PROVE  atof(b) = 1000 * Number(b) + 0
<1>1. DotAt(b) = 0
  BY DEF SelectInSeq, DotAt
<1>2. << >> \o Zeros = Zeros /\ SubSeq(Zeros, 1, 3) = Zeros
  BY ZerosAre, ConcatEmptySeq, SubSeqFull
<1>3. Number(Zeros) = 0
  BY ZerosAre, NumberIs
<1>4. atof(b) = 1000 * Number(b) + Number(SubSeq(<< >> \o Zeros, 1, 3))
  <2> DEFINE whole == IF DotAt(b) = 0 THEN b ELSE SubSeq(b, 1, DotAt(b) - 1)
             rest == IF DotAt(b) = 0 THEN << >> ELSE SubSeq(b, DotAt(b) + 1, Len(b))
  <2>1. whole = b /\ rest = << >>
    BY <1>1
  <2>2. atof(b) = 1000 * Number(whole) + Number(SubSeq(rest \o Zeros, 1, 3))
    BY Zenon, AtofParts
  <2> HIDE DEF whole, rest
  <2> QED
    BY <2>1, <2>2
<1>5. Number(SubSeq(<< >> \o Zeros, 1, 3)) = 0
  BY <1>2, <1>3
<1> QED
  BY <1>4, <1>5

\* The first three characters.
LEMMA FirstThree ==
  ASSUME NEW str \in Seq(Char), \A j \in 1 .. 3 : str[j] \in Char
  PROVE  /\ SubSeq(str, 1, 3) \in Seq(Char) /\ Len(SubSeq(str, 1, 3)) = 3
         /\ SubSeq(str, 1, 3)[1] = str[1] /\ SubSeq(str, 1, 3)[2] = str[2]
         /\ SubSeq(str, 1, 3)[3] = str[3]
<1>1. 3 - 1 + 1 = 3 /\ \A j \in 1 .. 3 : 1 + j - 1 = j
  OBVIOUS
<1> QED
  BY <1>1, SubSeqProperties

\* A buffer with two digits before the dot and two or three behind it.
LEMMA AtofDot ==
  ASSUME NEW b \in Seq(Char), Len(b) \in {5, 6}, b[3] = Dot,
         \A j \in 1 .. Len(b) : j # 3 => b[j] # Dot
  PROVE  atof(b) = 1000 * (10 * (10 * 0 + b[1][2]) + b[2][2])
                   + (10 * (10 * (10 * 0 + b[4][2]) + b[5][2])
                      + (IF Len(b) = 6 THEN b[6][2] ELSE 0))
<1> DEFINE at == {j \in 1 .. Len(b) : b[j] = Dot}
           whole == SubSeq(b, 1, 2)
           rest == SubSeq(b, 4, Len(b))
           thousandths == SubSeq(rest \o Zeros, 1, 3)
<1>1. at = {3}
  OBVIOUS
<1>2. DotAt(b) = 3
  <2>1. Min({3}) = 3
    BY DEF Min
  <2>2. DotAt(b) = IF at # {} THEN Min(at) ELSE 0
    BY DEF DotAt, SelectInSeq
  <2> QED
    BY <1>1, <2>1, <2>2
<1>3. atof(b) = 1000 * Number(whole) + Number(thousandths)
  BY <1>2, AtofParts
<1>4. \A j \in 1 .. Len(b) : b[j] \in Char
  BY ElementOfSeq
<1>5. whole \in Seq(Char) /\ Len(whole) = 2 /\ whole[1] = b[1] /\ whole[2] = b[2]
  <2>1. \A j \in 1 .. 2 : b[j] \in Char
    BY <1>4
  <2> QED
    BY <2>1, SubSeqProperties
<1>6. /\ rest \in Seq(Char) /\ Len(rest) = Len(b) - 3 /\ rest[1] = b[4] /\ rest[2] = b[5]
      /\ Len(b) = 6 => rest[3] = b[6]
  <2>1. \A j \in 4 .. Len(b) : b[j] \in Char
    BY <1>4
  <2> QED
    BY <2>1, SubSeqProperties
<1> HIDE DEF whole, rest
<1>7. /\ rest \o Zeros \in Seq(Char) /\ Len(rest \o Zeros) = Len(b)
      /\ (rest \o Zeros)[1] = b[4] /\ (rest \o Zeros)[2] = b[5]
      /\ (rest \o Zeros)[3] = IF Len(b) = 6 THEN b[6] ELSE Zeros[1]
  <2> DEFINE both == rest \o Zeros
  <2>1. /\ both \in Seq(Char) /\ Len(both) = Len(rest) + 3
        /\ \A j \in 1 .. Len(rest) + 3 :
              both[j] = IF j <= Len(rest) THEN rest[j] ELSE Zeros[j - Len(rest)]
    <3>1. rest \in Seq(Char) /\ Zeros \in Seq(Char) /\ Len(Zeros) = 3
      BY <1>6, ZerosAre
    <3> HIDE DEF Zeros
    <3>2. /\ both \in Seq(Char) /\ Len(both) = Len(rest) + Len(Zeros)
          /\ \A j \in 1 .. Len(rest) + Len(Zeros) :
                both[j] = IF j <= Len(rest) THEN rest[j] ELSE Zeros[j - Len(rest)]
      BY ONLY <3>1, ConcatProperties
    <3> QED
      BY ONLY <3>1, <3>2
  <2> HIDE DEF both
  <2>2. Len(rest) \in {2, 3} /\ (Len(rest) = 3 <=> Len(b) = 6) /\ Len(b) = Len(rest) + 3
    BY <1>6
  <2>3. both[1] = rest[1] /\ both[2] = rest[2]
    BY <2>1, <2>2
  <2>4. both[3] = IF Len(b) = 6 THEN rest[3] ELSE Zeros[1]
    BY <2>1, <2>2
  <2> QED
    BY <1>6, <2>1, <2>2, <2>3, <2>4 DEF both
<1>8. /\ thousandths \in Seq(Char) /\ Len(thousandths) = 3
      /\ thousandths[1] = b[4] /\ thousandths[2] = b[5]
      /\ thousandths[3] = IF Len(b) = 6 THEN b[6] ELSE Zeros[1]
  <2> DEFINE both == rest \o Zeros
  <2> HIDE DEF both
  <2>1. /\ both \in Seq(Char) /\ Len(both) = Len(b) /\ both[1] = b[4] /\ both[2] = b[5]
        /\ both[3] = IF Len(b) = 6 THEN b[6] ELSE Zeros[1]
    BY <1>7 DEF both
  <2>2. \A j \in 1 .. 3 : j \in 1 .. Len(both)
    BY <2>1
  <2>3. \A j \in 1 .. 3 : both[j] \in Char
    BY ONLY <2>1, <2>2, ElementOfSeq
  <2>4. /\ thousandths \in Seq(Char) /\ Len(thousandths) = 3
        /\ thousandths[1] = both[1] /\ thousandths[2] = both[2] /\ thousandths[3] = both[3]
    <3>1. thousandths = SubSeq(both, 1, 3)
      BY DEF both, thousandths
    <3> HIDE DEF thousandths
    <3> QED
      BY ONLY <2>1, <2>3, <3>1, FirstThree
  <2> HIDE DEF thousandths
  <2> QED
    BY ONLY <2>1, <2>4
<1> HIDE DEF thousandths
<1>9. Number(whole) = 10 * (10 * 0 + b[1][2]) + b[2][2]
  BY <1>5, NumberIs
<1>10. Number(thousandths) = 10 * (10 * (10 * 0 + b[4][2]) + b[5][2])
                             + (IF Len(b) = 6 THEN b[6][2] ELSE 0)
  BY <1>8, NumberIs, ZerosAre
<1> QED
  BY <1>3, <1>9, <1>10

\* A state of the reader that has found no fault and begins a part.
Fresh(p, d, dot) == Readable(p, << >>, d, dot)

\* What is known of a buffer that has taken the two digits of n.
TwoDigits(b, n) ==
  /\ Len(b) = 2 /\ b[1][2] = n \div 10 /\ b[2][2] = n % 10
  /\ b # << >> /\ b[1] # Dot /\ b[2] # Dot
  /\ atof(b) = 1000 * n + 0

TakesTwo(width, p, d, dot, n) ==
  \E b \in Seq(Char) :
    After(width, Fresh(p, d, dot), Two(n)) = Readable(p, b, d, dot) /\ TwoDigits(b, n)

\* An empty buffer takes two digits: the number they write.
LEMMA TwoIn ==
  ASSUME NEW width \in Widths, NEW p \in Nat, p <= 2, NEW d, NEW dot \in BOOLEAN, NEW n \in Nat, n < 100
  PROVE  TakesTwo(width, p, d, dot, n)
<1>0. PICK e \in Seq(Char) : e = << >> /\ Len(e) = 0
  BY EmptySeq
<1> DEFINE x == Digit(n \div 10)
           y == Digit(n % 10)
           a == Append(e, x)
           b == Append(a, y)
<1>2. After(width, Readable(p, e, d, dot), Two(n)) = Readable(p, AddTwo(e, n), d, dot)
  <2>1. RoomForTwo(width, p, e)
    BY <1>0 DEF Widths, RoomForTwo
  <2> QED
    BY <2>1, TwoRead
<1>3. /\ x \in Char /\ y \in Char /\ x # Dot /\ y # Dot
      /\ x[2] = n \div 10 /\ y[2] = n % 10
  <2>1. n \div 10 \in Nat /\ n % 10 \in Nat
    OBVIOUS
  <2> QED
    BY <2>1, Kinds
<1>12. b = AddTwo(e, n)
  BY DEF AddTwo
<1> HIDE DEF x, y
<1>4. a \in Seq(Char) /\ Len(a) = 0 + 1 /\ a[0 + 1] = x
  BY <1>0, <1>3, Longer
<1> HIDE DEF a
<1>5. b \in Seq(Char) /\ Len(b) = 2 /\ b # << >> /\ b[2] = y /\ b[1] = x
  <2>1. /\ b \in Seq(Char) /\ Len(b) = Len(a) + 1 /\ b # << >> /\ b[Len(a) + 1] = y
        /\ \A j \in 1 .. Len(a) : b[j] = a[j]
    BY <1>3, <1>4, Longer
  <2> HIDE DEF b
  <2> QED
    BY ONLY <1>4, <2>1
<1> HIDE DEF b
<1>6. atof(b) = 1000 * Number(b) + 0
  <2>1. \A j \in 1 .. Len(b) : b[j] # Dot
    BY <1>3, <1>5
  <2> QED
    BY <1>5, <2>1, AtofWhole
<1>7. Number(b) = 10 * (10 * 0 + n \div 10) + (n % 10)
  BY <1>3, <1>5, NumberIs
<1>8. 10 * (10 * 0 + n \div 10) + (n % 10) = n
  OBVIOUS
<1>9. atof(b) = 1000 * n + 0
  BY <1>6, <1>7, <1>8
<1>10. TwoDigits(b, n)
  BY <1>3, <1>5, <1>9 DEF TwoDigits
<1>11. After(width, Fresh(p, d, dot), Two(n)) = Readable(p, b, d, dot)
  BY <1>0, <1>2, <1>12 DEF Fresh
<1> QED
  BY <1>5, <1>10, <1>11 DEF TakesTwo

\* A part of two digits and the colon behind it.
LEMMA PartRead ==
  ASSUME NEW width \in Widths, NEW p \in Nat, p <= 1, NEW d, NEW dot \in BOOLEAN, ~dot, NEW n \in Nat, n < 100
  PROVE  After(width, After(width, Fresh(p, d, dot), Two(n)), One(Colon))
           = Fresh(p + 1, Append(d, 1000 * n + 0), dot)
<1>1. PICK b \in Seq(Char) :
        After(width, Fresh(p, d, dot), Two(n)) = Readable(p, b, d, dot) /\ TwoDigits(b, n)
  <2>1. p <= 2
    OBVIOUS
  <2>2. TakesTwo(width, p, d, dot, n)
    BY <2>1, TwoIn
  <2> QED
    BY <2>2 DEF TakesTwo
<1>2. b # << >> /\ atof(b) = 1000 * n + 0
  BY <1>1 DEF TwoDigits
<1>3. Read(width, Readable(p, b, d, dot), Colon) = Fresh(p + 1, Append(d, atof(b)), dot)
  BY <1>2, ColonStep DEF Fresh
<1>4. After(width, Readable(p, b, d, dot), One(Colon)) = Read(width, Readable(p, b, d, dot), Colon)
  BY ReadsFew
<1> QED
  BY <1>1, <1>2, <1>3, <1>4

\* What is known of a buffer that has taken the two digits of n and the dot.
TwoAndDot(b, n) ==
  /\ Len(b) = 3 /\ b[1][2] = n \div 10 /\ b[2][2] = n % 10
  /\ b[1] # Dot /\ b[2] # Dot /\ b[3] = Dot

TakesSeconds(width, p, d, dot, n, seen) ==
  \E b \in Seq(Char) :
    /\ After(width, After(width, Fresh(p, d, dot), Two(n)), One(Dot)) = Readable(p, b, d, seen)
    /\ TwoAndDot(b, n)

\* The whole seconds and the dot behind them.
LEMMA SecondsRead ==
  ASSUME NEW width \in Widths, NEW p \in Nat, p <= 2, NEW d, NEW dot \in BOOLEAN,
         NEW seen \in BOOLEAN, ~dot, seen, NEW n \in Nat, n < 100
  PROVE  TakesSeconds(width, p, d, dot, n, seen)
<1>1. PICK a \in Seq(Char) :
        After(width, Fresh(p, d, dot), Two(n)) = Readable(p, a, d, dot) /\ TwoDigits(a, n)
  <2>1. TakesTwo(width, p, d, dot, n)
    BY TwoIn
  <2> QED
    BY <2>1 DEF TakesTwo
<1> DEFINE b == Append(a, Dot)
<1>2. /\ b \in Seq(Char) /\ Len(b) = Len(a) + 1 /\ b[Len(a) + 1] = Dot
      /\ \A j \in 1 .. Len(a) : b[j] = a[j]
  BY Longer, Kinds
<1>3. Read(width, Readable(p, a, d, dot), Dot) = Readable(p, b, d, seen)
  BY DotStep
<1>4. After(width, Readable(p, a, d, dot), One(Dot)) = Read(width, Readable(p, a, d, dot), Dot)
  BY ReadsFew
<1> HIDE DEF b
<1>5. TwoAndDot(b, n)
  BY <1>1, <1>2 DEF TwoDigits, TwoAndDot
<1> QED
  BY <1>1, <1>2, <1>3, <1>4, <1>5 DEF TakesSeconds


\* A buffer after one more digit, and after two more.
AddOne(b, n) == Append(b, Digit(n))

LEMMA AddsOne ==
  ASSUME NEW b \in Seq(Char), NEW n \in Nat
  PROVE  /\ AddOne(b, n) \in Seq(Char) /\ Len(AddOne(b, n)) = Len(b) + 1 /\ AddOne(b, n) # << >>
         /\ AddOne(b, n)[Len(b) + 1][2] = n /\ AddOne(b, n)[Len(b) + 1] # Dot
         /\ \A j \in 1 .. Len(b) : AddOne(b, n)[j] = b[j]
<1> DEFINE x == Digit(n)
<1>1. x \in Char /\ x # Dot /\ x[2] = n
  BY Kinds
<1>2. AddOne(b, n) = Append(b, x)
  BY DEF AddOne
<1> HIDE DEF x
<1> QED
  BY <1>1, <1>2, Longer

LEMMA AddsTwo ==
  ASSUME NEW b \in Seq(Char), NEW n \in Nat, n < 100
  PROVE  LET c == AddTwo(b, n)
         IN  /\ c \in Seq(Char) /\ Len(c) = Len(b) + 2 /\ c # << >>
             /\ c[Len(b) + 1][2] = n \div 10 /\ c[Len(b) + 2][2] = n % 10
             /\ c[Len(b) + 1] # Dot /\ c[Len(b) + 2] # Dot
             /\ \A j \in 1 .. Len(b) : c[j] = b[j]
<1> DEFINE m == n \div 10
           k == n % 10
           a == AddOne(b, m)
           c == AddOne(a, k)
<1>1. m \in Nat /\ k \in Nat
  OBVIOUS
<1>2. c = AddTwo(b, n)
  BY DEF AddOne, AddTwo
<1> HIDE DEF m, k
<1>3. /\ a \in Seq(Char) /\ Len(a) = Len(b) + 1
      /\ a[Len(b) + 1][2] = m /\ a[Len(b) + 1] # Dot
      /\ \A j \in 1 .. Len(b) : a[j] = b[j]
  BY <1>1, AddsOne
<1>4. /\ c \in Seq(Char) /\ Len(c) = Len(a) + 1 /\ c # << >>
      /\ c[Len(a) + 1][2] = k /\ c[Len(a) + 1] # Dot
      /\ \A j \in 1 .. Len(a) : c[j] = a[j]
  BY <1>1, <1>3, AddsOne
<1> HIDE DEF a, c
<1>5. Len(b) \in Nat
  BY LenProperties
<1>6. /\ c \in Seq(Char) /\ Len(c) = Len(b) + 2 /\ c # << >>
      /\ c[Len(b) + 1][2] = m /\ c[Len(b) + 2][2] = k
      /\ c[Len(b) + 1] # Dot /\ c[Len(b) + 2] # Dot
      /\ \A j \in 1 .. Len(b) : c[j] = b[j]
  BY ONLY <1>3, <1>4, <1>5
<1> QED
  BY <1>2, <1>6 DEF m, k

\* The last part takes as many digits as there are.
LEMMA LastTwo ==
  ASSUME NEW width \in Widths, NEW p \in Nat, 1 < p, p < 3, NEW b \in Seq(Char), NEW d,
         NEW dot \in BOOLEAN
  PROVE  \A n \in Nat : n < 100 =>
           After(width, Readable(p, b, d, dot), Two(n)) = Readable(p, AddTwo(b, n), d, dot)
<1>1. RoomForTwo(width, p, b)
  BY DEF RoomForTwo
<1> QED
  BY <1>1, TwoRead

\* The characters of str end the seconds in the buffer; they are then v thousandths.
Ends(width, p, b, d, dot, str, v) ==
  \E c \in Seq(Char) :
    After(width, Readable(p, b, d, dot), str) = Readable(p, c, d, dot) /\ atof(c) = v

\* Hundredths behind the dot.
LEMMA HundredthsRead ==
  ASSUME NEW width \in Widths, NEW p \in Nat, 1 < p, p < 3, NEW b \in Seq(Char), NEW d,
         NEW dot \in BOOLEAN, NEW s \in Nat, s < 100, TwoAndDot(b, s), NEW h \in Nat, h < 100
  PROVE  Ends(width, p, b, d, dot, Two(h), 1000 * s + 10 * h)
<1> DEFINE c == AddTwo(b, h)
<1>1. After(width, Readable(p, b, d, dot), Two(h)) = Readable(p, c, d, dot)
  BY LastTwo
<1>2. /\ c \in Seq(Char) /\ Len(c) = Len(b) + 2
      /\ c[Len(b) + 1][2] = h \div 10 /\ c[Len(b) + 2][2] = h % 10
      /\ c[Len(b) + 1] # Dot /\ c[Len(b) + 2] # Dot
      /\ \A j \in 1 .. Len(b) : c[j] = b[j]
  BY AddsTwo
<1> HIDE DEF c
<1>3. /\ Len(c) = 5 /\ c[3] = Dot
      /\ c[1] = b[1] /\ c[2] = b[2]
      /\ c[4][2] = h \div 10 /\ c[5][2] = h % 10
      /\ c[1] # Dot /\ c[2] # Dot /\ c[4] # Dot /\ c[5] # Dot
  BY <1>2 DEF TwoAndDot
<1>4. \A j \in 1 .. Len(c) : j # 3 => c[j] # Dot
  <2>1. \A j \in 1 .. 5 : j # 3 => j = 1 \/ j = 2 \/ j = 4 \/ j = 5
    OBVIOUS
  <2> QED
    BY <1>3, <2>1
<1>5. atof(c) = 1000 * (10 * (10 * 0 + c[1][2]) + c[2][2])
                + (10 * (10 * (10 * 0 + c[4][2]) + c[5][2])
                   + (IF Len(c) = 6 THEN c[6][2] ELSE 0))
  BY ZenonT(60), <1>2, <1>3, <1>4, AtofDot
<1>6. c[1][2] = s \div 10 /\ c[2][2] = s % 10
  BY <1>3 DEF TwoAndDot
<1>7. atof(c) = 1000 * (10 * (10 * 0 + (s \div 10)) + (s % 10))
                + (10 * (10 * (10 * 0 + (h \div 10)) + (h % 10)) + 0)
  BY <1>3, <1>5, <1>6
<1>8. 1000 * (10 * (10 * 0 + (s \div 10)) + (s % 10))
        + (10 * (10 * (10 * 0 + (h \div 10)) + (h % 10)) + 0) = 1000 * s + 10 * h
  OBVIOUS
<1>9. atof(c) = 1000 * s + 10 * h
  BY <1>7, <1>8
<1> QED
  BY <1>1, <1>2, <1>9 DEF Ends


\* Thousandths behind the dot.
LEMMA ThousandthsRead ==
  ASSUME NEW width \in Widths, NEW p \in Nat, 1 < p, p < 3, NEW b \in Seq(Char), NEW d,
         NEW dot \in BOOLEAN, NEW s \in Nat, s < 100, TwoAndDot(b, s), NEW f \in Nat, f < 1000
  PROVE  Ends(width, p, b, d, dot, Thousandths(f), 1000 * s + f)
<1> DEFINE m == f \div 100
           r == f % 100
<1>1. m \in Nat /\ r \in Nat /\ r < 100 /\ 100 * m + r = f
  OBVIOUS
<1>2. Thousandths(f) = One(Digit(m)) \o Two(r)
  BY DEF Thousandths, One
<1> HIDE DEF m, r
<1>0. PICK a : a = AddOne(b, m)
  OBVIOUS
<1> DEFINE c == AddTwo(a, r)
<1>3. One(Digit(m)) \in Seq(Char) /\ Two(r) \in Seq(Char)
  BY <1>1, CharsAre
<1>4. After(width, Readable(p, b, d, dot), One(Digit(m))) = Readable(p, a, d, dot)
  <2>1. HasRoom(width, p, b)
    BY DEF HasRoom
  <2>2. Read(width, Readable(p, b, d, dot), Digit(m)) = Readable(p, Append(b, Digit(m)), d, dot)
    BY <2>1, DigitStep
  <2> QED
    BY <1>0, <2>2, ReadsFew DEF AddOne
<1>5. /\ a \in Seq(Char) /\ Len(a) = Len(b) + 1
      /\ a[Len(b) + 1][2] = m /\ a[Len(b) + 1] # Dot
      /\ \A j \in 1 .. Len(b) : a[j] = b[j]
  BY ZenonT(60), <1>0, <1>1, AddsOne
<1>6. After(width, Readable(p, a, d, dot), Two(r)) = Readable(p, c, d, dot)
  <2>1. a \in Seq(Char)
    BY <1>5
  <2>2. \A n \in Nat : n < 100 =>
          After(width, Readable(p, a, d, dot), Two(n)) = Readable(p, AddTwo(a, n), d, dot)
    BY <2>1, LastTwo
  <2> QED
    BY <1>1, <2>2
<1>7. /\ c \in Seq(Char) /\ Len(c) = Len(a) + 2
      /\ c[Len(a) + 1][2] = r \div 10 /\ c[Len(a) + 2][2] = r % 10
      /\ c[Len(a) + 1] # Dot /\ c[Len(a) + 2] # Dot
      /\ \A j \in 1 .. Len(a) : c[j] = a[j]
  <2>1. a \in Seq(Char) /\ r \in Nat /\ r < 100
    BY <1>1, <1>5
  <2> QED
    BY ONLY <2>1, AddsTwo
<1> HIDE DEF c
<1>8. Len(a) = 4 /\ a[1] = b[1] /\ a[2] = b[2] /\ a[3] = Dot /\ a[4][2] = m /\ a[4] # Dot
  BY <1>5 DEF TwoAndDot
<1>9. /\ Len(c) = 6 /\ c[3] = Dot
      /\ c[1] = b[1] /\ c[2] = b[2]
      /\ c[4][2] = m /\ c[5][2] = r \div 10 /\ c[6][2] = r % 10
      /\ c[4] # Dot /\ c[5] # Dot /\ c[6] # Dot
  BY <1>7, <1>8
<1>10. /\ c[1][2] = s \div 10 /\ c[2][2] = s % 10
       /\ c[1] # Dot /\ c[2] # Dot
  BY <1>9 DEF TwoAndDot
<1>11. \A j \in 1 .. Len(c) : j # 3 => c[j] # Dot
  <2>1. \A j \in 1 .. 6 : j # 3 => j = 1 \/ j = 2 \/ j = 4 \/ j = 5 \/ j = 6
    OBVIOUS
  <2> QED
    BY <1>9, <1>10, <2>1
<1>12. atof(c) = 1000 * (10 * (10 * 0 + c[1][2]) + c[2][2])
                 + (10 * (10 * (10 * 0 + c[4][2]) + c[5][2])
                    + (IF Len(c) = 6 THEN c[6][2] ELSE 0))
  <2>1. c \in Seq(Char) /\ Len(c) \in {5, 6} /\ c[3] = Dot
    BY <1>7, <1>9
  <2> QED
    BY ONLY <1>11, <2>1, AtofDot
<1>13. atof(c) = 1000 * (10 * (10 * 0 + (s \div 10)) + (s % 10))
                 + (10 * (10 * (10 * 0 + m) + (r \div 10)) + (r % 10))
  BY <1>9, <1>10, <1>12
<1>14. /\ 10 * (10 * 0 + (s \div 10)) + (s % 10) = s
       /\ 10 * (10 * (10 * 0 + m) + (r \div 10)) + (r % 10) = f
  BY <1>1
<1>15. atof(c) = 1000 * s + f
  BY <1>13, <1>14
<1> QED
  BY <1>2, <1>3, <1>4, <1>6, <1>7, <1>15, ReadsOn DEF Ends


\* Degrees are written with as many digits as they need; the colon ends them.
LEMMA DegreesRead ==
  ASSUME NEW width \in Widths, 2 < width, NEW p \in Nat, p < 1, NEW d, NEW dot \in BOOLEAN, ~dot,
         NEW n \in Nat, n < 1000
  PROVE  /\ Unpadded(n) \in Seq(Char)
         /\ After(width, After(width, Fresh(p, d, dot), Unpadded(n)), One(Colon))
              = Fresh(p + 1, Append(d, 1000 * n + 0), dot)
<1>1. CASE n < 10
  <2>1. Unpadded(n) = One(Digit(n))
    BY <1>1 DEF Unpadded, One
  <2>2. PICK e \in Seq(Char) : e = << >> /\ Len(e) = 0
    BY EmptySeq
  <2> DEFINE b == AddOne(e, n)
  <2>3. After(width, Fresh(p, d, dot), One(Digit(n))) = Readable(p, b, d, dot)
    <3>1. HasRoom(width, p, e)
      BY <2>2 DEF HasRoom
    <3>2. Read(width, Readable(p, e, d, dot), Digit(n)) = Readable(p, Append(e, Digit(n)), d, dot)
      BY <3>1, DigitStep
    <3> QED
      BY <2>2, <3>2, ReadsFew DEF AddOne, Fresh
  <2>4. b \in Seq(Char) /\ Len(b) = 1 /\ b # << >> /\ b[1][2] = n /\ b[1] # Dot
    <3>1. /\ b \in Seq(Char) /\ Len(b) = Len(e) + 1 /\ b # << >>
          /\ b[Len(e) + 1][2] = n /\ b[Len(e) + 1] # Dot
      BY AddsOne
    <3> HIDE DEF b
    <3> QED
      BY <2>2, <3>1
  <2> HIDE DEF b
  <2>5. atof(b) = 1000 * Number(b) + 0
    BY <2>4, AtofWhole
  <2>6. atof(b) = 1000 * n + 0
    BY <2>4, <2>5, NumberIs
  <2>7. Read(width, Readable(p, b, d, dot), Colon) = Fresh(p + 1, Append(d, atof(b)), dot)
    BY <2>4, ColonStep DEF Fresh
  <2>8. After(width, Readable(p, b, d, dot), One(Colon)) = Read(width, Readable(p, b, d, dot), Colon)
    BY ReadsFew
  <2> QED
    BY <2>1, <2>3, <2>6, <2>7, <2>8, CharsAre
<1>2. CASE 10 <= n /\ n < 100
  <2>1. Unpadded(n) = Two(n)
    BY <1>2 DEF Unpadded
  <2> QED
    BY <1>2, <2>1, PartRead, CharsAre
<1>3. CASE 100 <= n
  <2> DEFINE m == n \div 100
             r == n % 100
  <2>1. m \in Nat /\ r \in Nat /\ r < 100 /\ 100 * m + r = n
    OBVIOUS
  <2>2. Unpadded(n) = One(Digit(m)) \o Two(r)
    BY <1>3 DEF Unpadded, One
  <2> HIDE DEF m, r
  <2>3. One(Digit(m)) \in Seq(Char) /\ Two(r) \in Seq(Char)
    BY <2>1, CharsAre
  <2>4. PICK e \in Seq(Char) : e = << >> /\ Len(e) = 0
    BY EmptySeq
  <2>5. PICK a : a = AddOne(e, m)
    OBVIOUS
  <2> DEFINE b == AddTwo(a, r)
  <2>6. After(width, Fresh(p, d, dot), One(Digit(m))) = Readable(p, a, d, dot)
    <3>1. HasRoom(width, p, e)
      BY <2>4 DEF HasRoom
    <3>2. Read(width, Readable(p, e, d, dot), Digit(m)) = Readable(p, Append(e, Digit(m)), d, dot)
      BY <3>1, DigitStep
    <3> QED
      BY <2>4, <2>5, <3>2, ReadsFew DEF AddOne, Fresh
  <2>7. a \in Seq(Char) /\ Len(a) = 1 /\ a[1][2] = m /\ a[1] # Dot
    <3>1. a \in Seq(Char) /\ Len(a) = Len(e) + 1 /\ a[Len(e) + 1][2] = m /\ a[Len(e) + 1] # Dot
      BY ZenonT(60), <2>1, <2>5, AddsOne
    <3> QED
      BY <2>4, <3>1
  <2>8. After(width, Readable(p, a, d, dot), Two(r)) = Readable(p, b, d, dot)
    <3>1. RoomForTwo(width, p, a)
      BY <2>7 DEF RoomForTwo
    <3> QED
      BY <2>1, <2>7, <3>1, TwoRead
  <2>9. /\ b \in Seq(Char) /\ Len(b) = Len(a) + 2 /\ b # << >>
        /\ b[Len(a) + 1][2] = r \div 10 /\ b[Len(a) + 2][2] = r % 10
        /\ b[Len(a) + 1] # Dot /\ b[Len(a) + 2] # Dot
        /\ \A j \in 1 .. Len(a) : b[j] = a[j]
    BY <2>1, <2>7, AddsTwo
  <2> HIDE DEF b
  <2>10. /\ Len(b) = 3 /\ b[1][2] = m /\ b[2][2] = r \div 10 /\ b[3][2] = r % 10
         /\ b[1] # Dot /\ b[2] # Dot /\ b[3] # Dot
    BY <2>7, <2>9
  <2>11. atof(b) = 1000 * Number(b) + 0
    <3>1. \A j \in 1 .. Len(b) : b[j] # Dot
      BY <2>10
    <3> QED
      BY <2>9, <3>1, AtofWhole
  <2>12. Number(b) = 10 * (10 * (10 * 0 + m) + (r \div 10)) + (r % 10)
    BY <2>9, <2>10, NumberIs
  <2>13. 10 * (10 * (10 * 0 + m) + (r \div 10)) + (r % 10) = n
    BY <2>1
  <2>14. atof(b) = 1000 * n + 0
    BY <2>11, <2>12, <2>13
  <2>15. Read(width, Readable(p, b, d, dot), Colon) = Fresh(p + 1, Append(d, atof(b)), dot)
    BY <2>9, ColonStep DEF Fresh
  <2>16. After(width, Readable(p, b, d, dot), One(Colon)) = Read(width, Readable(p, b, d, dot), Colon)
    BY ReadsFew
  <2>17. One(Digit(m)) \o Two(r) \in Seq(Char)
    BY <2>3, ConcatProperties
  <2>18. After(width, Fresh(p, d, dot), Unpadded(n)) = Readable(p, b, d, dot)
    BY <2>2, <2>3, <2>6, <2>8, ReadsOn
  <2> QED
    BY <2>2, <2>14, <2>15, <2>16, <2>17, <2>18
<1> QED
  BY <1>1, <1>2, <1>3


\* What has been read of a text: its first part, its minutes and its seconds.
TextTaken(width, p, d, dot, str, u, m, v, seen) ==
  \E c \in Seq(Char) :
    /\ After(width, Fresh(p, d, dot), str)
         = Readable(p + 1 + 1, c, Append(Append(d, 1000 * u + 0), 1000 * m + 0), seen)
    /\ atof(c) = v

\* The characters U and the colon are read as u, the first part.
FirstRead(width, p, d, dot, U, u) ==
  After(width, After(width, Fresh(p, d, dot), U), One(Colon)) = Fresh(p + 1, Append(d, 1000 * u + 0), dot)

\* The characters F, behind s seconds and the dot, make v thousandths.
LastRead(width, p, s, seen, F, v) ==
  \A b \in Seq(Char) : \A x : TwoAndDot(b, s) => Ends(width, p + 1 + 1, b, x, seen, F, v)

WholeText(U, m, s, F) ==
  U \o One(Colon) \o Two(m) \o One(Colon) \o Two(s) \o One(Dot) \o F

\* A whole text, once it is known how its first part and its fraction are read.
LEMMA TextRead ==
  ASSUME NEW width \in Widths, NEW p \in Nat, p < 1, NEW d, NEW dot \in BOOLEAN,
         NEW seen \in BOOLEAN, ~dot, seen,
         NEW u \in Nat, NEW m \in Nat, m < 100, NEW s \in Nat, s < 100, NEW v,
         NEW U \in Seq(Char), NEW F \in Seq(Char),
         FirstRead(width, p, d, dot, U, u), LastRead(width, p, s, seen, F, v)
  PROVE  TextTaken(width, p, d, dot, WholeText(U, m, s, F), u, m, v, seen)
<1> DEFINE t1 == U \o One(Colon)
           t2 == t1 \o Two(m)
           t3 == t2 \o One(Colon)
           t4 == t3 \o Two(s)
           t5 == t4 \o One(Dot)
           x1 == Append(d, 1000 * u + 0)
           x2 == Append(x1, 1000 * m + 0)
           st == Fresh(p, d, dot)
<1>1. /\ One(Colon) \in Seq(Char) /\ One(Dot) \in Seq(Char)
      /\ Two(m) \in Seq(Char) /\ Two(s) \in Seq(Char)
  BY CharsAre, Kinds
<1>2. \A a, b \in Seq(Char) : a \o b \in Seq(Char)
  BY ConcatProperties
<1> HIDE DEF st, x1, x2
<1>0. \A a, b \in Seq(Char) : \A x : After(width, x, a \o b) = After(width, After(width, x, a), b)
  BY ReadsOn
<1>3. t1 \in Seq(Char) /\ After(width, st, t1) = Fresh(p + 1, x1, dot)
  <2>1. After(width, st, t1) = After(width, After(width, st, U), One(Colon))
    BY <1>0, <1>1
  <2> QED
    BY <1>1, <1>2, <2>1 DEF st, x1, FirstRead
<1> HIDE DEF t1
<1>4. t2 \in Seq(Char) /\ After(width, st, t2) = After(width, Fresh(p + 1, x1, dot), Two(m))
  BY <1>1, <1>2, <1>3, ReadsOn
<1> HIDE DEF t2
<1>5. t3 \in Seq(Char) /\ After(width, st, t3) = Fresh(p + 1 + 1, x2, dot)
  <2>1. After(width, st, t3) = After(width, After(width, Fresh(p + 1, x1, dot), Two(m)), One(Colon))
    BY <1>1, <1>4, ReadsOn
  <2>2. PICK q \in Nat : q = p + 1 /\ q <= 1
    OBVIOUS
  <2>3. After(width, After(width, Fresh(q, x1, dot), Two(m)), One(Colon)) = Fresh(q + 1, x2, dot)
    <3>1. q <= 1
      BY <2>2
    <3> QED
      BY <3>1, PartRead DEF x2
  <2> QED
    BY <1>1, <1>2, <1>4, <2>1, <2>2, <2>3
<1> HIDE DEF t3
<1>6. PICK q \in Nat : q = p + 1 + 1 /\ q <= 2
  OBVIOUS
<1>7. t4 \in Seq(Char) /\ After(width, st, t4) = After(width, Fresh(q, x2, dot), Two(s))
  BY <1>1, <1>2, <1>5, <1>6, ReadsOn
<1> HIDE DEF t4
<1>8. PICK b \in Seq(Char) :
        /\ After(width, After(width, Fresh(q, x2, dot), Two(s)), One(Dot)) = Readable(q, b, x2, seen)
        /\ TwoAndDot(b, s)
  <2>1. TakesSeconds(width, q, x2, dot, s, seen)
    BY <1>6, SecondsRead
  <2> QED
    BY <2>1 DEF TakesSeconds
<1>9. t5 \in Seq(Char) /\ After(width, st, t5) = Readable(q, b, x2, seen)
  <2>1. After(width, st, t5) = After(width, After(width, st, t4), One(Dot))
    BY <1>0, <1>1, <1>7
  <2> QED
    BY <1>1, <1>2, <1>7, <1>8, <2>1
<1> HIDE DEF t5
<1>10. PICK c \in Seq(Char) :
         After(width, Readable(q, b, x2, seen), F) = Readable(q, c, x2, seen) /\ atof(c) = v
  <2>1. Ends(width, q, b, x2, seen, F, v)
    BY <1>6, <1>8 DEF LastRead
  <2> QED
    BY <2>1 DEF Ends
<1>11. After(width, st, t5 \o F) = Readable(q, c, x2, seen)
  <2>1. After(width, st, t5 \o F) = After(width, After(width, st, t5), F)
    BY ONLY <1>0, <1>9, F \in Seq(Char)
  <2> QED
    BY <1>9, <1>10, <2>1
<1>12. TextTaken(width, p, d, dot, t5 \o F, u, m, v, seen)
  <2>1. After(width, st, t5 \o F) = Readable(p + 1 + 1, c, x2, seen) /\ atof(c) = v
    BY <1>6, <1>10, <1>11
  <2> QED
    BY ONLY <2>1, c \in Seq(Char) DEF TextTaken, st, x1, x2
<1> QED
  BY <1>12 DEF WholeText, t1, t2, t3, t4, t5


\* The parts of a text are put together.
TwoDone(p, d, x, y) == p = 2 /\ d = Append(Append(<< >>, x), y)

LEMMA TotalIs ==
  ASSUME NEW x \in Int, NEW y \in Int, NEW c, atof(c) \in Int, NEW seen, NEW p, NEW d,
         TwoDone(p, d, x, y)
  PROVE  /\ Readable(p, c, d, seen).status = 0
         /\ Total(Readable(p, c, d, seen)) = 3600 * x + 60 * y + atof(c)
<1> DEFINE st == Readable(p, c, d, seen)
<1>1. st.part = p /\ st.buff = c /\ st.done = d /\ st.status = 0
  BY ReadableIs
<1> HIDE DEF st
<1>2. PICK v : v = atof(c) /\ v \in Int
  OBVIOUS
<1>3. d \in Seq(Int) /\ Len(d) = 2 /\ d[1] = x /\ d[2] = y
  BY DEF TwoDone
<1>4. PICK e : e = <<v>> /\ e \in Seq(Int) /\ Len(e) = 1 /\ e[1] = v
  <2>1. <<v>> \in Seq(Int) /\ Len(<<v>>) = 1 /\ <<v>>[1] = v
    BY <1>2
  <2> QED
    BY <2>1
<1>5. PICK w : w = d \o e
  OBVIOUS
<1>6. w[1] = x /\ w[2] = y /\ w[3] = v
  <2>1. \A j \in 1 .. Len(d) + Len(e) : w[j] = IF j <= Len(d) THEN d[j] ELSE e[j - Len(d)]
    <3>1. e \in Seq(Int)
      BY <1>4
    <3> QED
      BY <1>3, <1>5, <3>1, ConcatProperties
  <2>2. w[1] = d[1] /\ w[2] = d[2] /\ w[3] = e[1]
    BY ONLY <1>3, <1>4, <2>1
  <2> QED
    BY <1>3, <1>4, <2>2
<1>7. Total(st) = 3600 * w[1] + 60 * w[2] + w[3]
  BY <1>1, <1>2, <1>4, <1>5 DEF Total, TwoDone
<1> QED
  BY <1>1, <1>2, <1>6, <1>7 DEF st

\* Where the reader starts, and with its dot seen.
Begins(p, d, dot, seen) ==
  /\ p = 0 /\ d = << >> /\ dot = FALSE /\ seen = TRUE
  /\ p \in Nat /\ dot \in BOOLEAN /\ seen \in BOOLEAN

LEMMA Starting == \E p, d, dot, seen : Begins(p, d, dot, seen)
<1>1. Begins(0, << >>, FALSE, TRUE)
  BY DEF Begins
<1> QED
  BY <1>1

\* What a text that has been read amounts to.
LEMMA TextAmounts ==
  ASSUME NEW width \in Widths, NEW str, NEW u \in Nat, NEW m \in Nat, NEW v \in Int,
         NEW p, NEW d, NEW dot, NEW seen, Begins(p, d, dot, seen),
         TextTaken(width, p, d, dot, str, u, m, v, seen)
  PROVE  /\ After(width, Start, str).status = 0
         /\ Total(After(width, Start, str)) = 3600 * (1000 * u + 0) + 60 * (1000 * m + 0) + v
<1>1. Start = Fresh(p, d, dot)
  BY DEF Start, Fresh, Readable, Begins
<1>2. PICK c \in Seq(Char) :
        /\ After(width, Fresh(p, d, dot), str)
             = Readable(p + 1 + 1, c, Append(Append(d, 1000 * u + 0), 1000 * m + 0), seen)
        /\ atof(c) = v
  BY DEF TextTaken
<1>3. PICK x \in Int, y \in Int : x = 1000 * u + 0 /\ y = 1000 * m + 0
  OBVIOUS
<1>4. PICK q, e : q = p + 1 + 1 /\ e = Append(Append(d, x), y)
  OBVIOUS
<1>5. TwoDone(q, e, x, y)
  BY <1>4 DEF TwoDone, Begins
<1>6. atof(c) \in Int
  BY <1>2
<1>7. /\ Readable(q, c, e, seen).status = 0
      /\ Total(Readable(q, c, e, seen)) = 3600 * x + 60 * y + atof(c)
  BY ONLY <1>5, <1>6, x \in Int, y \in Int, TotalIs
<1>8. After(width, Start, str) = Readable(q, c, e, seen)
  BY <1>1, <1>2, <1>3, <1>4
<1> QED
  BY <1>2, <1>3, <1>7, <1>8

\* The parts of an angle below the turns.
LEMMA PartsAre ==
  ASSUME NEW turns \in {36, 360}, NEW a \in Nat, a < turns * 3600000
  PROVE  LET p == Parts(a, turns)
         IN  /\ p.u \in Nat /\ p.u < turns /\ p.m \in Nat /\ p.m < 60
             /\ p.f \in Nat /\ p.f < 60000 /\ a = 3600000 * p.u + 60000 * p.m + p.f
<1>1. a % (turns * 3600000) = a
  <2>1. CASE turns = 36
    BY SMT, <2>1
  <2>2. CASE turns = 360
    BY SMT, <2>2
  <2> QED
    BY SMT, <2>1, <2>2
<1> DEFINE p == Parts(a, turns)
<1>2. p.u = a \div 3600000 /\ p.m = (a \div 60000) % 60 /\ p.f = a % 60000
  BY SMT, <1>1 DEF Parts
<1> HIDE DEF p
<1>3. PICK w \in Nat, f \in Nat : w = a \div 60000 /\ f = a % 60000 /\ a = 60000 * w + f /\ f < 60000
  BY SMT
<1>4. PICK u \in Nat, m \in Nat : u = w \div 60 /\ m = w % 60 /\ w = 60 * u + m /\ m < 60
  BY SMT
<1>5. a \div 3600000 = u
  BY SMT, <1>3, <1>4
<1>6. p.u = u /\ p.m = m /\ p.f = f
  BY SMT, <1>2, <1>3, <1>4, <1>5
<1>7. a = 3600000 * u + 60000 * m + f /\ u < turns
  BY SMT, <1>3, <1>4
<1> QED
  BY SMT, <1>3, <1>4, <1>6, <1>7 DEF p

\* What is printed of the seconds, in hundredths or in thousandths, is below a minute.
LEMMA CappedHundredths ==
  ASSUME NEW n \in Nat
  PROVE  LET c == Capped(n, 5999)
         IN  /\ c \in Nat /\ c < 6000 /\ (n < 6000 => c = n) /\ (n >= 6000 => c = 5999)
             /\ c \div 100 \in Nat /\ c \div 100 < 60 /\ c % 100 \in Nat /\ c % 100 < 100
             /\ c = 100 * (c \div 100) + (c % 100)
<1>1. PICK c \in Nat : /\ c = Capped(n, 5999)
                      /\ c < 6000 /\ (n < 6000 => c = n) /\ (n >= 6000 => c = 5999)
  BY SMT DEF Capped
<1>2. /\ c \div 100 \in Nat /\ c \div 100 < 60 /\ c % 100 \in Nat /\ c % 100 < 100
      /\ c = 100 * (c \div 100) + (c % 100)
  BY SMT, <1>1
<1> QED
  BY SMT, <1>1, <1>2

LEMMA CappedThousandths ==
  ASSUME NEW n \in Nat
  PROVE  LET c == Capped(n, 59999)
         IN  /\ c \in Nat /\ c < 60000 /\ (n < 60000 => c = n) /\ (n >= 60000 => c = 59999)
             /\ c \div 1000 \in Nat /\ c \div 1000 < 60 /\ c % 1000 \in Nat /\ c % 1000 < 1000
             /\ c = 1000 * (c \div 1000) + (c % 1000)
<1>1. PICK c \in Nat : /\ c = Capped(n, 59999)
                      /\ c < 60000 /\ (n < 60000 => c = n) /\ (n >= 60000 => c = 59999)
  BY SMT DEF Capped
<1>2. /\ c \div 1000 \in Nat /\ c \div 1000 < 60 /\ c % 1000 \in Nat /\ c % 1000 < 1000
      /\ c = 1000 * (c \div 1000) + (c % 1000)
  BY SMT, <1>1
<1> QED
  BY SMT, <1>1, <1>2

\* A text of degrees is read part by part.
DegText(u, m, s, h) == WholeText(Unpadded(u), m, s, Two(h))

LEMMA DegTextRead ==
  ASSUME NEW width \in Widths, 2 < width, NEW p, NEW d, NEW dot, NEW seen, Begins(p, d, dot, seen),
         NEW u \in Nat, u < 1000, NEW m \in Nat, m < 100, NEW s \in Nat, s < 100, NEW h \in Nat, h < 100
  PROVE  TextTaken(width, p, d, dot, DegText(u, m, s, h), u, m, 1000 * s + 10 * h, seen)
<1>1. p \in Nat /\ p < 1 /\ dot \in BOOLEAN /\ ~dot /\ seen \in BOOLEAN /\ seen
  BY DEF Begins
<1>2. /\ Unpadded(u) \in Seq(Char)
      /\ FirstRead(width, p, d, dot, Unpadded(u), u)
  BY <1>1, DegreesRead DEF FirstRead
<1>3. PICK v \in Int : v = 1000 * s + 10 * h
  OBVIOUS
<1>4. LastRead(width, p, s, seen, Two(h), v)
  <2>1. PICK q \in Nat : q = p + 1 + 1 /\ 1 < q /\ q < 3
    BY <1>1
  <2> SUFFICES ASSUME NEW b \in Seq(Char), NEW x, TwoAndDot(b, s)
               PROVE  Ends(width, q, b, x, seen, Two(h), v)
    BY <2>1 DEF LastRead
  <2>2. 1 < q /\ q < 3 /\ seen \in BOOLEAN
    BY <1>1, <2>1
  <2>3. Ends(width, q, b, x, seen, Two(h), 1000 * s + 10 * h)
    BY <2>2, HundredthsRead
  <2> QED
    BY <1>3, <2>3
<1>5. Two(h) \in Seq(Char)
  BY CharsAre
<1>6. TextTaken(width, p, d, dot, DegText(u, m, s, h), u, m, v, seen)
  BY ZenonT(60), <1>1, <1>2, <1>4, <1>5, TextRead DEF DegText
<1> QED
  BY <1>3, <1>6

\* And one of hours.
HourText(u, m, s, f) == WholeText(Two(u), m, s, Thousandths(f))

LEMMA HourTextRead ==
  ASSUME NEW width \in Widths, NEW p, NEW d, NEW dot, NEW seen, Begins(p, d, dot, seen),
         NEW u \in Nat, u < 100, NEW m \in Nat, m < 100, NEW s \in Nat, s < 100, NEW f \in Nat, f < 1000
  PROVE  TextTaken(width, p, d, dot, HourText(u, m, s, f), u, m, 1000 * s + f, seen)
<1>1. p \in Nat /\ p < 1 /\ dot \in BOOLEAN /\ ~dot /\ seen \in BOOLEAN /\ seen
  BY DEF Begins
<1>2. /\ Two(u) \in Seq(Char)
      /\ FirstRead(width, p, d, dot, Two(u), u)
  BY <1>1, CharsAre, PartRead DEF FirstRead
<1>3. PICK v \in Int : v = 1000 * s + f
  OBVIOUS
<1>4. LastRead(width, p, s, seen, Thousandths(f), v)
  <2>1. PICK q \in Nat : q = p + 1 + 1 /\ 1 < q /\ q < 3
    BY <1>1
  <2> SUFFICES ASSUME NEW b \in Seq(Char), NEW x, TwoAndDot(b, s)
               PROVE  Ends(width, q, b, x, seen, Thousandths(f), v)
    BY <2>1 DEF LastRead
  <2>2. 1 < q /\ q < 3 /\ seen \in BOOLEAN
    BY <1>1, <2>1
  <2>3. Ends(width, q, b, x, seen, Thousandths(f), 1000 * s + f)
    BY <2>2, ThousandthsRead
  <2> QED
    BY <1>3, <2>3
<1>5. Thousandths(f) \in Seq(Char)
  <2>1. PICK k \in Nat, r \in Nat : k = f \div 100 /\ r = f % 100 /\ r < 100
    OBVIOUS
  <2>2. Thousandths(f) = One(Digit(k)) \o Two(r)
    BY <2>1 DEF Thousandths, One
  <2>3. One(Digit(k)) \in Seq(Char) /\ Two(r) \in Seq(Char)
    BY <2>1, CharsAre
  <2> QED
    BY <2>2, <2>3, ConcatProperties
<1>6. TextTaken(width, p, d, dot, HourText(u, m, s, f), u, m, v, seen)
  BY ZenonT(60), <1>1, <1>2, <1>4, <1>5, TextRead DEF HourText
<1> QED
  BY <1>3, <1>6

\* The two readers.
LEMMA Readers ==
  /\ \A str : DegStr2Dbl(str) = After(3, Start, str)
  /\ \A str : HourStr2Dbl(str) = After(2, Start, str)
BY Zenon DEF DegStr2Dbl, HourStr2Dbl, After

\* Parts whose last is short of a minute are those of the same minute.
LEMMA SameMinute ==
  ASSUME NEW u \in Nat, NEW m \in Nat, NEW f \in Nat, f < 60000, NEW g \in Nat, g < 60000,
         NEW a, a = 3600000 * u + 60000 * m + f, NEW b, b = 3600000 * u + 60000 * m + g
  PROVE  a \div 60000 = b \div 60000 /\ b - a = g - f
<1>1. PICK w \in Nat : w = 60 * u + m
  OBVIOUS
<1>2. a = 60000 * w + f /\ b = 60000 * w + g
  BY SMT, <1>1
<1>3. (60000 * w + f) \div 60000 = w /\ (60000 * w + g) \div 60000 = w
  BY SMT
<1> QED
  BY SMT, <1>2, <1>3

\* Degrees, written to the nearest hundredth of a second, are read to the hundredth.
LEMMA DegreesReadBack ==
  ASSUME NEW a \in Nat, a < 1296000000
  PROVE  /\ DegStr2Dbl(DegDbl2Str(a)).status = 0
         /\ Total(DegStr2Dbl(DegDbl2Str(a))) - a \in -9 .. 5
         /\ Total(DegStr2Dbl(DegDbl2Str(a))) \div 60000 = a \div 60000
<1> DEFINE u == Parts(a, 360).u
           m == Parts(a, 360).m
           f == Parts(a, 360).f
           n == (f + 5) \div 10
           c == Capped(n, 5999)
           s == c \div 100
           h == c % 100
<1>1. /\ u \in Nat /\ u < 360 /\ m \in Nat /\ m < 60 /\ f \in Nat /\ f < 60000
      /\ a = 3600000 * u + 60000 * m + f
  <2>1. PICK turns \in {36, 360} : turns = 360
    BY SMT
  <2> QED
    BY SMT, <2>1, PartsAre
<1>2. DegDbl2Str(a) = DegText(u, m, s, h)
  BY SMT DEF DegDbl2Str, DegText, WholeText, One
<1> HIDE DEF u, m, f
<1>3. n \in Nat /\ 10 * n - f \in -4 .. 5
  BY SMT, <1>1
<1> HIDE DEF n
<1>4. /\ s \in Nat /\ s < 60 /\ h \in Nat /\ h < 100 /\ c = 100 * s + h /\ c < 6000
      /\ (n < 6000 => c = n) /\ (n >= 6000 => c = 5999)
  <2>1. n \in Nat
    BY SMT, <1>3
  <2> QED
    BY ONLY SMT, <2>1, CappedHundredths
<1> HIDE DEF c, s, h
<1>5. PICK width \in Widths : width = 3
  BY SMT DEF Widths
<1>6. PICK p, d, dot, seen : Begins(p, d, dot, seen)
  BY SMT, Starting
<1>7. /\ After(width, Start, DegText(u, m, s, h)).status = 0
      /\ Total(After(width, Start, DegText(u, m, s, h)))
           = 3600 * (1000 * u + 0) + 60 * (1000 * m + 0) + (1000 * s + 10 * h)
  <2>1. TextTaken(width, p, d, dot, DegText(u, m, s, h), u, m, 1000 * s + 10 * h, seen)
    BY SMT, <1>1, <1>4, <1>5, <1>6, DegTextRead
  <2> QED
    BY SMT, <1>1, <1>4, <1>6, <2>1, TextAmounts
<1>8. \A str : DegStr2Dbl(str) = After(3, Start, str)
  BY SMT, Readers
<1>9. PICK g \in Nat : g = 10 * c /\ g < 60000 /\ -9 <= g - f /\ g - f <= 5
  BY SMT, <1>1, <1>3, <1>4
<1>10. 3600 * (1000 * u + 0) + 60 * (1000 * m + 0) + (1000 * s + 10 * h)
         = 3600000 * u + 60000 * m + g
  BY SMT, <1>1, <1>4, <1>9
<1>11. PICK t : t = Total(After(width, Start, DegText(u, m, s, h)))
  OBVIOUS
<1>12. t = 3600000 * u + 60000 * m + g
  BY SMT, <1>7, <1>10, <1>11
<1>13. t \div 60000 = a \div 60000 /\ t - a \in -9 .. 5
  <2>1. g < 60000
    BY SMT, <1>9
  <2>2. a \div 60000 = t \div 60000 /\ t - a = g - f
    BY SMT, <1>1, <1>12, <2>1, SameMinute
  <2>3. PICK k \in Int : k = g - f /\ k \in -9 .. 5
    BY SMT, <1>1, <1>9
  <2>4. t - a = k
    BY ONLY <2>2, <2>3
  <2> QED
    BY ONLY <2>2, <2>3, <2>4
<1>14. PICK st : st = After(width, Start, DegText(u, m, s, h)) /\ st.status = 0 /\ Total(st) = t
  BY SMT, <1>7, <1>11
<1>15. DegStr2Dbl(DegDbl2Str(a)) = st
  BY SMT, <1>2, <1>5, <1>8, <1>14
<1> QED
  BY ONLY <1>13, <1>14, <1>15

\* Hours, written to the nearest thousandth of a second, are read to the thousandth.
LEMMA HoursReadBack ==
  ASSUME NEW a \in Nat, a < 86400000, NEW late \in {0, 1}
  PROVE  /\ HourStr2Dbl(HourDbl2Str(a, late)).status = 0
         /\ Total(HourStr2Dbl(HourDbl2Str(a, late))) - a \in {0, late}
         /\ Total(HourStr2Dbl(HourDbl2Str(a, late))) \div 60000 = a \div 60000
<1> DEFINE u == Parts(a, 36).u
           m == Parts(a, 36).m
           f == Parts(a, 36).f
           n == f + late
           c == Capped(n, 59999)
           s == c \div 1000
           h == c % 1000
<1>1. /\ u \in Nat /\ u < 36 /\ m \in Nat /\ m < 60 /\ f \in Nat /\ f < 60000
      /\ a = 3600000 * u + 60000 * m + f
  <2>1. PICK turns \in {36, 360} : turns = 36
    BY SMT
  <2> QED
    BY SMT, <2>1, PartsAre
<1>2. HourDbl2Str(a, late) = HourText(u, m, s, h)
  <2>1. a < 129600000
    BY SMT
  <2> QED
    BY SMT, <2>1 DEF HourDbl2Str, HourText, WholeText, One
<1> HIDE DEF u, m, f
<1>3. n \in Nat /\ n - f \in {0, late} /\ (n >= 60000 => f = 59999)
  BY SMT, <1>1
<1> HIDE DEF n
<1>4. /\ s \in Nat /\ s < 60 /\ h \in Nat /\ h < 1000 /\ c = 1000 * s + h /\ c < 60000
      /\ (n < 60000 => c = n) /\ (n >= 60000 => c = 59999)
  BY SMT, <1>3, CappedThousandths
<1> HIDE DEF s, h
<1>5. c \in Nat /\ c - f \in {0, late}
  BY SMT, <1>1, <1>3, <1>4
<1> HIDE DEF c
<1>6. PICK width \in Widths : width = 2
  BY SMT DEF Widths
<1>7. PICK p, d, dot, seen : Begins(p, d, dot, seen)
  BY SMT, Starting
<1>8. /\ After(width, Start, HourText(u, m, s, h)).status = 0
      /\ Total(After(width, Start, HourText(u, m, s, h)))
           = 3600 * (1000 * u + 0) + 60 * (1000 * m + 0) + (1000 * s + h)
  <2>1. TextTaken(width, p, d, dot, HourText(u, m, s, h), u, m, 1000 * s + h, seen)
    BY SMT, <1>1, <1>4, <1>7, HourTextRead
  <2> QED
    BY SMT, <1>1, <1>4, <1>7, <2>1, TextAmounts
<1>9. \A str : HourStr2Dbl(str) = After(2, Start, str)
  BY SMT, Readers
<1>10. 3600 * (1000 * u + 0) + 60 * (1000 * m + 0) + (1000 * s + h) = 3600000 * u + 60000 * m + c
  BY SMT, <1>1, <1>4
<1>11. PICK t : t = Total(After(width, Start, HourText(u, m, s, h)))
  OBVIOUS
<1>12. t = 3600000 * u + 60000 * m + c
  BY SMT, <1>8, <1>10, <1>11
<1>13. t \div 60000 = a \div 60000 /\ t - a \in {0, late}
  <2>1. c < 60000
    BY SMT, <1>4
  <2>2. a \div 60000 = t \div 60000 /\ t - a = c - f
    BY SMT, <1>1, <1>5, <1>12, <2>1, SameMinute
  <2> QED
    BY SMT, <1>1, <1>5, <2>2
<1>14. PICK st : st = After(width, Start, HourText(u, m, s, h)) /\ st.status = 0 /\ Total(st) = t
  BY SMT, <1>8, <1>11
<1>15. HourStr2Dbl(HourDbl2Str(a, late)) = st
  BY SMT, <1>2, <1>6, <1>9, <1>14
<1> QED
  BY ONLY <1>13, <1>14, <1>15

\* The angle that is written is below a turn.
BelowTurn == angle \in Int /\ -1 <= angle /\ angle < 1296000000

LEMMA AngleStep ==
  ASSUME BelowTurn, [CalNext]_calVars
  PROVE  BelowTurn'
<1>1. CASE NextDay \/ UNCHANGED calVars
  BY SMT, <1>1 DEF NextDay, calVars, BelowTurn
<1>2. CASE WriteAngle
  <2>1. PICK u \in Degrees, m \in Sixtieths, s \in Sixtieths, f \in Millis :
          angle' = 3600000 * u + 60000 * m + 1000 * s + f
    BY SMT, <1>2 DEF WriteAngle
  <2>2. u \in 0 .. 359 /\ m \in 0 .. 59 /\ s \in 0 .. 59 /\ f \in 0 .. 999
    BY SMT, AnglesAssumption DEF AnglesAssumption
  <2>3. /\ u \in Nat /\ u <= 359 /\ m \in Nat /\ m <= 59 /\ s \in Nat /\ s <= 59
        /\ f \in Nat /\ f <= 999
    BY SMT, <2>2
  <2> QED
    BY ONLY SMT, <2>1, <2>3 DEF BelowTurn
<1> QED
  BY SMT, <1>1, <1>2 DEF CalNext

LEMMA TextOfAngle ==
  ASSUME BelowTurn
  PROVE  TextReadsBack
<1>1. CASE angle < 0
  BY SMT, <1>1 DEF TextReadsBack, BelowTurn
<1>2. CASE angle >= 0
  <2>1. PICK a \in Nat : a = angle /\ a < 1296000000
    BY SMT, <1>2 DEF BelowTurn
  <2>2. /\ DegStr2Dbl(DegDbl2Str(a)).status = 0
        /\ Total(DegStr2Dbl(DegDbl2Str(a))) - a \in -9 .. 5
        /\ Total(DegStr2Dbl(DegDbl2Str(a))) \div 60000 = a \div 60000
    BY SMT, <2>1, DegreesReadBack
  <2>3. a < 86400000 => \A late \in {0, 1} :
          /\ HourStr2Dbl(HourDbl2Str(a, late)).status = 0
          /\ Total(HourStr2Dbl(HourDbl2Str(a, late))) - a \in {0, late}
          /\ Total(HourStr2Dbl(HourDbl2Str(a, late))) \div 60000 = a \div 60000
    BY SMT, HoursReadBack
  <2> QED
    BY SMT, <2>1, <2>2, <2>3 DEF TextReadsBack
<1> QED
  BY SMT, <1>1, <1>2 DEF BelowTurn

\* Every angle below a turn that HourDbl2Str or DegDbl2Str writes is taken by
\* HourStr2Dbl or DegStr2Dbl as an angle of the same minute, to the last digit written,
\* whichever angles are tried.
THEOREM EveryTextReadsBack == CalSpec => []TextReadsBack
<1>1. CalInit => BelowTurn
  BY DEF CalInit, BelowTurn
<1>2. BelowTurn /\ [CalNext]_calVars => BelowTurn'
  BY AngleStep
<1>3. BelowTurn => TextReadsBack
  BY TextOfAngle
<1> QED
  BY <1>1, <1>2, <1>3, PTL DEF CalSpec

(* ------------------------------ TnxModel -------------------------------- *)

ModelParts == {"valid_cd", "valid_res", "wcs", "pix", "cd", "ccd", "res", "torn"}

\* The model is a record of its parts.
ModelTyped == model = [p \in ModelParts |-> model[p]]

\* A matrix in a header that is not torn stands beside the pixel loaded with it.
HeaderOK == header.cd # NoValue /\ ~header.torn => LoadedTogether(header.cd, header.crpix)

ModelInv == ModelTyped /\ HeaderOK /\ ValidIsOneSource

\* Nothing is loaded yet.
LEMMA ModelStart == TMInit => ModelInv
  BY DEF TMInit, ModelInv, ModelTyped, ModelParts, HeaderOK, Blank, ValidIsOneSource

\* A file brings its matrix and its reference pixel together.
LEMMA OtherFileKeeps ==
  ASSUME ModelInv, OtherFile
  PROVE  ModelInv'
<1>1. ModelTyped' /\ ValidIsOneSource'
  BY DEF ModelInv, ModelTyped, ValidIsOneSource, LoadedTogether, OtherFile
<1>2. HeaderOK'
  <2>1. CASE header' = Blank
    BY <2>1 DEF HeaderOK, Blank
  <2>2. ASSUME NEW s \in Image, header' = [Foreign(s, NoValue) EXCEPT !.cd = NoValue]
        PROVE  HeaderOK'
    <3>1. header'.cd = NoValue
      BY <2>2 DEF Foreign
    <3> QED
      BY <3>1 DEF HeaderOK
  <2>3. ASSUME NEW s \in Image, NEW w, header' = Foreign(s, w)
        PROVE  HeaderOK'
    <3>1. header'.cd = s /\ header'.crpix = <<s, s>>
      BY <2>3 DEF Foreign
    <3> QED
      BY <3>1 DEF HeaderOK, LoadedTogether
  <2> QED
    BY <2>1, <2>2, <2>3, Zenon DEF OtherFile
<1> QED
  BY <1>1, <1>2 DEF ModelInv

\* The flag falls first and rises only after the matrix and the pixel are both loaded.
LEMMA LoadImageKeeps ==
  ASSUME ModelInv, LoadImage
  PROVE  ModelInv'
<1> DEFINE fallen == [model EXCEPT !.valid_cd = FALSE, !.valid_res = FALSE]
           pair == <<fits_read_key(header.crpix[1], model.pix[1]), fits_read_key(header.crpix[2], model.pix[2])>>
           point == [fallen EXCEPT !.wcs[1] = fits_read_key(header.crval[2], model.wcs[1]), !.pix = pair]
           linear == [point EXCEPT !.valid_cd = TRUE, !.cd = header.cd, !.ccd = header.cd,
                                   !.torn = header.torn]
<1>1. HeaderOK'
  BY DEF ModelInv, HeaderOK, LoadedTogether, LoadImage
<1>2. ModelTyped
  BY DEF ModelInv
<1>3. fallen = [p \in ModelParts |-> fallen[p]] /\ fallen.valid_cd = FALSE
  BY <1>2 DEF ModelTyped, ModelParts
<1>4. header.cd # NoValue /\ ~header.torn => LoadedTogether(header.cd, pair)
  BY DEF ModelInv, HeaderOK, LoadedTogether, fits_read_key
<1> HIDE DEF fallen, pair
<1>5. /\ point = [p \in ModelParts |-> point[p]] /\ point.valid_cd = FALSE
      /\ point.pix = pair
  BY <1>3 DEF ModelParts
<1> HIDE DEF point
<1>6. /\ linear = [p \in ModelParts |-> linear[p]] /\ linear.torn = header.torn
      /\ linear.pix = pair /\ linear.cd = header.cd /\ linear.ccd = header.cd
  BY <1>5 DEF ModelParts
<1> HIDE DEF linear
<1>7. \/ model' = fallen
      \/ model' = point
      \/ /\ header.cd # NoValue
         /\ \E res, valid :
              \/ model' = linear
              \/ model' = [linear EXCEPT !.res = res, !.valid_res = valid]
              \/ model' = [linear EXCEPT !.res = res]
  BY DEF LoadImage, fallen, pair, point, linear
<1>8. CASE model' = fallen \/ model' = point
  BY <1>1, <1>3, <1>5, <1>8 DEF ModelInv, ModelTyped, ValidIsOneSource
<1>9. ASSUME NEW res, NEW valid, header.cd # NoValue,
             \/ model' = linear
             \/ model' = [linear EXCEPT !.res = res, !.valid_res = valid]
             \/ model' = [linear EXCEPT !.res = res]
      PROVE  ModelInv'
  <2>1. ModelTyped'
    BY <1>6, <1>9 DEF ModelTyped, ModelParts
  <2>2. /\ model'.torn = header.torn /\ model'.pix = pair
        /\ model'.cd = header.cd /\ model'.ccd = header.cd
    BY <1>6, <1>9 DEF ModelParts
  <2>3. ValidIsOneSource'
    BY <1>4, <1>9, <2>2 DEF ValidIsOneSource, LoadedTogether
  <2> QED
    BY <1>1, <2>1, <2>3 DEF ModelInv
<1> QED
  BY <1>7, <1>8, <1>9

\* Of a text, the matrix counts when its surface was whole, and then it is the text's,
\* and so is each coordinate of the pixel that has a line.
LEMMA LoadTextKeeps ==
  ASSUME ModelInv, NEW s \in Text, LoadText(s)
  PROVE  ModelInv'
<1>1. HeaderOK'
  BY DEF ModelInv, HeaderOK, LoadedTogether, LoadText
<1>2. CASE UNCHANGED model
  BY <1>1, <1>2 DEF ModelInv, ModelTyped, ValidIsOneSource, LoadedTogether
<1>3. ASSUME NEW first \in BOOLEAN, NEW second \in BOOLEAN, NEW touched \in BOOLEAN,
             model' = [valid_cd |-> first, valid_res |-> second,
                       wcs |-> Read2(s, PointLine, model.wcs),
                       pix |-> Read2(s, PixelLine, model.pix),
                       cd |-> IF first THEN s ELSE model.cd,
                       ccd |-> IF first THEN s ELSE model.ccd,
                       res |-> IF second \/ touched THEN <<s, s>> ELSE model.res,
                       torn |-> model.torn /\ ~first]
      PROVE  ModelInv'
  <2>1. ModelTyped'
    BY <1>3 DEF ModelTyped, ModelParts
  <2>2. LoadedTogether(s, Read2(s, PixelLine, model.pix))
    BY DEF LoadedTogether, Read2
  <2>3. /\ model'.valid_cd = first /\ model'.pix = Read2(s, PixelLine, model.pix)
        /\ first => model'.cd = s /\ model'.ccd = s
    BY <1>3
  <2>4. ValidIsOneSource'
    <3>1. SUFFICES ASSUME first
                   PROVE  /\ model'.ccd = model'.cd
                          /\ LoadedTogether(model'.cd, model'.pix)
      BY <2>3 DEF ValidIsOneSource, LoadedTogether
    <3> QED
      BY <2>2, <2>3, <3>1
  <2> QED
    BY <1>1, <2>1, <2>4 DEF ModelInv
<1> QED
  BY <1>2, <1>3 DEF LoadText

\* A header is written from a valid model, or torn.
LEMMA WriteImageKeeps ==
  ASSUME ModelInv, WriteImage
  PROVE  ModelInv'
<1>1. ModelTyped' /\ ValidIsOneSource'
  BY DEF ModelInv, ModelTyped, ValidIsOneSource, LoadedTogether, WriteImage
<1>2. UNCHANGED header => HeaderOK'
  BY DEF ModelInv, HeaderOK, LoadedTogether
<1>3. header'.torn => HeaderOK'
  BY DEF HeaderOK
<1>4. model.valid_cd /\ header'.cd = model.cd /\ header'.crpix = model.pix /\ header'.torn = model.torn
      => HeaderOK'
  BY DEF ModelInv, HeaderOK, ValidIsOneSource, LoadedTogether
<1>5. \/ UNCHANGED header
      \/ header'.torn
      \/ model.valid_cd /\ header'.cd = model.cd /\ header'.crpix = model.pix /\ header'.torn = model.torn
  <2> DEFINE wat == IF model.valid_res THEN model.res[1] ELSE header.wat
             keys == [Blank EXCEPT !.ctype = TRUE, !.crval = model.wcs, !.crpix = model.pix,
                                   !.cd = model.cd, !.torn = model.torn, !.wat = wat]
             torn == [header EXCEPT !.torn = TRUE, !.ctype = TRUE]
             point == [torn EXCEPT !.crval = model.wcs]
             pixel == [point EXCEPT !.crpix = model.pix]
  <2>1. \/ UNCHANGED header
        \/ model.valid_cd /\ header' = keys
        \/ header' \in {torn, point, pixel, [pixel EXCEPT !.cd = model.cd], [keys EXCEPT !.torn = TRUE]}
    BY DEF WriteImage
  <2>2. keys.cd = model.cd /\ keys.crpix = model.pix /\ keys.torn = model.torn
    BY DEF Blank
  <2>3. [keys EXCEPT !.torn = TRUE].torn
    BY DEF Blank
  <2>4. torn.torn /\ point.torn /\ pixel.torn /\ [pixel EXCEPT !.cd = model.cd].torn
    OBVIOUS
  <2> HIDE DEF keys, torn, point, pixel
  <2> QED
    BY <2>1, <2>2, <2>3, <2>4
<1> QED
  BY <1>1, <1>2, <1>3, <1>4, <1>5 DEF ModelInv

\* The invariant is inductive.
LEMMA ModelKeeps ==
  ASSUME ModelInv, [TMNext]_tmVars
  PROVE  ModelInv'
<1>1. CASE UNCHANGED tmVars
  BY <1>1 DEF ModelInv, ModelTyped, HeaderOK, ValidIsOneSource, LoadedTogether, tmVars
<1> QED
  BY <1>1, OtherFileKeeps, LoadImageKeeps, LoadTextKeeps, WriteImageKeeps DEF TMNext

\* A valid matrix, its inverse and each coordinate of the reference pixel are of one
\* header or one text, unless the text has no line for the coordinate or the header
\* was torn, whatever loads failed half way before and whatever was written in between.
THEOREM ModelOfOneSource == TMSpec => []ValidIsOneSource
<1>1. ModelInv => ValidIsOneSource
  BY DEF ModelInv
<1> QED
  BY <1>1, ModelStart, ModelKeeps, PTL DEF TMSpec

(* ------------------------------- TnxFit --------------------------------- *)

\* What a number was computed from when its frame's samples are all that was used.
Own == [stars |-> stars, ref |-> ref]

\* The samples are the frame's from PrepareFit on.
OwnStars == pc # "prepare" => \A s \in stars : s[1] = frame

\* While the fit goes on, everything was computed from the samples that are left.
FitOK == pc = "loop" => cd = Own /\ coef = Own /\ errfit.of = Own

\* Only a finished fit has a result; an accepted one is of its own samples.
ResultOK == /\ result = 0 => pc \in {"done", "prepare"}
            /\ result = 0 /\ auto => cd = Own /\ coef = Own /\ errfit.of = Own

FitInv == OwnStars /\ FitOK /\ ResultOK

\* Nothing is fitted yet.
LEMMA FitStart == TFInit => FitInv
  BY DEF TFInit, FitInv, OwnStars, FitOK, ResultOK

\* A frame starts without samples and without a result.
LEMMA PrepareKeeps ==
  ASSUME FitInv, PrepareFit
  PROVE  FitInv'
BY DEF FitInv, OwnStars, FitOK, ResultOK, PrepareFit

\* A sample is the frame's.
LEMMA SampleKeeps ==
  ASSUME FitInv, NEW s \in Star, AddSample(s)
  PROVE  FitInv'
BY DEF FitInv, OwnStars, FitOK, ResultOK, AddSample

\* The loop is reached only after a whole fit to the samples.
LEMMA ProcessKeeps ==
  ASSUME FitInv, ProcessFit
  PROVE  FitInv'
<1>1. OwnStars'
  BY DEF FitInv, OwnStars, ProcessFit
<1>2. FitOK'
  BY DEF FitOK, Own, ProcessFit, TryFit, CalcResidual, Return
<1>3. ResultOK'
  BY DEF FitInv, ResultOK, ProcessFit, Return
<1> QED
  BY <1>1, <1>2, <1>3 DEF FitInv

\* The loop goes on only after a whole fit to the samples that are left.
LEMMA IterateKeeps ==
  ASSUME FitInv, Iterate
  PROVE  FitInv'
<1>1. PICK left \in SUBSET stars :
        /\ stars' = left
        /\ \/ /\ TryFit("ok", left, ref) /\ CalcResidual(left, ref)
              /\ UNCHANGED <<pc, result>>
           \/ /\ TryFit("cd", left, ref) \/ TryFit("none", left, ref)
              /\ Return(2) /\ UNCHANGED errfit
  BY DEF Iterate
<1>2. UNCHANGED <<frame, ref, auto>> /\ pc = "loop"
  BY DEF Iterate
<1>3. OwnStars'
  BY <1>1, <1>2 DEF FitInv, OwnStars
<1>4. FitOK'
  BY <1>1, <1>2 DEF FitOK, Own, TryFit, CalcResidual, Return
<1>5. ResultOK'
  BY <1>1, <1>2 DEF FitInv, ResultOK, Return
<1> QED
  BY <1>3, <1>4, <1>5 DEF FitInv

\* With the automatic reference the model is accepted as the loop left it.
LEMMA AcceptKeeps ==
  ASSUME FitInv, Accept
  PROVE  FitInv'
<1>1. OwnStars' /\ FitOK'
  BY DEF FitInv, OwnStars, FitOK, Accept, Return
<1>2. ResultOK'
  BY DEF FitInv, FitOK, ResultOK, Own, Accept, Return
<1> QED
  BY <1>1, <1>2 DEF FitInv

\* The result of the last frame stands until the next is prepared.
LEMMA NextFrameKeeps ==
  ASSUME FitInv, NextFrame
  PROVE  FitInv'
BY DEF FitInv, OwnStars, FitOK, ResultOK, Own, NextFrame

\* The invariant is inductive.
LEMMA FitKeeps ==
  ASSUME FitInv, [TFNext]_tfVars
  PROVE  FitInv'
<1>1. CASE UNCHANGED tfVars
  BY <1>1 DEF FitInv, OwnStars, FitOK, ResultOK, Own, tfVars
<1> QED
  BY <1>1, PrepareKeeps, SampleKeeps, ProcessKeeps, IterateKeeps, AcceptKeeps, NextFrameKeeps
     DEF TFNext

\* An accepted model is the model of its frame, whatever failed on the frames before.
THEOREM AcceptedIsOfItsFrame == TFSpec => []ModelOfItsFrame
<1>1. FitInv => ModelOfItsFrame
  BY DEF FitInv, OwnStars, ResultOK, Own, ModelOfItsFrame
<1> QED
  BY <1>1, FitStart, FitKeeps, PTL DEF TFSpec
=============================================================================
