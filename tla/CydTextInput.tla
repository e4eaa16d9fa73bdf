------------------------------ MODULE CydTextInput ------------------------------
(* The keyboard (cyd_text_input.c): one session edits one text behind a prefix that    *)
(* cannot be removed, shows it with separators between groups of characters, and       *)
(* gives it back as it was shown. A page of keys is one key of its kind here, beside   *)
(* the "-" that each but the last one has; the two URL schemes are "h" and "hs", and   *)
(* the blinking of the cursor is left out.                                             *)
EXTENDS Naturals, Sequences, SequencesExt, FiniteSetsExt

CONSTANT Sessions   \* what sessions are begun with: cyd_text_input_config_t

VARIABLES
    session,    \* the session's configuration, and whether it is open (initialized)
    text,       \* [value, page, show, step: url_scheme_step, restore: url_restore]
    touched,    \* text_input_touch_tracker_t: [pending, long]
    given,      \* the text that the last session gave back
    kept        \* history: the value after the last action other than a change of the scheme

textVars == <<session, text, touched, given, kept>>

SEPARATOR == "-"
Schemes == <<<<"h">>, <<"h", "s">>>>
NoKey == [pending |-> "none", long |-> FALSE]

-----------------------------------------------------------------------------
(* How a value is grouped, in a session s. *)

GroupLen(s, n) == s.groups[IF n > Len(s.groups) THEN Len(s.groups) ELSE n]

(* The number of typed characters at which the first n groups are complete. *)
Boundary(s, n) ==
    LET upTo[i \in 0..n] == IF i = 0 THEN 0 ELSE upTo[i - 1] + GroupLen(s, i) IN upTo[n]

IsBoundary(s, typed) == s.groups # <<>> /\ \E n \in 1..typed : Boundary(s, n) = typed

(* text_input_separator_count *)
SeparatorCount(s, typed) == Cardinality({k \in 1..(typed - 1) : IsBoundary(s, k)})

FormattedLen(s, typed) == Len(s.prefix) + typed + SeparatorCount(s, typed)

(* Mistaken: the separators are not counted. *)
LengthOnly == session.max

(* text_input_value_capacity *)
Capacity ==
    IF session.groups = <<>> THEN session.max
    ELSE Len(session.prefix) + Max({n \in 0..session.max : FormattedLen(session, n) <= session.max})

Typed(value) == IF Len(value) > Len(session.prefix) THEN Len(value) - Len(session.prefix) ELSE 0

(* A separator stands before the first character of a group, ... *)
BeginsGroup(i) == i > Len(session.prefix) /\ IsBoundary(session, i - Len(session.prefix) - 1)
Place(i) == i + Cardinality({j \in 1..i : BeginsGroup(j)})

Grouped(value) ==
    [p \in 1..Place(Len(value)) |->
        IF \E i \in 1..Len(value) : Place(i) = p
        THEN value[CHOOSE i \in 1..Len(value) : Place(i) = p]
        ELSE SEPARATOR]

(* ... and behind a group that is complete, as long as another character fits                      *)
(* (text_input_format_value).                                                                     *)
Formatted(value) ==
    LET typed == Typed(value) IN
    IF typed > 0 /\ IsBoundary(session, typed) /\ FormattedLen(session, typed + 1) <= session.max
    THEN Append(Grouped(value), SEPARATOR)
    ELSE Grouped(value)

(* What is given back: without a separator at the end. *)
Saved(value) ==
    LET formatted == Formatted(value) IN
    IF session.groups # <<>> /\ formatted # <<>> /\ Last(formatted) = SEPARATOR
    THEN Front(formatted) ELSE formatted

-----------------------------------------------------------------------------
(* The keys. *)

PageKeys == [lower |-> "a", upper |-> "A", symbol |-> "1", extra |-> "("]
ToUpper(key) == IF key = "a" THEN "A" ELSE key

(* What a value is made of. *)
Chars ==
    Range(PageKeys) \cup Range(Schemes[2]) \cup {" ", SEPARATOR}
        \cup UNION {Range(s.prefix) \cup Range(s.initial) : s \in Sessions}

(* cyd_text_input_view_key_row *)
KeyShown ==
    IF session.digits THEN "1"
    ELSE IF session.upper /\ text.page = "lower" THEN "A" ELSE PageKeys[text.page]

(* cyd_text_input_view_build: the keys, the row of functions, and the extra button of the mode *)
TextButtons ==
    {KeyShown, "cancel", "save", "delete"}
        \cup (IF session.digits THEN {} ELSE {"space", "case", "symbol"})
        \cup (IF session.digits \/ text.page = "extra" THEN {} ELSE {SEPARATOR})
        \cup (IF session.mode = "password" THEN {"show"} ELSE {})
        \cup (IF session.mode = "url" THEN {"scheme"} ELSE {})

Cut(value) == SubSeq(value, 1, IF Len(value) > session.max THEN session.max ELSE Len(value))

-----------------------------------------------------------------------------
ClosedSession ==
    [open |-> FALSE, max |-> 1, prefix |-> <<>>, groups |-> <<>>, mode |-> "generic",
     upper |-> FALSE, digits |-> FALSE]

NoText == [value |-> <<>>, page |-> "lower", show |-> TRUE, step |-> 0, restore |-> <<>>]

TextInit ==
    /\ session = ClosedSession
    /\ text = NoText
    /\ touched = NoKey
    /\ given = <<>>
    /\ kept = <<>>

(* cyd_text_input_begin_session: a text that carries the prefix is not given another one. *)
InitialValue(config) ==
    LET value == IF IsPrefix(config.prefix, config.initial) THEN config.initial
                 ELSE config.prefix \o config.initial
    IN  SubSeq(value, 1, IF Len(value) > config.max THEN config.max ELSE Len(value))

(* What the callers give: an initial text that leaves room for its separators, and no groups in a   *)
(* URL. The code looks at neither.                                                                  *)
ASSUME TextAssumption ==
    \A s \in Sessions :
        /\ s.max \in Nat /\ s.groups \in Seq(Nat \ {0})
        /\ s.prefix \in Seq(Chars) /\ s.initial \in Seq(Chars)
        /\ s.mode \in {"generic", "password", "url"} /\ s.upper \in BOOLEAN /\ s.digits \in BOOLEAN
        /\ s.groups # <<>> =>
              /\ s.mode # "url"
              /\ FormattedLen(s, Len(InitialValue(s)) - Len(s.prefix)) <= s.max

BeginSession(config) ==
    /\ ~session.open
    /\ Len(config.prefix) < config.max
    /\ session' = [ClosedSession EXCEPT !.open = TRUE, !.max = config.max, !.prefix = config.prefix,
                                        !.groups = config.groups, !.mode = config.mode,
                                        !.upper = config.upper, !.digits = config.digits]
    /\ text' = [value |-> InitialValue(config), page |-> IF config.upper THEN "upper" ELSE "lower",
                show |-> config.mode # "password", step |-> 0, restore |-> <<>>]
    /\ kept' = InitialValue(config)
    /\ touched' = NoKey
    /\ given' = <<>>

Add(char) ==
    IF Len(text.value) < Capacity THEN [text EXCEPT !.value = Append(@, char)] ELSE text

(* The next scheme, or the value as it was before the first one. *)
NextScheme ==
    [text EXCEPT !.restore = IF text.step = 0 THEN text.value ELSE @,
                 !.value = IF text.step < 2 THEN Cut(Schemes[text.step + 1]) ELSE text.restore,
                 !.step = (@ + 1) % 3]

NextPage(page) ==
    IF session.upper \/ page = "lower" THEN "upper" ELSE "lower"

(* Any other action makes the value that it leaves the one that the schemes come back to. *)
SchemeForgotten(after) == [after EXCEPT !.step = 0, !.restore = <<>>]

Edited(b) ==
    CASE b = "delete" -> IF Len(text.value) > Len(session.prefix)
                         THEN [text EXCEPT !.value = Front(@)] ELSE text
      [] b = "space"  -> Add(" ")
      [] b = "case"   -> [text EXCEPT !.page = NextPage(@)]
      [] b = "symbol" -> [text EXCEPT !.page = IF @ = "symbol" THEN "extra" ELSE "symbol"]
      [] b = "show"   -> [text EXCEPT !.show = ~@]
      [] OTHER        -> Add(IF session.upper THEN ToUpper(b) ELSE b)

(* cyd_text_input_poll_session, for a confirmed action. What a closed session held is not looked  *)
(* at again: the next one starts from nothing.                                                    *)
ActOnKey(b) ==
    IF b \in {"cancel", "save"}
    THEN /\ session' = ClosedSession
         /\ given' = IF b = "save" THEN Saved(text.value) ELSE <<>>
         /\ text' = NoText /\ kept' = <<>>
    ELSE /\ text' = IF b = "scheme" THEN NextScheme ELSE SchemeForgotten(Edited(b))
         /\ kept' = IF b = "scheme" THEN kept ELSE text'.value
         /\ UNCHANGED <<session, given>>

(* text_input_confirmed_action *)
PressKey(b) ==
    /\ session.open
    /\ touched' = [pending |-> b, long |-> FALSE]
    /\ UNCHANGED <<session, text, given, kept>>

HoldKey ==
    /\ session.open
    /\ touched' = [touched EXCEPT !.long = touched.pending # "none"]
    /\ UNCHANGED <<session, text, given, kept>>

ReleaseKey(b) ==
    /\ session.open
    /\ touched' = NoKey
    /\ IF b # "none" /\ b = touched.pending /\ ~touched.long
       THEN ActOnKey(b) ELSE UNCHANGED <<session, text, given, kept>>

TextNext ==
    \/ \E config \in Sessions : BeginSession(config)
    \/ \E b \in TextButtons \cup {"none"} : PressKey(b) \/ ReleaseKey(b)
    \/ HoldKey

-----------------------------------------------------------------------------
TextTypeOK ==
    /\ session.open \in BOOLEAN
    /\ text.page \in DOMAIN PageKeys /\ text.show \in BOOLEAN /\ text.step \in 0..2
    /\ touched.long \in BOOLEAN
    /\ Len(text.value) <= session.max

(* A form spells a value when it is the value, in its order, with separators and nothing else between. *)
Spells(form, value) ==
    \E place \in [DOMAIN value -> DOMAIN form] :
        /\ \A i, j \in DOMAIN value : i < j => place[i] < place[j]
        /\ \A i \in DOMAIN value : form[place[i]] = value[i]
        /\ \A p \in DOMAIN form : form[p] = SEPARATOR \/ \E i \in DOMAIN value : place[i] = p

(* Nothing that was typed is lost and nothing is written that does not fit: with its separators    *)
(* the value is never longer than the caller allows, what is shown is the value with separators      *)
(* and nothing else, so is what is given back, unless the value itself ends with a separator, and    *)
(* when the schemes of a URL have gone round, what was typed before is there again                    *)
(* (cyd_text_input.c:108-195, 345-405).                                                               *)
TextIsKept ==
    session.open =>
        /\ Len(Formatted(text.value)) <= session.max
        /\ Spells(Formatted(text.value), text.value)
        /\ (text.value # <<>> /\ Last(text.value) = SEPARATOR) \/ Spells(Saved(text.value), text.value)
        /\ text.step = 0 => text.value = kept

(* The prefix is saved with the value (docs/cyd_text_input.md:60). It does not hold: of a prefix    *)
(* like the documented "A-" the separator at its end is dropped when nothing was typed behind it     *)
(* (cyd_text_input.c:352-354).                                                                       *)
PrefixIsSaved == session.open => IsPrefix(session.prefix, Saved(text.value))
=============================================================================
