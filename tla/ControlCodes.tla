---------------------------- MODULE ControlCodes ----------------------------
(***************************************************************************)
(* checkControlCodes of internal/store/mariadb/mariadb.go: may an API or a *)
(* group of APIs be used now, given the control code of its row and, with  *)
(* code "08", a window of time?                                            *)
(*                                                                         *)
(* Moments are strings of digits, compared as strings.  Here a string is a *)
(* sequence of two-digit numbers: the ends of the window are hour, minute  *)
(* and second, the current time is century, year, month, day, hour, minute *)
(* and second.  Numbers of equal width compare as their digits do.         *)
(***************************************************************************)
EXTENDS Naturals, Sequences

CONSTANTS Hours, Minutes, Seconds,  \* what a clock or a window may show
          Dates                     \* dates: year, month and day

(* The columns of a row; NULL is read as the empty string. *)
Null == <<>>
TimeOfDay == Hours \X Minutes \X Seconds
CtlCd == {"", "00", "01", "07", "08", "99"}

VARIABLES ctlCd, staTim, endTim,  \* the row
          date, clock             \* the current time

row == <<ctlCd, staTim, endTim>>
vars == <<row, date, clock>>

(* time.Now().Format("20060102150405000"): the last three digits are 0. *)
now == <<20>> \o date \o clock \o <<0>>

-----------------------------------------------------------------------------
(* Go compares strings element by element; a proper prefix is smaller. *)
Less(s, t) ==
    \/ Len(s) < Len(t) /\ s = SubSeq(t, 1, Len(s))
    \/ \E i \in DOMAIN s \cap DOMAIN t :
          /\ s[i] < t[i]
          /\ \A j \in 1 .. i - 1 : s[j] = t[j]

InWindow(sta, end) == ~Less(now, sta) /\ ~Less(end, now)

(* Is an error returned? *)
checkControlCodes ==
    IF ctlCd = "08"
    THEN staTim # Null /\ endTim # Null /\ InWindow(staTim, endTim)
    ELSE ctlCd # "00"

-----------------------------------------------------------------------------
Init ==
    /\ ctlCd \in CtlCd
    /\ staTim \in TimeOfDay \cup {Null}
    /\ endTim \in TimeOfDay \cup {Null}
    /\ date \in Dates
    /\ clock \in TimeOfDay

TimePasses ==
    /\ clock' \in TimeOfDay
    /\ Less(clock, clock')
    /\ UNCHANGED <<row, date>>

Spec == Init /\ [][TimePasses]_vars

-----------------------------------------------------------------------------
(* Properties *)

(* "HHMMSS", as the comments call both the ends of a window and the moment *)
(* that is compared with them: with control code "08" and a window, an API *)
(* is refused when the time of day lies in the window and at no other      *)
(* time.  The code does not keep this.                                     *)
InWindowOfDay(sta, end) == ~Less(clock, sta) /\ ~Less(end, clock)

RefusedInWindow ==
    ctlCd = "08" /\ Null \notin {staTim, endTim} =>
        (checkControlCodes <=> InWindowOfDay(staTim, endTim))

(* What it computes instead, by comparing strings of different lengths:    *)
(* read as six-digit numbers, the window is compared with the year and the *)
(* month.  A window from 00:00:00 to 23:59:59 bars the API at any time in  *)
(* 2025, and one from 09:00:00 to 18:00:00 at none.                        *)
Number(s) == 10000 * s[1] + 100 * s[2] + s[3]

YearMonth == Number(<<20, date[1], date[2]>>)

RefusedByMonth ==
    checkControlCodes <=>
        \/ ctlCd \notin {"00", "08"}
        \/ /\ ctlCd = "08"
           /\ Null \notin {staTim, endTim}
           /\ Number(staTim) <= YearMonth
           /\ YearMonth < Number(endTim)

=============================================================================
