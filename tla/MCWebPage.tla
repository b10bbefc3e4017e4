----------------------------- MODULE MCWebPage -----------------------------
EXTENDS WebPage

\* Widgets that share state are put on one page, the others on one each.
MCPages ==
  {{"modal", "nav"}, {"modal", "box"}} \cup
  {{w} : w \in {"modal", "dropdown", "select", "list", "tabs",
                "fab", "card", "toast", "tooltip", "waves", "field", "range",
                "slider", "spy", "fire", "pin", "parallax", "items",
                "picker", "calendar", "carousel"}}

\* 'd mmmm, yyyy' and 'dddd mm/dd yyyy'.
MCFormats == {<<"d", "-", "mmmm", "-", "-", "yyyy">>,
              <<"dddd", "-", "mm", "-", "dd", "-", "yyyy">>}
MCMonths == <<2, 4, 2>>
MCPickerLimits == <<3, 4>>
MCCalendarLimits == <<2, 7>>
MCUnits == {Weekdays(1), OneDate(6), DateRange(2, 4), DateRange(4, 6)}
=============================================================================
