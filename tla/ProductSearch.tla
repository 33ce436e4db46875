---------------------------- MODULE ProductSearch ---------------------------
(* ensure_showcase_product_attached: finding the task's product in the       *)
(* showcase, or adding it from TikTok Shop, before it is attached.  A list   *)
(* is read screen by screen; a card is recognized by the first 25 characters *)
(* of its normalized title (Lookalikes are the products that agree in them). *)
EXTENDS PublishPhone, FiniteSetsExt

CONSTANTS
  MaxListSwipes,   \* max_showcase_swipes and max_shop_swipes
  SameScreenLimit, \* screens without anything new before a search gives up
  ResetsList       \* whether reset_to_top_swipes is configured

ASSUME ProductSearchAssumption ==
  MaxListSwipes \in Nat /\ SameScreenLimit \in Nat \ {0} /\ ResetsList \in BOOLEAN

Areas == {"showcase", "tiktok_shop", "showcase_verify"}
Results == {"matched", "already_added", "not_found", "not_product_list", "titles_unreadable"}

NoScan == [area |-> "none", phase |-> "none", swipes |-> 0, seen |-> {},
           signature |-> {}, same |-> 0, card |-> 0, result |-> "none"]

\* A faulty variant: every card with a title matches.
AnyTitleMatches(titled) == titled

(* product_card_matches: by the prefix of the normalized title.              *)
matching_product_cards(titled) == { i \in titled : ListOf(phone.page)[i] \in Lookalikes }

(* product_button_already_added: the card's button says so in TikTok Shop.   *)
product_button_already_added(i) ==
  /\ phone.page = "shopList"
  /\ \E j \in DOMAIN phone.showcase : phone.showcase[j] = phone.shop[i]

(* product_bottom_reached with the texts for the end of a list, and with     *)
(* those of "Add more products", which the showcase keeps at its bottom.     *)
product_bottom_reached ==
  phone.page \in {"showcaseList", "shopList"} /\ phone.offset = LastOffset(ListOf(phone.page))
add_more_products_visible(area) == area = "showcase" /\ phone.page = "showcaseList"

(* The lowest card of a full screen may lie under the bar at the bottom.     *)
product_add_button_near_bottom_obstruction(i) == i = phone.offset + CardsPerScreen

(* A swipe moves the list by about half a screen, if at all; taken for a tap *)
(* it opens the page of a product.  Elsewhere it hits nothing or leaves.     *)
swipe_product_list ==
  LET step == AtLeast(1, CardsPerScreen \div 2)
      next == AtMost(phone.offset + step, LastOffset(ListOf(phone.page)))
  IN  IF Shown = {} THEN Stray
      ELSE phone' \in { [phone EXCEPT !.offset = o] : o \in {phone.offset, next} } \cup {Show("detail")}

(* Where configured, a list that is ready is first pushed back to its top by *)
(* swipes that may fall short.                                               *)
wait_for_product_list_ready == Shown # {}

reset_product_list_to_top ==
  IF ResetsList /\ ~job.dry /\ wait_for_product_list_ready
    THEN phone' \in { [phone EXCEPT !.offset = o] : o \in {0, phone.offset} }
    ELSE UNCHANGED phone

Stay == UNCHANGED <<runVars, phone>>

(* How a search ends: with a result, or with an exception of the step.       *)
finish(result) == scan' = [scan EXCEPT !.phase = "concluded", !.result = result] /\ Stay

Refuse(kind) == scan' = NoScan /\ Fail(kind) /\ UNCHANGED phone

(* search_visible_product_list up to its loop: only within the application.  *)
begin_search(area) ==
  IF confirm_expected_package
    THEN /\ scan' = [NoScan EXCEPT !.area = area, !.phase = "look"]
         /\ reset_product_list_to_top
         /\ UNCHANGED runVars
    ELSE Refuse("retryable")

(* One round of the loop.                                                    *)
product_detail_page_visible == phone.page = "detail"
ordinary_tiktok_search_results_visible == phone.page = "search"
centered_modal_dialog_visible == phone.page = "askAdd"
product_publish_name_page_visible == phone.page = "productName"

recover_from_product_detail_page ==
  /\ product_detail_page_visible
  /\ \/ /\ ~job.dry
        /\ phone' = Show(IF scan.area = "tiktok_shop" THEN "shopList" ELSE "showcaseList")
        /\ UNCHANGED <<scan, runVars>>
     \/ finish("not_product_list")

(* XML and OCR can read the titles of some of the cards on the screen.       *)
wait_for_product_card_titles == SUBSET Shown

Titles(titled) == { ListOf(phone.page)[i] : i \in titled }

SameAsBefore(cards, titled) ==
  scan.signature # {} /\ cards = scan.signature /\ Titles(titled) \subseteq scan.seen

SwipeOn(titled, signature, same) ==
  /\ scan' = [scan EXCEPT !.swipes = @ + 1, !.same = same, !.signature = signature,
                          !.seen = @ \cup Titles(titled)]
  /\ swipe_product_list /\ UNCHANGED runVars

\* A faulty variant: the limit of swipes is not tested.
SwipeWithoutLimit(cards, titled) ==
  IF product_bottom_reached \/ add_more_products_visible(scan.area) \/ job.dry
    THEN finish("not_found")
    ELSE SwipeOn(titled, cards, 0)

NoMatch(cards, titled) ==
  LET same == IF SameAsBefore(cards, titled) THEN scan.same + 1 ELSE 0
  IN  IF \/ product_bottom_reached
         \/ add_more_products_visible(scan.area)
         \/ scan.swipes >= MaxListSwipes
         \/ same >= SameScreenLimit
         \/ job.dry
        THEN finish("not_found")
        ELSE SwipeOn(titled, cards, same)

OneMatch(titled, i) ==
  CASE job.dry -> finish("matched")
    [] ~job.dry /\ scan.area = "tiktok_shop" /\ product_button_already_added(i) ->
         finish("already_added")
    [] OTHER ->
         \/ /\ product_add_button_near_bottom_obstruction(i)
            /\ IF scan.swipes >= MaxListSwipes
                 THEN finish("not_found")
                 ELSE SwipeOn(titled, {}, IF SameAsBefore(Shown, titled) THEN scan.same + 1 ELSE 0)
         \/ scan' = [scan EXCEPT !.phase = "press", !.card = i] /\ Stay

(* A screen without cards, or whose cards are not there yet: the search ends *)
(* at once on the results of the application's own search, and swipes on     *)
(* upon any other page.                                                      *)
look_without_cards ==
  /\ ~product_detail_page_visible
  /\ IF ordinary_tiktok_search_results_visible THEN finish("not_product_list") ELSE NoMatch({}, {})

look_at_cards ==
  /\ Shown # {}
  /\ \E titled \in wait_for_product_card_titles :
       LET matches == matching_product_cards(titled)
       IN  \/ Cardinality(matches) > 1 /\ Refuse("retryable")
           \/ titled = {} /\ finish("titles_unreadable")
           \/ titled # {} /\ matches = {} /\ NoMatch(Shown, titled)
           \/ \E i \in matches : matches = {i} /\ OneMatch(titled, i)

search_visible_product_list ==
  /\ scan.phase = "look"
  /\ IF confirm_expected_package
       THEN recover_from_product_detail_page \/ look_without_cards \/ look_at_cards
       ELSE Refuse("retryable")

(* The tap on the button of a card.  In the showcase it selects the product  *)
(* for the draft; in TikTok Shop it adds it to the showcase, at once or      *)
(* after a dialog, and may select it as well.                                *)
Chosen == ListOf(phone.page)[scan.card]
Added(list, product) == IF product \in ToSet(list) THEN list ELSE Append(list, product)

AfterPress(product) ==
  IF phone.page = "showcaseList"
    THEN { [Show(p) EXCEPT !.draft.pick = product] : p \in {"askAdd", "productName"} }
    ELSE { [Show("askAdd") EXCEPT !.draft.pick = product],
           [phone EXCEPT !.showcase = Added(@, product)],
           [Show("productName") EXCEPT !.showcase = Added(@, product), !.draft.pick = product],
           Show("search") }

(* Of the chosen card; the application must be in front afterwards.          *)
press_add_button ==
  /\ scan.phase = "press"
  /\ \/ /\ phone' \in AfterPress(Chosen) \cup {phone}
        /\ scan' = [scan EXCEPT !.phase = "concluded", !.result = "matched"]
        /\ UNCHANGED runVars
     \/ phone' = Show("elsewhere") /\ scan' = NoScan /\ Fail("retryable")

(* The searching part of the step has ended; "next" is what it does now.     *)
Enter(next) == scan' = [NoScan EXCEPT !.area = scan.area, !.phase = next] /\ UNCHANGED runVars

(* What ensure_showcase_product_attached makes of the search of the showcase *)
(* and of the one after an addition: attached, or the shop, or an error.     *)
Attached == Enter("attached") /\ UNCHANGED phone

after_showcase_search ==
  /\ scan.phase = "concluded" /\ scan.area \in {"showcase", "showcase_verify"}
  /\ IF scan.result = "matched" THEN Attached
     ELSE IF job.dry \/ scan.area = "showcase_verify" THEN Refuse("retryable")
     ELSE Enter("addMore") /\ UNCHANGED phone

(* add_product_from_tiktok_shop: two taps lead to the list of the shop.      *)
tap_add_more_products ==
  scan.phase = "addMore" /\ Tap("showcaseList", "moreProducts") /\ Enter("shopTab")

tap_tiktok_shop_tab ==
  scan.phase = "shopTab" /\ Tap("moreProducts", "shopList") /\ Enter("shop")

after_shop_search ==
  /\ scan.phase = "concluded" /\ scan.area = "tiktok_shop"
  /\ CASE scan.result = "matched" -> Enter("confirm") /\ UNCHANGED phone
       [] scan.result = "already_added" -> Enter("return") /\ UNCHANGED phone
       [] OTHER -> Refuse("final")

(* The first "Add" on the screen, or the point in the middle: the dialog's   *)
(* button; in the list of the shop the button of any card not added yet, or  *)
(* a card itself; on the page of the product's name the one that puts the    *)
(* product into the draft.                                                   *)
AfterConfirm ==
  CASE phone.page = "askAdd" ->
         { [Show(p) EXCEPT !.showcase = Added(@, phone.draft.pick)] :
             p \in {"shopList", "productName", "search", "elsewhere"} }
    [] phone.page = "shopList" ->
         {Show("detail"), Show("elsewhere")} \cup
         UNION { AfterPress(ListOf(phone.page)[i]) :
                   i \in { j \in Shown : ~product_button_already_added(j) } }
    [] phone.page = "productName" ->
         {Show("preset"), Show("elsewhere")} \cup
         { [Show(p) EXCEPT !.draft.link = phone.draft.pick] : p \in {"preset", "askSponsor"} }
    [] OTHER -> {Show("elsewhere")}

(* A dialog is confirmed, and so is a page that OCR takes for one by a text  *)
(* like "Add product"; a dialog still there afterwards is reported.          *)
confirm_shop_add_dialog_if_present ==
  /\ scan.phase = "confirm"
  /\ \/ /\ centered_modal_dialog_visible \/ job.addTextElsewhere
        /\ phone' \in AfterConfirm \cup {phone}
        /\ IF phone'.page = "askAdd" THEN scan' = NoScan /\ Fail("final") ELSE Enter("postAdd")
     \/ ~centered_modal_dialog_visible /\ Enter("postAdd") /\ UNCHANGED phone

(* Only a list leads back to the showcase; an unknown page is taken for the  *)
(* next one of the publication.                                              *)
classify_shop_post_add_screen ==
  /\ scan.phase = "postAdd"
  /\ CASE ~confirm_expected_package -> Refuse("retryable")
       [] product_publish_name_page_visible -> Attached
       [] ordinary_tiktok_search_results_visible -> Refuse("final")
       [] Shown # {} -> Enter("return") /\ UNCHANGED phone
       [] OTHER -> Attached

(* The word "Showcase" may already be visible, in which case nothing is      *)
(* tapped and the list shown stays the one of the shop.                      *)
return_to_showcase_product_list ==
  /\ scan.phase = "return"
  /\ \/ phone' = Show("showcaseList") /\ Enter("verify")
     \/ phone.page = "shopList" /\ UNCHANGED phone /\ Enter("verify")
     \/ Refuse("retryable")

ensure_showcase_product_attached ==
  /\ Step = "ensure_showcase_product_attached"
  /\ \/ scan.phase = "none" /\ begin_search("showcase")
     \/ scan.phase = "shop" /\ begin_search("tiktok_shop")
     \/ scan.phase = "verify" /\ begin_search("showcase_verify")
     \/ search_visible_product_list \/ press_add_button
     \/ after_showcase_search \/ after_shop_search
     \/ tap_add_more_products \/ tap_tiktok_shop_tab
     \/ confirm_shop_add_dialog_if_present \/ classify_shop_post_add_screen
     \/ return_to_showcase_product_list
     \/ scan.phase = "attached" /\ scan' = NoScan /\ UNCHANGED phone /\ Complete(state)
=============================================================================
