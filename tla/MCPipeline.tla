----------------------------- MODULE MCPipeline -----------------------------
(***************************************************************************)
(* Pipeline on every folder of up to MaxFiles entries drawn from the kinds *)
(* of entry that the code tells apart.                                     *)
(***************************************************************************)
EXTENDS Pipeline

CONSTANTS MaxFiles, c1, c2, t1, t2, t3

MCGarbledTitles == {t3}

MCCategories == {c1, c2}

\* "both.ru.en" is in two lists: the first one counts.
MCSiteLists ==
  [ru |-> {"ria.ru", "both.ru.en"}, en |-> {"bbc.com", "both.ru.en"}, other |-> {"lemonde.fr"}]

\* A readable HTML file.
Article(site, textLang, url, likely, title, topics) ==
  [reached |-> TRUE, regular |-> TRUE, size |-> 9, html |-> TRUE, readable |-> TRUE,
   utf8 |-> TRUE, site |-> site, textLang |-> textLang, url |-> url, likely |-> likely,
   title |-> title, topics |-> topics, known |-> topics # {}]

Entry(regular, size, html, readable) ==
  [Article("", "und", {}, FALSE, t1, {}) EXCEPT
     !.regular = regular, !.size = size, !.html = html, !.readable = readable]

Articles ==
  { Article("ria.ru", "en", {"path"}, FALSE, t1, {c1}),            \* ru by list, news by url
    Article("", "ru", {}, TRUE, t1, {c1, c2}),                     \* ru by text, news by model
    Article("bbc.com", "en", {"host"}, FALSE, t2, {c2}),           \* en, only the host says news
    Article("both.ru.en", "en", {}, TRUE, t2, {}),                 \* in two lists, in no category
    Article("", "en", {"host", "path"}, TRUE, t1, {c2}),           \* en by text
    Article("lemonde.fr", "ru", {"path"}, TRUE, t2, {c1}),         \* neither, news by url
    Article("", "de", {}, FALSE, t1, {}),                          \* neither
    Article("", "en", {}, TRUE, t3, {c1}) }                        \* its title is not UTF-8

OtherEntries ==
  { Entry(TRUE, 5, FALSE, TRUE),          \* not HTML, the shortest path that is compared
    Entry(TRUE, 4, FALSE, TRUE),          \* path shorter than ".html"
    Entry(FALSE, 4, FALSE, TRUE),         \* a directory of that name
    Entry(TRUE, 9, TRUE, FALSE),          \* cannot be opened
    [Article("ria.ru", "ru", {}, TRUE, t1, {c2}) EXCEPT !.utf8 = FALSE],  \* its path is not UTF-8
    [Entry(FALSE, 9, FALSE, TRUE) EXCEPT !.reached = FALSE] }             \* an error of the iterator

Folders(entries, max) == UNION {[1 .. m -> entries] : m \in 0 .. max}

MCCorpora == Folders(Articles \cup OtherEntries, MaxFiles)

ProductionTasks == {"languages", "news", "categories", "threads", "top"}
ToolTasks == {"news_test", "dump", "features", "unknown"}
TestTask == {"news_test"}
DumpTask == {"dump"}
=============================================================================
